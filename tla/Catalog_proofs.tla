---------------------------- MODULE Catalog_proofs ----------------------------
(***************************************************************************)
(* Proofs about Catalog: its inductive invariant, for any number of        *)
(* events, sessions, seats and calls.                                      *)
(***************************************************************************)
EXTENDS Catalog, TLAPS, FiniteSetTheorems

-----------------------------------------------------------------------------
(* Seats in sets *)

\* A call makes one row for each of its positions.
LEMMA NewSeatsCardinality ==
    ASSUME CatalogAssumption, NEW P \in SUBSET Positions, NEW maker
    PROVE  /\ IsFiniteSet(NewSeats(P, maker))
           /\ Cardinality(P) \in Nat
           /\ Cardinality(NewSeats(P, maker)) = Cardinality(P)
<1> DEFINE f == [p \in P |-> [at |-> p, by |-> maker]]
<1>1. IsFiniteSet(P)
    BY FS_Subset DEF CatalogAssumption
<1>2. f \in Bijection(P, NewSeats(P, maker))
    <2>1. f \in [P -> NewSeats(P, maker)]
        BY DEF NewSeats
    <2>2. ASSUME NEW p \in P, NEW q \in P, f[p] = f[q] PROVE p = q
        <3>1. f[p].at = p /\ f[q].at = q
            OBVIOUS
        <3> QED BY <2>2, <3>1
    <2>3. ASSUME NEW x \in NewSeats(P, maker) PROVE \E p \in P : f[p] = x
        BY <2>3 DEF NewSeats
    <2> HIDE DEF f
    <2> QED BY <2>1, <2>2, <2>3 DEF Bijection, Injection, Surjection, IsInjective
<1>3. ExistsBijection(P, NewSeats(P, maker))
    BY <1>2 DEF ExistsBijection
<1> QED BY <1>1, <1>3, FS_Bijection, FS_CardinalityType

\* New seats at free positions are as many more as there are positions.
LEMMA SeatsGrow ==
    ASSUME CatalogAssumption, NEW S, IsFiniteSet(S), NEW P \in SUBSET Positions, NEW maker,
           P \cap {x.at : x \in S} = {}
    PROVE  /\ IsFiniteSet(S \cup NewSeats(P, maker))
           /\ Cardinality(S) \in Nat
           /\ Cardinality(S \cup NewSeats(P, maker)) = Cardinality(S) + Cardinality(P)
<1>1. S \cap NewSeats(P, maker) = {}
    BY DEF NewSeats
<1>2. Cardinality(S \cap NewSeats(P, maker)) = 0
    BY <1>1, FS_EmptySet
<1>3. /\ IsFiniteSet(S \cup NewSeats(P, maker))
      /\ Cardinality(S \cup NewSeats(P, maker)) =
            Cardinality(S) + Cardinality(NewSeats(P, maker)) - Cardinality(S \cap NewSeats(P, maker))
    BY NewSeatsCardinality, FS_Union
<1>4. Cardinality(S) \in Nat
    BY FS_CardinalityType
<1> QED BY <1>2, <1>3, <1>4, NewSeatsCardinality

\* New seats are at the positions they were made for.
LEMMA NewSeatsAt ==
    ASSUME NEW P, NEW maker
    PROVE  {x.at : x \in NewSeats(P, maker)} = P
<1>1. ASSUME NEW x \in NewSeats(P, maker) PROVE x.at \in P
    BY DEF NewSeats
<1>2. ASSUME NEW p \in P PROVE \E x \in NewSeats(P, maker) : x.at = p
    <2>1. [at |-> p, by |-> maker] \in NewSeats(P, maker)
        BY DEF NewSeats
    <2>2. [at |-> p, by |-> maker].at = p
        OBVIOUS
    <2> QED BY <2>1, <2>2
<1> QED BY <1>1, <1>2

-----------------------------------------------------------------------------
(* The parts of the invariant, by the variables they are about *)

AccountsInv == AccountsTypeOK /\ TokensNameOneAccount /\ AccountsAreDistinct

RowsInv == /\ event \in [Events -> EventRecord]
           /\ seats \in [Events -> SUBSET SeatRow]
           /\ session \in [Sessions -> SessionRecord]
           /\ sessionSeats \in [Sessions -> SUBSET SeatRow]
           /\ ChecksAreKept /\ SeatsAreUnique /\ SessionsHaveAllSeats
           /\ CapacityIsNotOverstated /\ RowsAreFinite

GenInv == /\ gen \in [GenCalls -> GenRecord]
          /\ overlapped \in SUBSET Events
          /\ CapacityIsExactWithoutOverlap
          /\ GenDiscipline

EditInv == /\ edit \in [Edits -> EditRecord]
           /\ \A d \in Edits : /\ edit[d].pc = "event" => edit[d].event \in Events
                               /\ edit[d].pc = "session" => edit[d].session \in Sessions

OrderInv == /\ order \in [Orders -> OrderRecord]
            /\ OrdersKeepTheirSession
            /\ \A o \in Orders : order[o].pc # "idle" => order[o].session \in Sessions

Parts == AccountsInv /\ RowsInv /\ GenInv /\ EditInv /\ OrderInv /\ CountersAgree

LEMMA InvParts == /\ CatalogInv <=> Parts
                  /\ CatalogInv' <=> Parts'
BY DEF CatalogInv, TypeOK, CallsAreNamed, Parts, AccountsInv, RowsInv, GenInv, EditInv, OrderInv

\* The accounts have nothing to do with the catalogue.
LEMMA AccountsFrame == AccountsInv /\ UNCHANGED accountVars => AccountsInv'
BY DEF AccountsInv, accountVars, AccountsTypeOK, TokensNameOneAccount, AccountsAreDistinct, AccountsOf

LEMMA RowsFrame == RowsInv /\ UNCHANGED rows => RowsInv'
BY DEF RowsInv, rows, ChecksAreKept, SeatsAreUnique, SessionsHaveAllSeats,
       CapacityIsNotOverstated, RowsAreFinite, Exists, Live

LEMMA GenFrame == GenInv /\ UNCHANGED <<rows, gen, overlapped>> => GenInv'
BY DEF GenInv, rows, CapacityIsExactWithoutOverlap, GenDiscipline, Informed, Apart, Exists, Live,
       SessionsOf, LoadedSessions, TakenPositions, HasCounters

LEMMA EditFrame == EditInv /\ UNCHANGED edit => EditInv'
BY DEF EditInv

LEMMA OrderFrame == OrderInv /\ UNCHANGED <<rows, order>> => OrderInv'
BY DEF OrderInv, rows, OrdersKeepTheirSession, Exists

-----------------------------------------------------------------------------
(* Accounts *)

\* A new account has an address of its own: the accounts of every other address stay.
LEMMA AccountsStep == AccountsInv /\ AccountsNext => AccountsInv'
<1> SUFFICES ASSUME AccountsInv, AccountsNext PROVE AccountsInv'
    OBVIOUS
<1> USE EmailsAssumption
<1>1. ASSUME NEW r \in Registrations, NEW e \in Emails, NEW admin \in BOOLEAN, LookUp(r, e, admin)
      PROVE  AccountsInv'
    <2>1. AccountsTypeOK'
        BY <1>1 DEF LookUp, AccountsInv, AccountsTypeOK, RegisteringRecord
    <2>2. TokensNameOneAccount'
        BY <1>1 DEF LookUp, AccountsInv, TokensNameOneAccount, AccountsOf
    <2>3. AccountsAreDistinct'
        BY <1>1 DEF LookUp, AccountsInv, AccountsTypeOK, AccountsAreDistinct, Account
    <2> QED BY <2>1, <2>2, <2>3 DEF AccountsInv
<1>2. ASSUME NEW r \in Registrations, Insert(r) PROVE AccountsInv'
    <2> DEFINE new == [id |-> r, email |-> registering[r].email, admin |-> registering[r].admin]
    <2>1. registering[r] \in RegisteringRecord
        BY <1>2 DEF AccountsInv, AccountsTypeOK
    <2>2. new \in Account
        BY <2>1 DEF Account, RegisteringRecord
    <2>3. \/ accounts' = accounts
          \/ accounts' = accounts \cup {new} /\ AccountsOf(new.email) = {}
        BY <1>2 DEF Insert, EmailIsFree
    <2>4. AccountsTypeOK'
        <3>1. Answered \in RegisteringRecord
            BY DEF Answered, Unasked, RegisteringRecord
        <3> QED BY <1>2, <2>2, <2>3, <3>1 DEF Insert, AccountsInv, AccountsTypeOK
    <2>5. TokensNameOneAccount'
        <3> SUFFICES ASSUME NEW t \in tokens
                     PROVE  \E a \in accounts' : a.id = t.account /\ AccountsOf(t.sub)' = {a}
            BY <1>2 DEF Insert, TokensNameOneAccount
        <3>1. PICK a \in accounts : a.id = t.account /\ AccountsOf(t.sub) = {a}
            BY DEF AccountsInv, TokensNameOneAccount
        <3>2. CASE accounts' = accounts
            BY <3>1, <3>2 DEF AccountsOf
        <3>3. CASE accounts' = accounts \cup {new} /\ AccountsOf(new.email) = {}
            <4>1. new.email # t.sub
                BY <3>1, <3>3
            <4> HIDE DEF new
            <4>2. AccountsOf(t.sub)' = AccountsOf(t.sub)
                BY <3>3, <4>1 DEF AccountsOf
            <4> QED BY <3>1, <3>3, <4>2
        <3> QED BY <2>3, <3>2, <3>3
    <2>6. AccountsAreDistinct'
        <3>1. \A a \in accounts' : registering'[a.id].pc = "done"
            BY <1>2, <2>3 DEF Insert, AccountsInv, AccountsTypeOK, AccountsAreDistinct, Account,
                              Answered, Unasked
        <3>2. \A a, b \in accounts' : a.email = b.email => a = b
            <4> HIDE DEF new
            <4> QED BY <2>3 DEF AccountsInv, AccountsAreDistinct, AccountsOf
        <3> QED BY <3>1, <3>2 DEF AccountsAreDistinct
    <2> QED BY <2>4, <2>5, <2>6 DEF AccountsInv
<1>3. ASSUME NEW a \in accounts, Login(a) PROVE AccountsInv'
    <2> DEFINE t == [sub |-> a.email, account |-> a.id]
    <2>1. t \in Token /\ AccountsOf(t.sub) = {a} /\ a.id = t.account
        BY <1>3 DEF Login, AccountsInv, AccountsTypeOK, Account, Token
    <2>2. tokens' = tokens \cup {t} /\ accounts' = accounts /\ registering' = registering
        BY <1>3 DEF Login
    <2> HIDE DEF t
    <2> QED BY <2>1, <2>2 DEF AccountsInv, AccountsTypeOK, TokensNameOneAccount,
                              AccountsAreDistinct, AccountsOf
<1>4. ASSUME NEW e \in Emails, RegistrationRefused(e) PROVE AccountsInv'
    BY <1>4, AccountsFrame DEF RegistrationRefused
<1>5. ASSUME NEW r \in Registrations, Seed(r) PROVE AccountsInv'
    BY <1>1, <1>5 DEF Seed
<1>6. ASSUME NEW r \in Registrations, NEW e \in Emails, Register(r, e) PROVE AccountsInv'
    BY <1>1, <1>6 DEF Register
<1> QED BY <1>2, <1>3, <1>4, <1>5, <1>6 DEF AccountsNext
-----------------------------------------------------------------------------
(* The start *)

\* An empty catalogue.
LEMMA InitInv == Init => CatalogInv
<1> SUFFICES ASSUME Init PROVE CatalogInv
    OBVIOUS
<1> USE EmailsAssumption, CatalogAssumption DEF Init
<1>1. AccountsInv
    BY DEF AccountsInit, AccountsInv, AccountsTypeOK, TokensNameOneAccount, AccountsAreDistinct,
           Unasked, RegisteringRecord
<1>2. RowsInv
    <2>1. NoEvent \in EventRecord /\ NoSession \in SessionRecord
        BY DEF NoEvent, NoSession, EventRecord, SessionRecord
    <2>2. \A s \in Sessions : ~Exists(s) /\ session[s].total = 0
        BY DEF Exists, NoSession
    <2>3. \A s \in Sessions : session[s].total <= Cardinality(sessionSeats[s])
        BY <2>2, FS_EmptySet
    <2> QED BY <2>1, <2>2, <2>3, FS_EmptySet
        DEF RowsInv, ChecksAreKept, SeatsAreUnique, SessionsHaveAllSeats, CapacityIsNotOverstated,
            RowsAreFinite
<1>3. GenInv
    <2>1. NoGen \in GenRecord /\ NoGen.pc = "idle"
        BY DEF NoGen, GenRecord, NoCounters, CounterRecord
    <2>2. \A g \in GenCalls : gen[g] = NoGen
        OBVIOUS
    <2>3. \A s \in Sessions : ~Exists(s)
        BY DEF Exists, NoSession
    <2>4. overlapped \in SUBSET Events /\ gen \in [GenCalls -> GenRecord]
        BY <2>1
    <2> QED BY <2>1, <2>2, <2>3, <2>4
        DEF GenInv, CapacityIsExactWithoutOverlap, GenDiscipline
<1>4. EditInv
    BY DEF EditInv, NoEdit, EditRecord
<1>5. OrderInv
    BY DEF OrderInv, NoOrder, OrderRecord, OrdersKeepTheirSession, NoCounters, CounterRecord
<1>6. CountersAgree
    BY DEF CountersAgree, NoSession, NoOrder, NoGen, NoCounters
<1> QED BY <1>1, <1>2, <1>3, <1>4, <1>5, <1>6, InvParts DEF Parts

-----------------------------------------------------------------------------
(* Steps that write no row of the catalogue *)

\* What generate_seats has read stays true while it only goes on reading, or gives up.
LEMMA GenReads ==
    ASSUME CatalogInv, CatalogAssumption, UNCHANGED <<accountVars, rows, edit, order>>,
           gen' \in [GenCalls -> GenRecord], GenInv',
           \A g \in GenCalls, s \in Sessions :
               gen'[g].loaded[s].available = gen'[g].loaded[s].total
    PROVE  CatalogInv'
<1>1. AccountsInv' /\ RowsInv' /\ EditInv' /\ OrderInv'
    BY InvParts, AccountsFrame, RowsFrame, EditFrame, OrderFrame DEF Parts
<1>2. CountersAgree'
    BY DEF CatalogInv, CountersAgree, rows
<1> QED BY <1>1, <1>2, InvParts DEF Parts

\* A call that starts, fails or is refused holds no counters.
LEMMA GenStarts ==
    ASSUME CatalogInv, CatalogAssumption, NEW g \in GenCalls, NEW c \in GenRecord,
           c.pc \in {"idle", "seats", "sessions"},
           c.pc # "idle" => c.event \in Events /\ c.at # {} /\ event[c.event].state # "none",
           gen' = [gen EXCEPT ![g] = c], UNCHANGED <<rows, overlapped>>
    PROVE  GenInv'
<1> USE DEF CatalogInv, TypeOK
<1>1. gen' \in [GenCalls -> GenRecord] /\ overlapped' \in SUBSET Events
    OBVIOUS
<1>2. CapacityIsExactWithoutOverlap'
    BY DEF CapacityIsExactWithoutOverlap, rows, Exists
<1>3. GenDiscipline'
    <2> SUFFICES ASSUME NEW h \in GenCalls, gen'[h].pc # "idle"
                 PROVE  /\ gen'[h].event \in Events /\ gen'[h].at # {}
                        /\ \A e \in Events : gen'[h].event = e => Informed(h, e)' /\ Apart(h, e)'
        BY DEF GenDiscipline
    <2> QED BY DEF GenDiscipline, Informed, Apart, rows, Live, LoadedSessions, SessionsOf, Exists,
                   TakenPositions, HasCounters
<1> QED BY <1>1, <1>2, <1>3 DEF GenInv

\* The SELECTs of the event and of the seats, and a ROLLBACK.
LEMMA GenStartsInv ==
    ASSUME CatalogInv, CatalogAssumption, NEW g \in GenCalls,
           \/ \E t, a : \E e \in Events, P \in SUBSET Positions : GenEvent(g, t, a, e, P)
           \/ GenSeats(g) \/ GenFails(g)
    PROVE  CatalogInv'
<1>1. NoGen \in GenRecord /\ NoGen.pc = "idle"
    BY DEF NoGen, GenRecord, NoCounters, CounterRecord
<1>2. gen[g] \in GenRecord
    BY DEF CatalogInv, TypeOK
<1>3. PICK c \in GenRecord :
        /\ c.pc \in {"idle", "seats", "sessions"}
        /\ c.pc # "idle" => c.event \in Events /\ c.at # {} /\ event[c.event].state # "none"
        /\ c.loaded = NoGen.loaded \/ c.loaded = gen[g].loaded
        /\ gen' = [gen EXCEPT ![g] = c]
    <2>1. ASSUME NEW t, NEW a, NEW e \in Events, NEW P \in SUBSET Positions, GenEvent(g, t, a, e, P)
          PROVE  \E c \in GenRecord :
                   /\ c.pc \in {"idle", "seats", "sessions"}
                   /\ c.pc # "idle" => c.event \in Events /\ c.at # {} /\ event[c.event].state # "none"
                   /\ c.loaded = NoGen.loaded \/ c.loaded = gen[g].loaded
                   /\ gen' = [gen EXCEPT ![g] = c]
        <3>1. [NoGen EXCEPT !.pc = "seats", !.event = e, !.at = P] \in GenRecord
            BY <1>1 DEF GenRecord
        <3>2. event[e].state # "none"
            BY <2>1 DEF GenEvent, Live
        <3> QED BY <2>1, <3>1, <3>2 DEF GenEvent, NoGen
    <2>2. CASE GenSeats(g)
        <3>1. [gen[g] EXCEPT !.pc = "sessions"] \in GenRecord
            BY <1>2 DEF GenRecord
        <3>2. gen[g].event \in Events /\ gen[g].at # {} /\ event[gen[g].event].state # "none"
            BY <2>2 DEF GenSeats, CatalogInv, GenDiscipline, Informed
        <3> QED BY <2>2, <1>1, <1>2, <3>1, <3>2 DEF GenSeats, GenRecord
    <2>3. CASE GenFails(g)
        BY <2>3, <1>1 DEF GenFails
    <2> QED BY <2>1, <2>2, <2>3
<1>4. UNCHANGED <<accountVars, rows, edit, order, overlapped>>
    BY DEF GenEvent, GenSeats, GenFails
<1>5. gen' \in [GenCalls -> GenRecord]
    BY <1>3 DEF CatalogInv, TypeOK
<1>6. GenInv'
    BY <1>3, <1>4, GenStarts
<1>7. \A h \in GenCalls, s \in Sessions : gen'[h].loaded[s].available = gen'[h].loaded[s].total
    BY <1>3 DEF CatalogInv, TypeOK, CountersAgree, NoGen, NoCounters
<1> QED BY <1>4, <1>5, <1>6, <1>7, GenReads

\* The counters that are loaded are those of the rows, and nobody else holds them unless
\* the calls overlap.
LEMMA GenSessionsInv ==
    ASSUME CatalogInv, CatalogAssumption, NEW g \in GenCalls, GenSessions(g)
    PROVE  CatalogInv'
<1> USE DEF GenSessions
<1>0. PICK e : e = gen[g].event
    OBVIOUS
<1>1. gen[g] \in GenRecord /\ session \in [Sessions -> SessionRecord]
    BY DEF CatalogInv, TypeOK
<1>2. e \in Events /\ gen[g].at # {} /\ event[e].state # "none"
    BY <1>0 DEF CatalogInv, GenDiscipline, Informed
<1>3. PICK L \in [Sessions -> CounterRecord] :
        L = [s \in Sessions |-> IF s \in SessionsOf(e) THEN Counters(s) ELSE NoCounters]
    BY <1>1 DEF Counters, NoCounters, CounterRecord, SessionRecord
<1>4. PICK c \in GenRecord : c = [gen[g] EXCEPT !.pc = "insert", !.loaded = L]
    BY <1>1, <1>3 DEF GenRecord
<1>4a. gen' = [gen EXCEPT ![g] = c]
    BY <1>0, <1>3, <1>4 DEF CatalogInv, TypeOK
<1>5. gen' \in [GenCalls -> GenRecord] /\ UNCHANGED <<accountVars, rows, edit, order>>
    BY <1>4a DEF CatalogInv, TypeOK
<1>6. /\ overlapped' \in SUBSET Events /\ overlapped \subseteq overlapped'
      /\ e \notin overlapped' => \A h \in GenCalls : ~HasCounters(h, e)
    BY <1>0, <1>2 DEF CatalogInv, TypeOK
<1>7. /\ c.loaded = L /\ c.event = e /\ c.pc = "insert" /\ c.at = gen[g].at
    BY <1>0, <1>1, <1>4 DEF GenRecord
<1>8. \A s \in Sessions : /\ s \in SessionsOf(e) => L[s] = Counters(s) /\ L[s] # NoCounters
                          /\ s \notin SessionsOf(e) => L[s] = NoCounters
    <2> SUFFICES ASSUME NEW s \in Sessions
                 PROVE  /\ s \in SessionsOf(e) => L[s] = Counters(s) /\ L[s] # NoCounters
                        /\ s \notin SessionsOf(e) => L[s] = NoCounters
        OBVIOUS
    <2>1. s \in SessionsOf(e) => session[s].total > 0
        BY DEF CatalogInv, ChecksAreKept, SessionsOf
    <2>2. session[s].total > 0 => Counters(s) # NoCounters
        BY DEF Counters, NoCounters
    <2> QED BY <2>1, <2>2, <1>3
<1>9. \A s \in SessionsOf(e) : L[s].total = session[s].total /\ L[s].total <= Cardinality(seats[e])
    BY <1>8 DEF Counters, SessionsOf, CatalogInv, SessionsHaveAllSeats, CapacityIsNotOverstated
<1>10. \A h \in GenCalls, s \in Sessions : gen'[h].loaded[s].available = gen'[h].loaded[s].total
    BY <1>4a, <1>7, <1>8 DEF CatalogInv, TypeOK, CountersAgree, Counters, NoCounters
<1>11. gen'[g] = c /\ \A h \in GenCalls : h # g => gen'[h] = gen[h]
    BY <1>4a DEF CatalogInv, TypeOK
<1>12. \A f : SessionsOf(f)' = SessionsOf(f) /\ Live(f)' = Live(f)
    BY <1>5 DEF rows, SessionsOf, Exists, Live
<1>13. GenInv'
    <2>1. CapacityIsExactWithoutOverlap'
        BY <1>5, <1>6 DEF CatalogInv, CapacityIsExactWithoutOverlap, rows, Exists
    <2>2. GenDiscipline'
        <3> SUFFICES ASSUME NEW h \in GenCalls, gen'[h].pc # "idle"
                     PROVE  /\ gen'[h].event \in Events /\ gen'[h].at # {}
                            /\ \A f \in Events : gen'[h].event = f => Informed(h, f)' /\ Apart(h, f)'
            BY DEF GenDiscipline
        <3>1. CASE h = g
            <4>1. gen'[h] = c /\ gen'[h].event = e
                BY <3>1, <1>7, <1>11
            <4>2. Informed(h, e)'
                <5>1. LoadedSessions(h)' = SessionsOf(e)'
                    BY <4>1, <1>7, <1>8 , <1>12 DEF LoadedSessions, SessionsOf, NoCounters
                <5> QED BY <4>1, <5>1, <1>2, <1>5, <1>7, <1>9, <1>12 DEF Informed, rows
            <4>3. Apart(h, e)'
                <5>1. \A k \in GenCalls : k # g /\ e \notin overlapped' => ~HasCounters(k, e)'
                    BY <1>6, <1>11 DEF HasCounters
                <5> QED BY <3>1, <4>1, <5>1, <1>5, <1>7, <1>9, <1>12 DEF Apart, rows
            <4> QED BY <4>1, <4>2, <4>3, <1>2, <1>7
        <3>2. CASE h # g
            <4>1. gen'[h] = gen[h] /\ LoadedSessions(h)' = LoadedSessions(h)
                BY <3>2, <1>11 DEF LoadedSessions
            <4>2. gen[h].event \in Events /\ gen[h].at # {}
                BY <4>1 DEF CatalogInv, GenDiscipline
            <4> SUFFICES ASSUME NEW f \in Events, gen[h].event = f
                         PROVE  Informed(h, f)' /\ Apart(h, f)'
                BY <4>1, <4>2
            <4>3. Informed(h, f) /\ Apart(h, f)
                BY <4>1 DEF CatalogInv, GenDiscipline
            <4>4. Informed(h, f)'
                BY <4>1, <4>3, <1>5, <1>12 DEF Informed, rows, TakenPositions
            <4>5. Apart(h, f)'
                <5>1. ASSUME gen[h].pc \in {"insert", "link"}, f \notin overlapped'
                      PROVE  /\ f # e /\ f \notin overlapped
                             /\ \A k \in GenCalls : HasCounters(k, f)' => HasCounters(k, f)
                    BY <5>1, <1>6, <1>7, <1>11 DEF HasCounters
                <5>2. \A k \in GenCalls : gen'[k].pc = "link" => gen'[k] = gen[k]
                    BY <1>7, <1>11
                <5> QED BY <4>1, <4>3, <5>1, <5>2, <1>5, <1>12 DEF Apart, rows
            <4> QED BY <4>4, <4>5
        <3> QED BY <3>1, <3>2
    <2> QED BY <1>5, <1>6, <2>1, <2>2 DEF GenInv
<1> QED BY <1>5, <1>10, <1>13, GenReads

\* The new seats are flushed only where no seat of the event is, committed or not.
LEMMA GenInsertInv ==
    ASSUME CatalogInv, CatalogAssumption, NEW g \in GenCalls, GenInsert(g)
    PROVE  CatalogInv'
<1>0. PICK e : e = gen[g].event
    OBVIOUS
<1>1. gen[g] \in GenRecord /\ gen[g].pc = "insert"
    BY DEF GenInsert, CatalogInv, TypeOK
<1>2. e \in Events /\ gen[g].at # {} /\ Informed(g, e) /\ Apart(g, e)
    BY <1>0, <1>1 DEF CatalogInv, GenDiscipline
<1>3. CASE ~SeatsInsertable(g)
    <2>1. GenFails(g)
        BY <1>1, <1>3 DEF GenInsert, GenFails
    <2> QED BY <2>1, GenStartsInv
<1>4. CASE SeatsInsertable(g)
    <2>1. PICK c \in GenRecord : c = [gen[g] EXCEPT !.pc = "link"]
        BY <1>1 DEF GenRecord
    <2>2. gen' = [gen EXCEPT ![g] = c]
        BY <1>4, <2>1 DEF GenInsert, CatalogInv, TypeOK
    <2>3. gen' \in [GenCalls -> GenRecord] /\ UNCHANGED <<accountVars, rows, edit, order, overlapped>>
        BY <2>2 DEF GenInsert, CatalogInv, TypeOK
    <2>4. c.loaded = gen[g].loaded /\ c.event = e /\ c.pc = "link" /\ c.at = gen[g].at
        BY <1>0, <1>1, <2>1 DEF GenRecord
    <2>5. gen'[g] = c /\ \A h \in GenCalls : h # g => gen'[h] = gen[h]
        BY <2>2 DEF CatalogInv, TypeOK
    <2>6. \A f : SessionsOf(f)' = SessionsOf(f) /\ Live(f)' = Live(f) /\ TakenPositions(f)' = TakenPositions(f)
        BY <2>3 DEF rows, SessionsOf, Exists, Live, TakenPositions
    <2>7. \A k \in GenCalls : \A f : HasCounters(k, f)' <=> HasCounters(k, f)
        BY <1>0, <1>1, <2>4, <2>5 DEF HasCounters
    <2>8. /\ Live(e) /\ gen[g].at \cap TakenPositions(e) = {}
          /\ \A h \in GenCalls : gen[h].pc = "link" /\ gen[h].event = e => gen[h].at \cap gen[g].at = {}
        BY <1>0, <1>4 DEF SeatsInsertable, GenInsert, MustWait
    <2>9. \A h \in GenCalls : LoadedSessions(h)' = LoadedSessions(h) /\ gen'[h].loaded = gen[h].loaded
        BY <2>4, <2>5 DEF LoadedSessions
    <2>10. GenDiscipline'
        <3> SUFFICES ASSUME NEW h \in GenCalls, gen'[h].pc # "idle"
                     PROVE  /\ gen'[h].event \in Events /\ gen'[h].at # {}
                            /\ \A f \in Events : gen'[h].event = f => Informed(h, f)' /\ Apart(h, f)'
            BY DEF GenDiscipline
        <3>1. CASE h = g
            <4>1. Informed(h, e)'
                BY <3>1, <1>1, <1>2, <2>3, <2>4, <2>5, <2>6, <2>8, <2>9 DEF Informed, rows
            <4>2. Apart(h, e)'
                BY <3>1, <1>1, <1>2, <2>3, <2>4, <2>5, <2>6, <2>7, <2>8 DEF Apart, rows
            <4> QED BY <3>1, <4>1, <4>2, <1>2, <2>4, <2>5
        <3>2. CASE h # g
            <4>1. gen'[h] = gen[h]
                BY <3>2, <2>5
            <4>2. gen[h].event \in Events /\ gen[h].at # {}
                BY <4>1 DEF CatalogInv, GenDiscipline
            <4> SUFFICES ASSUME NEW f \in Events, gen[h].event = f
                         PROVE  Informed(h, f)' /\ Apart(h, f)'
                BY <4>1, <4>2
            <4>3. Informed(h, f) /\ Apart(h, f)
                BY <4>1 DEF CatalogInv, GenDiscipline
            <4>4. Informed(h, f)'
                BY <4>1, <4>3, <2>3, <2>6, <2>9 DEF Informed, rows
            <4>5. Apart(h, f)'
                <5>1. \A k \in GenCalls :
                        gen[h].pc = "link" /\ gen'[k].pc = "link" /\ h # k /\ gen'[k].event = f =>
                            gen[h].at \cap gen'[k].at = {}
                    BY <4>3, <2>4, <2>5, <2>8 DEF Apart
                <5> QED BY <4>1, <4>3, <5>1, <2>3, <2>6, <2>7 DEF Apart, rows
            <4> QED BY <4>4, <4>5
        <3> QED BY <3>1, <3>2
    <2>11. CapacityIsExactWithoutOverlap'
        BY <2>3 DEF CatalogInv, CapacityIsExactWithoutOverlap, rows, Exists
    <2>12. GenInv'
        BY <2>3, <2>10, <2>11 DEF GenInv, CatalogInv, TypeOK
    <2>13. \A h \in GenCalls, s \in Sessions : gen'[h].loaded[s].available = gen'[h].loaded[s].total
        BY <2>9 DEF CatalogInv, CountersAgree
    <2> QED BY <2>3, <2>12, <2>13, GenReads
<1> QED BY <1>3, <1>4

-----------------------------------------------------------------------------
(* Steps that write rows *)

\* An order keeps its session where sessions stay.
LEMMA OrdersStay ==
    ASSUME OrderInv, UNCHANGED order,
           \A s \in Sessions : Exists(s) /\ (\E o \in Orders : order[o].session = s) => Exists(s)'
    PROVE  OrderInv'
BY DEF OrderInv, OrdersKeepTheirSession

\* Titles and statuses are in no part of the invariant.
LEMMA OnlyColumns ==
    ASSUME CatalogInv, UNCHANGED <<accountVars, seats, sessionSeats, gen, order, overlapped>>,
           event' \in [Events -> EventRecord], session' \in [Sessions -> SessionRecord],
           \A e \in Events : event'[e].state = event[e].state,
           \A s \in Sessions : /\ session'[s].state = session[s].state
                               /\ session'[s].event = session[s].event
                               /\ session'[s].total = session[s].total
                               /\ session'[s].available = session[s].available,
           EditInv'
    PROVE  CatalogInv'
<1> USE DEF CatalogInv, TypeOK
<1>1. AccountsInv'
    BY InvParts, AccountsFrame DEF Parts
<1>2. /\ \A e \in Events : Live(e)' = Live(e)
      /\ \A s \in Sessions : Exists(s)' = Exists(s)
      /\ \A e : SessionsOf(e)' = SessionsOf(e) /\ TakenPositions(e)' = TakenPositions(e)
      /\ \A g : LoadedSessions(g)' = LoadedSessions(g)
      /\ \A g, e : HasCounters(g, e)' = HasCounters(g, e)
    BY DEF Live, Exists, SessionsOf, TakenPositions, LoadedSessions, HasCounters
<1>3. RowsInv'
    BY <1>2 DEF RowsInv, ChecksAreKept, SeatsAreUnique, SessionsHaveAllSeats,
                CapacityIsNotOverstated, RowsAreFinite
<1>4. GenDiscipline'
    <2> SUFFICES ASSUME NEW h \in GenCalls, gen[h].pc # "idle"
                 PROVE  /\ gen[h].event \in Events /\ gen[h].at # {}
                        /\ \A f \in Events : gen[h].event = f => Informed(h, f)' /\ Apart(h, f)'
        BY DEF GenDiscipline
    <2>1. \A f \in Events : \A s \in SessionsOf(f) : session'[s].total = session[s].total
        BY DEF SessionsOf
    <2> QED BY <1>2, <2>1 DEF GenDiscipline, Informed, Apart
<1>5. GenInv'
    BY <1>2, <1>4 DEF GenInv, CapacityIsExactWithoutOverlap
<1>6. OrderInv'
    BY <1>2, InvParts, OrdersStay DEF Parts
<1>7. CountersAgree'
    BY DEF CountersAgree
<1> QED BY <1>1, <1>3, <1>5, <1>6, <1>7, InvParts DEF Parts

\* The edits of an event and of the status of a session.
LEMMA EditInvStep ==
    ASSUME CatalogInv, CatalogAssumption, NEW d \in Edits,
           \/ \E t, a : \/ \E e \in Events : EditEvent(d, t, a, e)
                        \/ \E s \in Sessions : EditSession(d, t, a, s)
           \/ \E x \in Titles : UpdateEvent(d, x)
           \/ \E x \in Statuses : UpdateStatus(d, x)
    PROVE  CatalogInv'
<1>1. NoEdit \in EditRecord /\ NoEdit.pc = "idle"
    BY DEF CatalogAssumption, NoEdit, EditRecord
<1>2. PICK c \in EditRecord : /\ edit' = [edit EXCEPT ![d] = c]
                              /\ c.pc = "event" => c.event \in Events
                              /\ c.pc = "session" => c.session \in Sessions
    <2>1. ASSUME NEW t, NEW a, NEW e \in Events, EditEvent(d, t, a, e)
          PROVE  \E c \in EditRecord : /\ edit' = [edit EXCEPT ![d] = c]
                                       /\ c.pc = "event" => c.event \in Events
                                       /\ c.pc = "session" => c.session \in Sessions
        <3>1. [NoEdit EXCEPT !.pc = "event", !.event = e] \in EditRecord
            BY <1>1 DEF EditRecord
        <3> QED BY <2>1, <3>1 DEF EditEvent, NoEdit
    <2>2. ASSUME NEW t, NEW a, NEW s \in Sessions, EditSession(d, t, a, s)
          PROVE  \E c \in EditRecord : /\ edit' = [edit EXCEPT ![d] = c]
                                       /\ c.pc = "event" => c.event \in Events
                                       /\ c.pc = "session" => c.session \in Sessions
        <3>1. session[s].status \in Statuses
            BY DEF CatalogInv, TypeOK, SessionRecord
        <3>2. [NoEdit EXCEPT !.pc = "session", !.session = s, !.status = session[s].status] \in EditRecord
            BY <1>1, <3>1 DEF EditRecord
        <3> QED BY <2>2, <3>2 DEF EditSession, NoEdit
    <2>3. ASSUME NEW x, UpdateEvent(d, x) \/ UpdateStatus(d, x)
          PROVE  edit' = [edit EXCEPT ![d] = NoEdit]
        BY <2>3 DEF UpdateEvent, UpdateStatus
    <2> QED BY <1>1, <2>1, <2>2, <2>3
<1>3. EditInv'
    BY <1>2 DEF EditInv, CatalogInv, TypeOK, CallsAreNamed
<1>4. ASSUME NEW t, NEW a, NEW x, EditEvent(d, t, a, x) \/ EditSession(d, t, a, x) PROVE CatalogInv'
    BY <1>3, <1>4, OnlyColumns DEF EditEvent, EditSession, rows, CatalogInv, TypeOK
<1>5. ASSUME NEW x \in Titles, UpdateEvent(d, x) PROVE CatalogInv'
    BY <1>3, <1>5, OnlyColumns DEF UpdateEvent, CatalogInv, TypeOK, EventRecord
<1>6. ASSUME NEW x \in Statuses, UpdateStatus(d, x) PROVE CatalogInv'
    <2>1. PICK s \in Sessions : s = edit[d].session
        BY <1>6 DEF UpdateStatus, CatalogInv, CallsAreNamed
    <2>2. session[s] \in SessionRecord
        BY DEF CatalogInv, TypeOK
    <2>3. [session[s] EXCEPT !.status = x] \in SessionRecord
        BY <2>2 DEF SessionRecord
    <2>4. session' = session \/ session' = [session EXCEPT ![s] = [session[s] EXCEPT !.status = x]]
        BY <1>6, <2>1 DEF UpdateStatus, CatalogInv, TypeOK
    <2>5. session' \in [Sessions -> SessionRecord]
        BY <2>3, <2>4 DEF CatalogInv, TypeOK
    <2>6. \A r \in Sessions : /\ session'[r].state = session[r].state
                              /\ session'[r].event = session[r].event
                              /\ session'[r].total = session[r].total
                              /\ session'[r].available = session[r].available
        BY <2>2, <2>4 DEF CatalogInv, TypeOK, SessionRecord
    <2>7. UNCHANGED <<accountVars, event, seats, sessionSeats, gen, order, overlapped>>
        BY <1>6 DEF UpdateStatus
    <2> QED BY <1>3, <2>5, <2>6, <2>7, OnlyColumns DEF CatalogInv, TypeOK
<1> QED BY <1>4, <1>5, <1>6

\* An order reads the catalogue, and a cancellation has nothing to write into it.
LEMMA OrderStepInv ==
    ASSUME CatalogInv, CatalogAssumption, NEW o \in Orders, OrderStep(o)
    PROVE  CatalogInv'
<1> USE DEF CatalogInv, TypeOK
<1>1. order[o] \in OrderRecord
    OBVIOUS
<1>2. NoOrder \in OrderRecord /\ NoOrder.loaded = NoCounters /\ NoCounters \in CounterRecord
    BY DEF NoOrder, OrderRecord, NoCounters, CounterRecord
<1> DEFINE Writes(c) == /\ order' = [order EXCEPT ![o] = c]
                        /\ c.pc # "idle" => c.session \in Sessions /\ Exists(c.session)
                        /\ c.loaded.available = c.loaded.total
<1>3. /\ UNCHANGED <<accountVars, rows, gen, edit, overlapped>>
      /\ \E c \in OrderRecord : Writes(c)
    <2>1. ASSUME NEW s \in Sessions, NEW n \in 1..MaxTickets, OpenOrder(o, s, n)
          PROVE  /\ UNCHANGED <<accountVars, rows, gen, edit, overlapped>>
                 /\ \E c \in OrderRecord : Writes(c)
        <3>1. [NoOrder EXCEPT !.pc = "open", !.session = s, !.seats = n] \in OrderRecord
            <4>1. n \in Nat
                BY DEF CatalogAssumption
            <4> QED BY <1>2, <4>1 DEF OrderRecord, NoOrder
        <3> QED BY <2>1, <1>2, <3>1 DEF OpenOrder, NoOrder, NoCounters
    <2>2. CASE CloseOrder(o)
        <3>1. [order[o] EXCEPT !.pc = "placed"] \in OrderRecord
            BY <1>1 DEF OrderRecord
        <3>2. Exists(order[o].session) /\ order[o].session \in Sessions
            BY <2>2 DEF CloseOrder, OrdersKeepTheirSession, CallsAreNamed
        <3>3. Writes([order[o] EXCEPT !.pc = "placed"]) \/ Writes(NoOrder)
            <4>1. CASE order' = [order EXCEPT ![o].pc = "placed"]
                <5>1. [order[o] EXCEPT !.pc = "placed"].loaded = order[o].loaded
                    BY <1>1 DEF OrderRecord
                <5>2. [order[o] EXCEPT !.pc = "placed"].session = order[o].session
                    BY <1>1 DEF OrderRecord
                <5> QED BY <4>1, <5>1, <5>2, <3>2 DEF CountersAgree
            <4>2. CASE order' = [order EXCEPT ![o] = NoOrder]
                BY <4>2 DEF NoOrder, NoCounters
            <4> QED BY <2>2, <4>1, <4>2 DEF CloseOrder
        <3> QED BY <2>2, <1>2, <3>1, <3>3 DEF CloseOrder
    <2>3. CASE CancelLoad(o)
        <3>1. Exists(order[o].session) /\ order[o].session \in Sessions
            BY <2>3 DEF CancelLoad, OrdersKeepTheirSession, CallsAreNamed
        <3>2. PICK c : c = [order[o] EXCEPT !.pc = "cancelling", !.loaded = Counters(order[o].session)]
            OBVIOUS
        <3>3. c \in OrderRecord
            BY <1>1, <3>1, <3>2 DEF OrderRecord, Counters, CounterRecord, SessionRecord
        <3>4. order' = [order EXCEPT ![o] = c]
            BY <2>3, <3>2 DEF CancelLoad
        <3>5. c.session = order[o].session /\ c.loaded.available = c.loaded.total
            BY <1>1, <3>1, <3>2 DEF OrderRecord, Counters, CountersAgree
        <3> QED BY <2>3, <3>1, <3>3, <3>4, <3>5 DEF CancelLoad
    <2>4. CASE CancelStore(o) \/ CancelFails(o)
        <3>1. Exists(order[o].session) /\ order[o].session \in Sessions
            BY <2>4 DEF CancelStore, CancelFails, OrdersKeepTheirSession, CallsAreNamed
        <3>2. PICK p \in {"placed", "cancelled"} :
                order' = [order EXCEPT ![o] = [@ EXCEPT !.pc = p, !.loaded = NoCounters]]
            BY <2>4 DEF CancelStore, CancelFails
        <3>3. [order[o] EXCEPT !.pc = p, !.loaded = NoCounters] \in OrderRecord
            BY <1>1, <1>2 DEF OrderRecord
        <3>4. UNCHANGED <<accountVars, rows, gen, edit, overlapped>>
            <4>1. CASE CancelStore(o)
                <5>1. Released(order[o].loaded, order[o].seats) = order[o].loaded.available
                    BY <1>1 DEF Released, CountersAgree, OrderRecord, CounterRecord
                <5> QED BY <4>1, <5>1 DEF CancelStore, rows
            <4>2. CASE CancelFails(o)
                BY <4>2 DEF CancelFails
            <4> QED BY <2>4, <4>1, <4>2
        <3> QED BY <1>1, <3>1, <3>2, <3>3, <3>4 DEF OrderRecord, NoCounters
    <2> QED BY <2>1, <2>2, <2>3, <2>4 DEF OrderStep
<1>4. PICK c \in OrderRecord : Writes(c)
    BY <1>3
<1>5. OrderInv'
    BY <1>3, <1>4 DEF OrderInv, OrdersKeepTheirSession, CallsAreNamed, rows, Exists
<1>6. CountersAgree'
    BY <1>3, <1>4 DEF CountersAgree, rows
<1> QED BY <1>3, <1>5, <1>6, InvParts, AccountsFrame, RowsFrame, GenFrame, EditFrame DEF Parts

\* The new seats get into the event and into each of its sessions at once; the counters
\* that were loaded, with the new seats added, promise no more than there are.
LEMMA GenLinkInv ==
    ASSUME CatalogInv, CatalogAssumption, NEW g \in GenCalls, GenLink(g)
    PROVE  CatalogInv'
<1> USE DEF CatalogInv, TypeOK
<1>0. PICK e : e = gen[g].event
    OBVIOUS
<1>1. PICK c \in GenRecord : c = gen[g] /\ c.pc = "link" /\ c.event = e /\ c.at \in SUBSET Positions
    BY <1>0 DEF GenLink, GenRecord
<1>2. e \in Events /\ Informed(g, e) /\ Apart(g, e)
    BY <1>0, <1>1 DEF GenDiscipline
<1>3. /\ Live(e) /\ c.at \cap TakenPositions(e) = {}
      /\ LoadedSessions(g) = SessionsOf(e)
      /\ \A s \in SessionsOf(e) : c.loaded[s].total <= Cardinality(seats[e])
    BY <1>1, <1>2 DEF Informed
<1>4. PICK new : new = NewSeats(c.at, g)
    OBVIOUS
<1>5. PICK n \in Nat : n = Cardinality(c.at)
    BY <1>1, NewSeatsCardinality
<1>6. /\ new \in SUBSET SeatRow
      /\ \A x \in new : x.at \in c.at
      /\ \A x, y \in new : x.at = y.at => x = y
    BY <1>1, <1>4 DEF NewSeats, SeatRow
<1>7. /\ IsFiniteSet(seats[e] \cup new)
      /\ Cardinality(seats[e]) \in Nat
      /\ Cardinality(seats[e] \cup new) = Cardinality(seats[e]) + n
    BY <1>1, <1>2, <1>3, <1>4, <1>5, SeatsGrow DEF RowsAreFinite, TakenPositions
<1>8. /\ seats' = [seats EXCEPT ![e] = @ \cup new]
      /\ sessionSeats' = [s \in Sessions |->
                            IF s \in SessionsOf(e) THEN sessionSeats[s] \cup new ELSE sessionSeats[s]]
      /\ gen' = [gen EXCEPT ![g] = NoGen]
      /\ UNCHANGED <<accountVars, event, edit, order, overlapped>>
    <2>1. gen[g].at = c.at /\ gen[g].event = e /\ new = NewSeats(gen[g].at, g)
        BY <1>0, <1>1, <1>4
    <2>2. LoadedSessions(g) = SessionsOf(e)
        BY <1>3
    <2>3. seats' = [seats EXCEPT ![e] = @ \cup new]
        BY <2>1 DEF GenLink
    <2>4. sessionSeats' = [s \in Sessions |->
                             IF s \in SessionsOf(e) THEN sessionSeats[s] \cup new ELSE sessionSeats[s]]
        BY <2>1, <2>2 DEF GenLink
    <2> QED BY <2>3, <2>4 DEF GenLink
<1>9. session' = [s \in Sessions |->
                    IF s \in SessionsOf(e)
                    THEN [session[s] EXCEPT !.total = c.loaded[s].total + n,
                                            !.available = c.loaded[s].total + n]
                    ELSE session[s]]
    BY <1>1, <1>3, <1>5 DEF GenLink, Grown, CountersAgree
<1>10. \A s \in Sessions : c.loaded[s].total \in Nat /\ c.loaded[s].available = c.loaded[s].total
    BY <1>1 DEF GenRecord, CounterRecord, CountersAgree
<1>11. \A s \in SessionsOf(e) : c.loaded[s].total > 0
    <2> SUFFICES ASSUME NEW s \in SessionsOf(e) PROVE c.loaded[s].total # 0
        BY <1>10 DEF SessionsOf
    <2>1. c.loaded[s] # NoCounters /\ s \in Sessions
        BY <1>1, <1>3 DEF LoadedSessions
    <2>2. c.loaded[s] \in CounterRecord
        BY <1>1, <2>1 DEF GenRecord
    <2> QED BY <2>1, <2>2, <1>10 DEF CounterRecord, NoCounters
<1>12. \A s \in Sessions :
         /\ session'[s] \in SessionRecord
         /\ session'[s].state = session[s].state /\ session'[s].event = session[s].event
         /\ session'[s].available = session'[s].total
         /\ s \in SessionsOf(e) => session'[s].total = c.loaded[s].total + n
         /\ s \notin SessionsOf(e) => session'[s] = session[s]
    <2> SUFFICES ASSUME NEW s \in Sessions
                 PROVE  /\ session'[s] \in SessionRecord
                        /\ session'[s].state = session[s].state /\ session'[s].event = session[s].event
                        /\ session'[s].available = session'[s].total
                        /\ s \in SessionsOf(e) => session'[s].total = c.loaded[s].total + n
                        /\ s \notin SessionsOf(e) => session'[s] = session[s]
        OBVIOUS
    <2>1. session[s] \in SessionRecord /\ c.loaded[s].total + n \in Nat
        BY <1>10
    <2>2. CASE s \in SessionsOf(e)
        BY <2>1, <2>2, <1>9 DEF SessionRecord
    <2>3. CASE s \notin SessionsOf(e)
        BY <2>1, <2>3, <1>9 DEF CountersAgree
    <2> QED BY <2>2, <2>3
<1>13. /\ \A s \in Sessions : Exists(s)' = Exists(s)
       /\ \A f : SessionsOf(f)' = SessionsOf(f) /\ Live(f)' = Live(f)
    BY <1>8, <1>12 DEF Exists, SessionsOf, Live
<1>14. \A f \in Events : seats'[f] = IF f = e THEN seats[e] \cup new ELSE seats[f]
    BY <1>8
<1>15. \A s \in Sessions : sessionSeats'[s] = IF s \in SessionsOf(e) THEN seats'[e] ELSE sessionSeats[s]
    BY <1>2, <1>8, <1>14 DEF SessionsHaveAllSeats, SessionsOf
<1>16. RowsInv'
    <2>1. /\ seats' \in [Events -> SUBSET SeatRow] /\ sessionSeats' \in [Sessions -> SUBSET SeatRow]
          /\ session' \in [Sessions -> SessionRecord] /\ event' \in [Events -> EventRecord]
        BY <1>6, <1>8, <1>9, <1>12
    <2>2. ChecksAreKept'
        BY <1>10, <1>11, <1>12, <1>13 DEF ChecksAreKept
    <2>3. SeatsAreUnique'
        <3> SUFFICES ASSUME NEW f \in Events, NEW x \in seats'[f], NEW y \in seats'[f], x.at = y.at
                     PROVE  x = y
            BY DEF SeatsAreUnique
        <3>1. \A z \in seats[e] : z.at \notin c.at
            BY <1>3 DEF TakenPositions
        <3> QED BY <3>1, <1>2, <1>6, <1>14 DEF SeatsAreUnique
    <2>4. SessionsHaveAllSeats'
        <3> SUFFICES ASSUME NEW s \in Sessions, Exists(s)
                     PROVE  /\ session'[s].event \in Events
                            /\ event'[session'[s].event].state = "live"
                            /\ sessionSeats'[s] = seats'[session'[s].event]
            BY <1>13 DEF SessionsHaveAllSeats, Live
        <3>1. PICK f \in Events : f = session[s].event /\ Live(f) /\ sessionSeats[s] = seats[f]
            BY DEF SessionsHaveAllSeats
        <3>2. s \in SessionsOf(e) <=> f = e
            BY <3>1 DEF SessionsOf
        <3>3. session'[s].event = f /\ event'[f] = event[f]
            BY <3>1, <1>8, <1>12
        <3> QED BY <3>1, <3>2, <3>3, <1>14, <1>15 DEF Live
    <2>5. CapacityIsNotOverstated'
        <3> SUFFICES ASSUME NEW s \in Sessions PROVE session'[s].total <= Cardinality(sessionSeats'[s])
            BY DEF CapacityIsNotOverstated
        <3>1. CASE s \in SessionsOf(e)
            <4>1. sessionSeats'[s] = seats[e] \cup new
                BY <3>1, <1>2, <1>14, <1>15
            <4>2. session'[s].total = c.loaded[s].total + n /\ c.loaded[s].total <= Cardinality(seats[e])
                BY <3>1, <1>3, <1>12
            <4> QED BY <4>1, <4>2, <1>7, <1>10
        <3>2. CASE s \notin SessionsOf(e)
            BY <3>2, <1>12, <1>15 DEF CapacityIsNotOverstated
        <3> QED BY <3>1, <3>2
    <2>6. RowsAreFinite'
        BY <1>7, <1>12, <1>13, <1>14, <1>15 DEF RowsAreFinite, SessionsOf
    <2> QED BY <2>1, <2>2, <2>3, <2>4, <2>5, <2>6 DEF RowsInv
<1>17. NoGen \in GenRecord /\ NoGen.pc = "idle"
    BY DEF NoGen, GenRecord, NoCounters, CounterRecord
<1>18. gen'[g] = NoGen /\ \A h \in GenCalls : h # g => gen'[h] = gen[h]
    BY <1>8
<1>19. GenDiscipline'
    <2> SUFFICES ASSUME NEW h \in GenCalls, gen'[h].pc # "idle", NEW f \in Events, gen'[h].event = f
                 PROVE  Informed(h, f)' /\ Apart(h, f)'
        BY <1>17, <1>18 DEF GenDiscipline
    <2>1. h # g /\ gen'[h] = gen[h]
        BY <1>17, <1>18
    <2>2. Informed(h, f) /\ Apart(h, f)
        BY <2>1 DEF GenDiscipline
    <2>3. Informed(h, f)'
        <3>1. LoadedSessions(h)' = LoadedSessions(h)
            BY <2>1 DEF LoadedSessions
        <3>2. \A s \in SessionsOf(f) : gen[h].loaded[s].total \in Nat
            BY DEF SessionsOf, GenRecord, CounterRecord
        <3>3. \A s \in SessionsOf(f) : gen[h].loaded[s].total <= Cardinality(seats[f])
                                       => gen[h].loaded[s].total <= Cardinality(seats'[f])
            <4>1. CASE f = e
                <5>1. seats'[f] = seats[e] \cup new
                    BY <4>1, <1>14
                <5> QED BY <4>1, <5>1, <3>2, <1>7
            <4>2. CASE f # e
                BY <4>2, <1>14
            <4> QED BY <4>1, <4>2
        <3>4. gen[h].pc = "link" => gen[h].at \cap TakenPositions(f)' = {}
            <4>1. CASE f = e
                <5>1. gen[h].pc = "link" => gen[h].at \cap c.at = {}
                    BY <4>1, <2>1, <1>1, <1>2 DEF Apart
                <5>2. TakenPositions(f)' \subseteq TakenPositions(f) \cup c.at
                    BY <4>1, <1>2, <1>6, <1>14 DEF TakenPositions
                <5> QED BY <5>1, <5>2, <2>2 DEF Informed
            <4>2. CASE f # e
                BY <4>2, <2>2, <1>14 DEF Informed, TakenPositions
            <4> QED BY <4>1, <4>2
        <3> QED BY <2>1, <2>2, <3>1, <3>3, <3>4, <1>8, <1>13 DEF Informed
    <2>4. Apart(h, f)'
        <3>1. \A k \in GenCalls : /\ gen'[k].pc = "link" => gen'[k] = gen[k]
                                  /\ HasCounters(k, f)' => HasCounters(k, f)
            BY <1>17, <1>18 DEF HasCounters
        <3>2. ASSUME gen[h].pc \in {"insert", "link"}, Live(f), f \notin overlapped PROVE f # e
            BY <3>2, <2>1, <2>2, <1>1 DEF Apart, HasCounters
        <3>3. f # e => \A s \in SessionsOf(f) : session'[s].total = session[s].total
            BY <1>12 DEF SessionsOf
        <3> QED BY <2>1, <2>2, <3>1, <3>2, <3>3, <1>8, <1>13 DEF Apart
    <2> QED BY <2>3, <2>4
<1>20. GenInv'
    <2>1. gen' \in [GenCalls -> GenRecord] /\ overlapped' \in SUBSET Events
        BY <1>8, <1>17
    <2>2. CapacityIsExactWithoutOverlap'
        <3> SUFFICES ASSUME NEW s \in Sessions, Exists(s), session[s].event \notin overlapped
                     PROVE  session'[s].total = Cardinality(sessionSeats'[s])
            BY <1>8, <1>12, <1>13 DEF CapacityIsExactWithoutOverlap
        <3>1. CASE s \in SessionsOf(e)
            <4>1. session[s].event = e /\ sessionSeats[s] = seats[e]
                BY <3>1 DEF SessionsOf, SessionsHaveAllSeats
            <4>2. c.loaded[s].total = session[s].total
                BY <3>1, <4>1, <1>1, <1>2, <1>3 DEF Apart
            <4>3. session[s].total = Cardinality(seats[e])
                BY <4>1 DEF CapacityIsExactWithoutOverlap
            <4>4. sessionSeats'[s] = seats[e] \cup new
                BY <3>1, <1>2, <1>14, <1>15
            <4>5. session'[s].total = session[s].total + n
                BY <3>1, <4>2, <1>12
            <4> QED BY <4>3, <4>4, <4>5, <1>7
        <3>2. CASE s \notin SessionsOf(e)
            BY <3>2, <1>12, <1>15 DEF CapacityIsExactWithoutOverlap
        <3> QED BY <3>1, <3>2
    <2> QED BY <1>19, <2>1, <2>2 DEF GenInv
<1>21. AccountsInv' /\ EditInv' /\ OrderInv'
    BY <1>8, <1>13, InvParts, AccountsFrame, EditFrame, OrdersStay DEF Parts
<1>22. CountersAgree'
    BY <1>8, <1>12, <1>18 DEF CountersAgree, NoGen, NoCounters
<1> QED BY <1>16, <1>20, <1>21, <1>22, InvParts DEF Parts

\* Only an event without orders and without uncommitted seats goes, and everything that
\* hangs on it goes with it.
LEMMA DeleteInv ==
    ASSUME CatalogInv, CatalogAssumption, NEW d \in Edits, DeleteEvent(d)
    PROVE  CatalogInv'
<1> USE DEF CatalogInv, TypeOK
<1>1. EditInv'
    <2>1. NoEdit \in EditRecord /\ NoEdit.pc = "idle"
        BY DEF CatalogAssumption, NoEdit, EditRecord
    <2> QED BY <2>1 DEF DeleteEvent, EditInv, CallsAreNamed
<1>2. CASE UNCHANGED rows
    BY <1>1, <1>2, OnlyColumns DEF DeleteEvent, rows
<1>3. CASE ~ UNCHANGED rows
    <2>1. PICK e \in Events : e = edit[d].event
        BY DEF DeleteEvent, CallsAreNamed
    <2>2. /\ ~Referenced(e) /\ Live(e) /\ Deletable(e)
          /\ event' = [event EXCEPT ![e].state = "deleted"]
          /\ seats' = [seats EXCEPT ![e] = {}]
          /\ session' = [s \in Sessions |-> IF s \in SessionsOf(e) THEN Gone ELSE session[s]]
          /\ sessionSeats' = [s \in Sessions |-> IF s \in SessionsOf(e) THEN {} ELSE sessionSeats[s]]
          /\ UNCHANGED <<accountVars, gen, order, overlapped>>
        BY <1>3, <2>1 DEF DeleteEvent
    <2>3. /\ Gone \in SessionRecord /\ Gone.state = "deleted"
          /\ Gone.total = 0 /\ Gone.available = 0
        BY DEF CatalogAssumption, Gone, NoSession, SessionRecord
    <2>4. /\ event' \in [Events -> EventRecord]
          /\ event'[e].state = "deleted" /\ \A f \in Events : f # e => event'[f] = event[f]
        BY <2>2 DEF EventRecord
    <2>5. \A s \in Sessions : /\ s \in SessionsOf(e) => session'[s] = Gone /\ sessionSeats'[s] = {}
                              /\ s \notin SessionsOf(e) => /\ session'[s] = session[s]
                                                           /\ sessionSeats'[s] = sessionSeats[s]
        BY <2>2
    <2>6. seats'[e] = {} /\ \A f \in Events : f # e => seats'[f] = seats[f]
        BY <2>2
    <2>7. \A s \in Sessions : Exists(s)' <=> Exists(s) /\ s \notin SessionsOf(e)
        BY <2>3, <2>5 DEF Exists
    <2>8. \A f \in Events : f # e => /\ Live(f)' = Live(f)
                                     /\ SessionsOf(f)' = SessionsOf(f)
                                     /\ TakenPositions(f)' = TakenPositions(f)
                                     /\ \A s \in SessionsOf(f) : session'[s] = session[s]
        <3> SUFFICES ASSUME NEW f \in Events, f # e
                     PROVE  /\ Live(f)' = Live(f)
                            /\ SessionsOf(f)' = SessionsOf(f)
                            /\ TakenPositions(f)' = TakenPositions(f)
                            /\ \A s \in SessionsOf(f) : session'[s] = session[s]
            OBVIOUS
        <3>1. \A s \in SessionsOf(f) : s \in Sessions /\ s \notin SessionsOf(e)
            BY DEF SessionsOf
        <3>2. \A s \in Sessions : s \in SessionsOf(f)' <=> s \in SessionsOf(f)
            BY <3>1, <2>5, <2>7 DEF SessionsOf
        <3> QED BY <3>1, <3>2, <2>4, <2>5, <2>6 DEF Live, SessionsOf, TakenPositions
    <2>9. RowsInv'
        <3>1. /\ seats' \in [Events -> SUBSET SeatRow] /\ sessionSeats' \in [Sessions -> SUBSET SeatRow]
              /\ session' \in [Sessions -> SessionRecord]
            BY <2>2, <2>3
        <3>2. ChecksAreKept'
            BY <2>5, <2>7 DEF ChecksAreKept
        <3>3. SeatsAreUnique'
            BY <2>6 DEF SeatsAreUnique
        <3>4. SessionsHaveAllSeats'
            <4> SUFFICES ASSUME NEW s \in Sessions, Exists(s), s \notin SessionsOf(e)
                         PROVE  /\ session'[s].event \in Events
                                /\ event'[session'[s].event].state = "live"
                                /\ sessionSeats'[s] = seats'[session'[s].event]
                BY <2>7 DEF SessionsHaveAllSeats, Live
            <4>1. PICK f \in Events : f = session[s].event /\ Live(f) /\ sessionSeats[s] = seats[f]
                BY DEF SessionsHaveAllSeats
            <4>2. f # e
                BY <4>1 DEF SessionsOf
            <4> QED BY <4>1, <4>2, <2>4, <2>5, <2>6 DEF Live
        <3>5. CapacityIsNotOverstated'
            <4> SUFFICES ASSUME NEW s \in Sessions PROVE session'[s].total <= Cardinality(sessionSeats'[s])
                BY DEF CapacityIsNotOverstated
            <4>1. CASE s \in SessionsOf(e)
                <5>1. session'[s].total = 0 /\ sessionSeats'[s] = {}
                    BY <4>1, <2>3, <2>5
                <5>2. Cardinality({}) = 0
                    BY FS_EmptySet
                <5> QED BY <5>1, <5>2
            <4>2. CASE s \notin SessionsOf(e)
                BY <4>2, <2>5 DEF CapacityIsNotOverstated
            <4> QED BY <4>1, <4>2
        <3>6. RowsAreFinite'
            BY <2>3, <2>5, <2>6, <2>7, FS_EmptySet DEF RowsAreFinite
        <3> QED BY <2>4, <3>1, <3>2, <3>3, <3>4, <3>5, <3>6 DEF RowsInv
    <2>10. GenDiscipline'
        <3> SUFFICES ASSUME NEW h \in GenCalls, gen[h].pc # "idle", NEW f \in Events, gen[h].event = f
                     PROVE  Informed(h, f)' /\ Apart(h, f)'
            BY <2>2 DEF GenDiscipline
        <3>1. Informed(h, f) /\ Apart(h, f) /\ LoadedSessions(h)' = LoadedSessions(h)
            BY <2>2 DEF GenDiscipline, LoadedSessions
        <3>2. \A k \in GenCalls : HasCounters(k, f)' = HasCounters(k, f)
            BY <2>2 DEF HasCounters
        <3>3. CASE f = e
            <4>1. gen[h].pc # "link"
                BY <3>3, <2>2 DEF Referenced
            <4>2. ~Live(f)'
                BY <3>3, <2>4 DEF Live
            <4> QED BY <3>3, <4>1, <4>2, <2>2, <2>4 DEF Informed, Apart
        <3>4. CASE f # e
            <4>1. Informed(h, f)'
                BY <3>1, <3>4, <2>2, <2>4, <2>6, <2>8 DEF Informed
            <4>2. Apart(h, f)'
                BY <3>1, <3>2, <3>4, <2>2, <2>8 DEF Apart
            <4> QED BY <4>1, <4>2
        <3> QED BY <3>3, <3>4
    <2>11. GenInv'
        BY <2>2, <2>5, <2>7, <2>10 DEF GenInv, CapacityIsExactWithoutOverlap
    <2>12. OrderInv'
        BY <2>2, <2>7, InvParts, OrdersStay DEF Deletable, Parts
    <2>13. CountersAgree'
        BY <2>2, <2>3, <2>5 DEF CountersAgree
    <2> QED BY <1>1, <2>2, <2>9, <2>11, <2>12, <2>13, InvParts, AccountsFrame DEF Parts
<1> QED BY <1>2, <1>3

\* A new event comes with its seats, its sessions and the rows that join them.
LEMMA CreateInv ==
    ASSUME CatalogInv, CatalogAssumption, NEW t, NEW a \in accounts, NEW e \in Events,
           NEW P \in SUBSET Positions, NEW S \in SUBSET Sessions, CreateEvent(t, a, e, P, S)
    PROVE  CatalogInv'
<1> USE DEF CatalogInv, TypeOK
<1>1. /\ event[e].state = "none" /\ P # {} /\ S # {}
      /\ \A s \in S : session[s].state = "none"
      /\ UNCHANGED <<accountVars, gen, edit, order, overlapped>>
    BY DEF CreateEvent
<1>2. PICK new : new = NewSeats(P, Creation)
    OBVIOUS
<1>3. PICK n \in Nat : n = Cardinality(P) /\ n > 0
    <2>1. IsFiniteSet(P)
        BY FS_Subset DEF CatalogAssumption
    <2> QED BY <1>1, <2>1, FS_EmptySet, FS_CardinalityType
<1>4. /\ new \in SUBSET SeatRow /\ IsFiniteSet(new) /\ Cardinality(new) = n
      /\ \A x, y \in new : x.at = y.at => x = y
    BY <1>2, <1>3, NewSeatsCardinality DEF NewSeats, SeatRow
<1>5. PICK row \in SessionRecord : /\ row = [state |-> "live", event |-> e, total |-> n,
                                            available |-> n, status |-> "draft"]
    BY DEF CatalogAssumption, SessionRecord
<1>6. /\ event' \in [Events -> EventRecord] /\ event'[e].state = "live"
      /\ \A f \in Events : f # e => event'[f] = event[f]
    <2>1. a.id \in Registrations
        BY DEF AccountsTypeOK, Account
    <2>2. [state |-> "live", by |-> a.id, title |-> "first"] \in EventRecord
        BY <2>1 DEF CatalogAssumption, EventRecord
    <2> QED BY <2>2 DEF CreateEvent
<1>7. seats'[e] = new /\ \A f \in Events : f # e => seats'[f] = seats[f]
    BY <1>2 DEF CreateEvent
<1>8. \A s \in Sessions : /\ s \in S => session'[s] = row /\ sessionSeats'[s] = new
                          /\ s \notin S => session'[s] = session[s] /\ sessionSeats'[s] = sessionSeats[s]
    BY <1>2, <1>3, <1>5 DEF CreateEvent
<1>9. /\ seats' \in [Events -> SUBSET SeatRow] /\ sessionSeats' \in [Sessions -> SUBSET SeatRow]
      /\ session' \in [Sessions -> SessionRecord]
    <2>1. seats' = [seats EXCEPT ![e] = new]
        BY <1>2 DEF CreateEvent
    <2>2. session' = [s \in Sessions |-> IF s \in S THEN row ELSE session[s]]
        BY <1>3, <1>5 DEF CreateEvent
    <2>3. sessionSeats' = [s \in Sessions |-> IF s \in S THEN new ELSE sessionSeats[s]]
        BY <1>2 DEF CreateEvent
    <2> QED BY <1>4, <2>1, <2>2, <2>3
<1>10. \A s \in Sessions : Exists(s)' <=> Exists(s) \/ s \in S
    BY <1>5, <1>8 DEF Exists
<1>11. \A f \in Events : f # e => /\ Live(f)' = Live(f)
                                  /\ SessionsOf(f)' = SessionsOf(f)
                                  /\ TakenPositions(f)' = TakenPositions(f)
                                  /\ \A s \in SessionsOf(f) : session'[s] = session[s]
    <2> SUFFICES ASSUME NEW f \in Events, f # e
                 PROVE  /\ Live(f)' = Live(f)
                        /\ SessionsOf(f)' = SessionsOf(f)
                        /\ TakenPositions(f)' = TakenPositions(f)
                        /\ \A s \in SessionsOf(f) : session'[s] = session[s]
        OBVIOUS
    <2>1. \A s \in SessionsOf(f) : s \in Sessions /\ s \notin S
        BY <1>1 DEF SessionsOf, Exists
    <2>2. \A s \in Sessions : s \in SessionsOf(f)' <=> s \in SessionsOf(f)
        BY <2>1, <1>5, <1>8, <1>10 DEF SessionsOf
    <2> QED BY <2>1, <2>2, <1>6, <1>7, <1>8 DEF Live, SessionsOf, TakenPositions
<1>12. RowsInv'
    <2>1. ChecksAreKept'
        BY <1>3, <1>5, <1>8, <1>10 DEF ChecksAreKept
    <2>2. SeatsAreUnique'
        BY <1>4, <1>7 DEF SeatsAreUnique
    <2>3. SessionsHaveAllSeats'
        <3> SUFFICES ASSUME NEW s \in Sessions, Exists(s) \/ s \in S
                     PROVE  /\ session'[s].event \in Events
                            /\ event'[session'[s].event].state = "live"
                            /\ sessionSeats'[s] = seats'[session'[s].event]
            BY <1>10 DEF SessionsHaveAllSeats, Live
        <3>1. CASE s \in S
            BY <3>1, <1>5, <1>6, <1>7, <1>8
        <3>2. CASE s \notin S
            <4>1. PICK f \in Events : f = session[s].event /\ Live(f) /\ sessionSeats[s] = seats[f]
                BY <3>2 DEF SessionsHaveAllSeats
            <4> QED BY <3>2, <4>1, <1>1, <1>6, <1>7, <1>8 DEF Live
        <3> QED BY <3>1, <3>2
    <2>4. CapacityIsNotOverstated'
        <3> SUFFICES ASSUME NEW s \in Sessions PROVE session'[s].total <= Cardinality(sessionSeats'[s])
            BY DEF CapacityIsNotOverstated
        <3>1. CASE s \in S
            BY <3>1, <1>4, <1>5, <1>8
        <3>2. CASE s \notin S
            BY <3>2, <1>8 DEF CapacityIsNotOverstated
        <3> QED BY <3>1, <3>2
    <2>5. RowsAreFinite'
        BY <1>4, <1>7, <1>8, <1>10 DEF RowsAreFinite
    <2> QED BY <1>6, <1>9, <2>1, <2>2, <2>3, <2>4, <2>5 DEF RowsInv
<1>13. GenDiscipline'
    <2> SUFFICES ASSUME NEW h \in GenCalls, gen[h].pc # "idle", NEW f \in Events, gen[h].event = f
                 PROVE  Informed(h, f)' /\ Apart(h, f)'
        BY <1>1 DEF GenDiscipline
    <2>1. Informed(h, f) /\ Apart(h, f) /\ LoadedSessions(h)' = LoadedSessions(h)
        BY <1>1 DEF GenDiscipline, LoadedSessions
    <2>2. f # e
        BY <2>1, <1>1 DEF Informed
    <2>3. \A k \in GenCalls : HasCounters(k, f)' = HasCounters(k, f)
        BY <1>1 DEF HasCounters
    <2>4. Informed(h, f)'
        BY <2>1, <2>2, <1>1, <1>6, <1>7, <1>11 DEF Informed
    <2>5. Apart(h, f)'
        BY <2>1, <2>2, <2>3, <1>1, <1>11 DEF Apart
    <2> QED BY <2>4, <2>5
<1>14. GenInv'
    <2>1. CapacityIsExactWithoutOverlap'
        <3> SUFFICES ASSUME NEW s \in Sessions, Exists(s)', session'[s].event \notin overlapped
                     PROVE  session'[s].total = Cardinality(sessionSeats'[s])
            BY <1>1 DEF CapacityIsExactWithoutOverlap
        <3>1. CASE s \in S
            BY <3>1, <1>4, <1>5, <1>8
        <3>2. CASE s \notin S
            BY <3>2, <1>8, <1>10 DEF CapacityIsExactWithoutOverlap
        <3> QED BY <3>1, <3>2
    <2> QED BY <1>1, <1>13, <2>1 DEF GenInv
<1>15. AccountsInv' /\ EditInv' /\ OrderInv'
    BY <1>1, <1>10, InvParts, AccountsFrame, EditFrame, OrdersStay DEF Parts
<1>16. CountersAgree'
    BY <1>1, <1>5, <1>8 DEF CountersAgree
<1> QED BY <1>12, <1>14, <1>15, <1>16, InvParts DEF Parts

-----------------------------------------------------------------------------
(* The theorems *)

\* Every step keeps the invariant.
LEMMA NextInv == CatalogInv /\ [Next]_vars => CatalogInv'
<1> SUFFICES ASSUME CatalogInv, [Next]_vars PROVE CatalogInv'
    OBVIOUS
<1> USE CatalogAssumption
<1>1. CASE UNCHANGED catalogVars /\ (AccountsNext \/ UNCHANGED accountVars)
    <2>1. AccountsInv'
        BY <1>1, InvParts, AccountsStep, AccountsFrame DEF Parts
    <2>2. RowsInv' /\ GenInv' /\ EditInv' /\ OrderInv'
        BY <1>1, InvParts, RowsFrame, GenFrame, EditFrame, OrderFrame DEF Parts, catalogVars
    <2>3. CountersAgree'
        BY <1>1 DEF CatalogInv, CountersAgree, catalogVars, rows
    <2> QED BY <2>1, <2>2, <2>3, InvParts DEF Parts
<1>2. ASSUME NEW t \in tokens, NEW a \in accounts, Requests(t, a) PROVE CatalogInv'
    BY <1>2, CreateInv, GenStartsInv, EditInvStep DEF Requests
<1>3. ASSUME NEW g \in GenCalls, GenStep(g) PROVE CatalogInv'
    BY <1>3, GenStartsInv, GenSessionsInv, GenInsertInv, GenLinkInv DEF GenStep
<1>4. ASSUME NEW d \in Edits, EditStep(d) PROVE CatalogInv'
    BY <1>4, EditInvStep, DeleteInv DEF EditStep
<1>5. ASSUME NEW o \in Orders, OrderStep(o) PROVE CatalogInv'
    BY <1>5, OrderStepInv
<1> QED BY <1>1, <1>2, <1>3, <1>4, <1>5 DEF Next, vars

\* The inductive invariant holds in every state of every instance.
THEOREM Invariance == Spec => []CatalogInv
<1>1. Init => CatalogInv
    BY InitInv
<1> QED BY <1>1, NextInv, PTL DEF Spec

\* Every variable stays in its domain.
THEOREM TypeCorrectness == Spec => []TypeOK
<1>1. CatalogInv => TypeOK
    BY DEF CatalogInv
<1> QED BY <1>1, Invariance, PTL

\* A token speaks for the account that logged in and for no other, however many
\* registrations of an address race each other.
THEOREM OneAccountPerToken == Spec => []TokensNameOneAccount
<1>1. CatalogInv => TokensNameOneAccount
    BY DEF CatalogInv
<1> QED BY <1>1, Invariance, PTL

\* No call runs into a CHECK constraint of event_sessions.
THEOREM NoCheckFails == Spec => []ChecksAreKept
<1>1. CatalogInv => ChecksAreKept
    BY DEF CatalogInv
<1> QED BY <1>1, Invariance, PTL

\* No chair is in the catalogue twice, however many calls of generate_seats overlap.
THEOREM UniqueSeats == Spec => []SeatsAreUnique
<1>1. CatalogInv => SeatsAreUnique
    BY DEF CatalogInv
<1> QED BY <1>1, Invariance, PTL

\* A session has exactly the seats of its event.
THEOREM CompleteSessions == Spec => []SessionsHaveAllSeats
<1>1. CatalogInv => SessionsHaveAllSeats
    BY DEF CatalogInv
<1> QED BY <1>1, Invariance, PTL

\* No order loses its session to the deletion of the event.
THEOREM OrdersAreSafe == Spec => []OrdersKeepTheirSession
<1>1. CatalogInv => OrdersKeepTheirSession
    BY DEF CatalogInv
<1> QED BY <1>1, Invariance, PTL

\* total_seats never promises a seat that does not exist, whatever update of it was lost.
THEOREM CapacityIsThere == Spec => []CapacityIsNotOverstated
<1>1. CatalogInv => CapacityIsNotOverstated
    BY DEF CatalogInv
<1> QED BY <1>1, Invariance, PTL

\* total_seats is exact for an event whose calls of generate_seats never overlapped.
THEOREM CapacityIsExact == Spec => []CapacityIsExactWithoutOverlap
<1>1. CatalogInv => CapacityIsExactWithoutOverlap
    BY DEF CatalogInv
<1> QED BY <1>1, Invariance, PTL

\* Any session whose counters saw no lost update can be handed to SeatBooking as it is:
\* the rows and the counter are those of SeatBooking's initial state.
THEOREM BookingTakesOver == Spec => []BookingMayStart
<1>1. CatalogInv => BookingMayStart
    <2> SUFFICES ASSUME CatalogInv, NEW s \in Sessions, Exists(s), session[s].event \notin overlapped
                 PROVE  /\ IsFiniteSet(sessionSeats[s])
                        /\ \A x, y \in sessionSeats[s] : x.at = y.at => x = y
                        /\ session[s].available = Cardinality(sessionSeats[s])
        BY DEF BookingMayStart
    <2>1. session[s].event \in Events /\ sessionSeats[s] = seats[session[s].event]
        BY DEF CatalogInv, SessionsHaveAllSeats
    <2>2. IsFiniteSet(sessionSeats[s])
        BY <2>1 DEF CatalogInv, RowsAreFinite
    <2>3. \A x, y \in sessionSeats[s] : x.at = y.at => x = y
        BY <2>1 DEF CatalogInv, SeatsAreUnique
    <2>4. session[s].available = Cardinality(sessionSeats[s])
        BY DEF CatalogInv, CountersAgree, CapacityIsExactWithoutOverlap
    <2> QED BY <2>2, <2>3, <2>4
<1> QED BY <1>1, Invariance, PTL

\* A committed order stays, with its session, and a session for which there is an order
\* never loses a seat: RESTRICT keeps an event that was ever sold.
THEOREM SalesStay == Spec => SalesAreKept
<1> DEFINE Committed == {"placed", "cancelling", "cancelled"}
           OrderKept(o) == order[o].pc # "open" =>
                             /\ order'[o].pc \in Committed
                             /\ order'[o].session = order[o].session
           PlaceKept(s) == session'[s].state = "live" /\ sessionSeats[s] \subseteq sessionSeats'[s]
           Kept == \A o \in Orders : order[o].pc # "idle" =>
                     LET s == order[o].session
                     IN  /\ order[o].pc # "open" =>
                               /\ order'[o].pc \in {"placed", "cancelling", "cancelled"}
                               /\ order'[o].session = s
                         /\ session'[s].state = "live"
                         /\ sessionSeats[s] \subseteq sessionSeats'[s]
<1>1. CatalogInv /\ [Next]_vars => Kept
    <2> SUFFICES ASSUME CatalogInv, [Next]_vars, NEW o \in Orders, order[o].pc # "idle"
                 PROVE  OrderKept(o) /\ PlaceKept(order[o].session)
        OBVIOUS
    <2> DEFINE s == order[o].session
    <2>1. s \in Sessions /\ session[s].state = "live"
        BY DEF CatalogInv, CallsAreNamed, OrdersKeepTheirSession, Exists
    <2>2. /\ sessionSeats \in [Sessions -> SUBSET SeatRow]
          /\ session \in [Sessions -> SessionRecord]
          /\ order \in [Orders -> OrderRecord]
        BY DEF CatalogInv, TypeOK
    <2>3. UNCHANGED <<session, sessionSeats>> => PlaceKept(s)
        BY <2>1
    <2>4. order' = order => OrderKept(o)
        <3>1. order[o].pc \in Committed \cup {"idle", "open"}
            BY <2>2 DEF OrderRecord
        <3> QED BY <3>1
    <2>5. ASSUME NEW t \in tokens, NEW a \in accounts, Requests(t, a)
          PROVE  OrderKept(o) /\ PlaceKept(s)
        <3>1. ASSUME NEW e \in Events, NEW P \in SUBSET Positions, NEW S \in SUBSET Sessions,
                     CreateEvent(t, a, e, P, S)
              PROVE  session'[s] = session[s] /\ sessionSeats'[s] = sessionSeats[s] /\ order' = order
            BY <2>1, <3>1 DEF CreateEvent
        <3>2. CASE UNCHANGED <<session, sessionSeats, order>>
            BY <2>3, <2>4, <3>2
        <3>3. CASE \E e \in Events, P \in SUBSET Positions, S \in SUBSET Sessions :
                     CreateEvent(t, a, e, P, S)
            BY <2>1, <2>4, <3>1, <3>3
        <3> QED BY <2>5, <3>2, <3>3 DEF Requests, GenEvent, EditEvent, EditSession, rows
    <2>6. ASSUME NEW g \in GenCalls, GenStep(g)
          PROVE  OrderKept(o) /\ PlaceKept(s)
        <3>1. CASE GenLink(g)
            <4>1. order' = order /\ sessionSeats[s] \subseteq sessionSeats'[s]
                BY <2>1, <3>1 DEF GenLink
            <4>2. session'[s].state = session[s].state
                BY <2>1, <2>2, <3>1 DEF GenLink, SessionRecord
            <4> QED BY <2>1, <2>4, <4>1, <4>2
        <3> QED BY <2>3, <2>4, <2>6, <3>1 DEF GenStep, GenSeats, GenSessions, GenInsert, GenFails, rows
    <2>7. ASSUME NEW d \in Edits, EditStep(d)
          PROVE  OrderKept(o) /\ PlaceKept(s)
        <3>0. order' = order
            BY <2>7 DEF EditStep, UpdateEvent, UpdateStatus, DeleteEvent
        <3>1. CASE DeleteEvent(d)
            <4>1. CASE Live(edit[d].event) /\ Deletable(edit[d].event)
                <5>1. s \notin SessionsOf(edit[d].event)
                    BY <4>1 DEF Deletable
                <5>2. session'[s] = session[s] /\ sessionSeats'[s] = sessionSeats[s]
                    BY <2>1, <3>1, <4>1, <5>1 DEF DeleteEvent
                <5> QED BY <2>1, <2>4, <3>0, <5>2
            <4> QED BY <2>3, <2>4, <3>0, <3>1, <4>1 DEF DeleteEvent, rows
        <3>2. CASE \E x \in Titles : UpdateEvent(d, x)
            BY <2>3, <2>4, <3>0, <3>2 DEF UpdateEvent
        <3>3. ASSUME NEW x \in Statuses, UpdateStatus(d, x) PROVE OrderKept(o) /\ PlaceKept(s)
            <4>1. session'[s].state = session[s].state /\ sessionSeats' = sessionSeats
                BY <2>1, <2>2, <3>3 DEF UpdateStatus, SessionRecord
            <4> QED BY <2>1, <2>4, <3>0, <4>1
        <3> QED BY <2>7, <3>1, <3>2, <3>3 DEF EditStep
    <2>8. ASSUME NEW p \in Orders, OrderStep(p)
          PROVE  OrderKept(o) /\ PlaceKept(s)
        <3>1. session'[s].state = "live" /\ sessionSeats' = sessionSeats
            <4>1. CASE CancelStore(p)
                BY <2>1, <2>2, <4>1 DEF CancelStore, SessionRecord
            <4>2. CASE ~CancelStore(p)
                BY <2>1, <2>8, <4>2 DEF OrderStep, OpenOrder, CloseOrder, CancelLoad, CancelFails, rows
            <4> QED BY <4>1, <4>2
        <3>2. OrderKept(o)
            <4>1. CASE p = o
                <5>1. CASE CancelLoad(o)
                    BY <2>2, <5>1 DEF CancelLoad, OrderRecord
                <5>2. CASE CancelStore(o)
                    BY <2>2, <5>2 DEF CancelStore, OrderRecord
                <5>3. CASE CancelFails(o)
                    BY <2>2, <5>3 DEF CancelFails, OrderRecord
                <5> QED BY <2>8, <4>1, <5>1, <5>2, <5>3 DEF OrderStep, OpenOrder, CloseOrder
            <4>2. CASE p # o
                <5>1. order'[o] = order[o]
                    BY <2>2, <2>8, <4>2 DEF OrderStep, OpenOrder, CloseOrder, CancelLoad, CancelStore, CancelFails
                <5>2. order[o].pc \in Committed \cup {"idle", "open"}
                    BY <2>2 DEF OrderRecord
                <5> QED BY <5>1, <5>2
            <4> QED BY <4>1, <4>2
        <3> QED BY <3>1, <3>2
    <2>9. CASE UNCHANGED catalogVars
        BY <2>3, <2>4, <2>9 DEF catalogVars, rows
    <2> QED BY <2>5, <2>6, <2>7, <2>8, <2>9 DEF Next, vars
<1>2. CatalogInv /\ [Next]_vars => [Kept]_vars
    BY <1>1
<1> QED BY <1>2, Invariance, PTL DEF Spec, SalesAreKept

-----------------------------------------------------------------------------
(* The refinement of SeatPlan *)

\* What the refinement mapping makes of the rows.
Homes == [s \in Sessions |-> IF Exists(s) THEN session[s].event ELSE None]
Offers == [s \in Sessions |-> {x.at : x \in sessionSeats[s]}]

\* None is no event: the sessions of an event are the same on both levels, and so are
\* its seats, since each of its sessions has them all.
LEMMA PlanSessions ==
    ASSUME CatalogInv, CatalogAssumption, NEW e \in Events
    PROVE  /\ Plan!SessionsOf(e) = SessionsOf(e)
           /\ Plan!Offered(e) \subseteq TakenPositions(e)
<1>1. Plan!SessionsOf(e) = SessionsOf(e)
    BY DEF Plan!SessionsOf, SessionsOf, CatalogAssumption
<1>2. ASSUME NEW s \in SessionsOf(e) PROVE {x.at : x \in sessionSeats[s]} = TakenPositions(e)
    BY <1>2 DEF SessionsOf, CatalogInv, SessionsHaveAllSeats, TakenPositions
<1>3. Plan!Offered(e) = UNION {{x.at : x \in sessionSeats[s]} : s \in SessionsOf(e)}
    BY <1>1 DEF Plan!Offered, SessionsOf
<1> QED BY <1>1, <1>2, <1>3

\* The plan shows neither titles nor statuses nor counters.
LEMMA PlanStutters ==
    ASSUME \A s \in Sessions : /\ session'[s].state = session[s].state
                               /\ session'[s].event = session[s].event,
           UNCHANGED sessionSeats, SoldSessions' = SoldSessions
    PROVE  UNCHANGED Plan!vars
<1>1. Homes' = Homes /\ Offers' = Offers
    BY DEF Homes, Offers, Exists
<1> QED BY <1>1 DEF Plan!vars, Homes, Offers

\* Only the rows of orders make a session sold.
LEMMA SoldFrame == UNCHANGED order => SoldSessions' = SoldSessions
BY DEF SoldSessions

\* An empty plan.
LEMMA PlanInit == Init => Plan!Init
<1> SUFFICES ASSUME Init PROVE Plan!Init
    OBVIOUS
<1>1. \A s \in Sessions : ~Exists(s) /\ sessionSeats[s] = {}
    BY DEF Init, Exists, NoSession
<1>2. SoldSessions = {}
    BY DEF Init, SoldSessions, NoOrder
<1> QED BY <1>1, <1>2 DEF Plan!Init

\* An event that was never created has no sessions; create_event gives it all of them.
LEMMA CreatePlan ==
    ASSUME CatalogInv, CatalogAssumption, NEW t, NEW a, NEW e \in Events,
           NEW P \in SUBSET Positions, NEW S \in SUBSET Sessions, CreateEvent(t, a, e, P, S)
    PROVE  Plan!Next
<1>1. P # {} /\ S # {} /\ SoldSessions' = SoldSessions /\ \A s \in S : ~Exists(s)
    BY SoldFrame DEF CreateEvent, Exists
<1>2. SessionsOf(e) = {}
    BY DEF CreateEvent, SessionsOf, CatalogInv, SessionsHaveAllSeats, Live
<1>3. {x.at : x \in NewSeats(P, Creation)} = P
    BY NewSeatsAt
<1>4. ASSUME NEW s \in Sessions
      PROVE  Homes'[s] = (IF s \in S THEN e ELSE Homes[s])
    BY DEF CreateEvent, Homes, Exists
<1>5. ASSUME NEW s \in Sessions
      PROVE  Offers'[s] = (IF s \in S THEN P ELSE Offers[s])
    BY <1>3 DEF CreateEvent, Offers
<1>6. /\ Homes' = [s \in Sessions |-> IF s \in S THEN e ELSE Homes[s]]
      /\ Offers' = [s \in Sessions |-> IF s \in S THEN P ELSE Offers[s]]
    BY <1>4, <1>5 DEF Homes, Offers
<1>7. Plan!Create(e, P, S)
    BY <1>1, <1>6 DEF Plan!Create, Homes, Offers
<1> QED BY <1>1, <1>2, <1>7, PlanSessions DEF Plan!Next

\* The commit of generate_seats: the sessions that were loaded are still those of the
\* event, which is still there, and the seats are still new to them.
LEMMA GenLinkPlan ==
    ASSUME CatalogInv, CatalogAssumption, NEW g \in GenCalls, GenLink(g)
    PROVE  Plan!Next
<1>1. PICK e \in Events, P \in SUBSET Positions :
         /\ e = gen[g].event /\ P = gen[g].at /\ P # {}
         /\ P \cap TakenPositions(e) = {}
         /\ LoadedSessions(g) = SessionsOf(e)
    BY DEF GenLink, CatalogInv, TypeOK, GenRecord, GenDiscipline, Informed
<1>2. {x.at : x \in NewSeats(P, g)} = P
    BY NewSeatsAt
<1>3. \A s \in Sessions : /\ session[s] \in SessionRecord
                          /\ s \in SessionsOf(e) \/ s \notin SessionsOf(e)
    BY DEF CatalogInv, TypeOK
<1>4. \A s \in Sessions : /\ session'[s].state = session[s].state
                          /\ session'[s].event = session[s].event
    BY <1>3 DEF GenLink, SessionRecord
<1>5. Homes' = Homes
    BY <1>4 DEF Homes, Exists
<1>6. sessionSeats' = [s \in Sessions |-> IF s \in SessionsOf(e)
                                          THEN sessionSeats[s] \cup NewSeats(P, g)
                                          ELSE sessionSeats[s]]
    BY <1>1 DEF GenLink
<1>7. ASSUME NEW s \in Sessions
      PROVE  Offers'[s] = (IF s \in SessionsOf(e) THEN Offers[s] \cup P ELSE Offers[s])
    BY <1>2, <1>6 DEF Offers
<1>8. Offers' = [s \in Sessions |-> IF s \in SessionsOf(e) THEN Offers[s] \cup P ELSE Offers[s]]
    BY <1>7 DEF Offers
<1>9. SoldSessions' = SoldSessions
    BY SoldFrame DEF GenLink
<1>10. Plan!Extend(e, P)
    BY <1>5, <1>8, <1>9, PlanSessions DEF Plan!Extend, Homes, Offers
<1>11. P \in (SUBSET (Positions \ Plan!Offered(e))) \ {{}}
    BY <1>1, PlanSessions
<1> QED BY <1>10, <1>11 DEF Plan!Next

\* The foreign keys of orders let an event go only if none of its sessions was sold.
LEMMA DeletePlan ==
    ASSUME CatalogInv, CatalogAssumption, NEW d \in Edits, DeleteEvent(d)
    PROVE  Plan!Next \/ UNCHANGED Plan!vars
<1>0. SoldSessions' = SoldSessions
    BY SoldFrame DEF DeleteEvent
<1>1. CASE UNCHANGED rows
    BY <1>0, <1>1, PlanStutters DEF rows
<1>2. CASE ~ UNCHANGED rows
    <2>1. PICK e \in Events : e = edit[d].event
        BY DEF DeleteEvent, CatalogInv, CallsAreNamed
    <2>2. /\ Deletable(e)
          /\ session' = [s \in Sessions |-> IF s \in SessionsOf(e) THEN Gone ELSE session[s]]
          /\ sessionSeats' = [s \in Sessions |-> IF s \in SessionsOf(e) THEN {} ELSE sessionSeats[s]]
        BY <1>2, <2>1 DEF DeleteEvent
    <2>3. ASSUME NEW s \in Sessions
          PROVE  /\ Homes'[s] = (IF s \in SessionsOf(e) THEN None ELSE Homes[s])
                 /\ Offers'[s] = (IF s \in SessionsOf(e) THEN {} ELSE Offers[s])
        BY <2>2 DEF Homes, Offers, Exists, Gone, NoSession
    <2>4. /\ Homes' = [s \in Sessions |-> IF s \in SessionsOf(e) THEN None ELSE Homes[s]]
          /\ Offers' = [s \in Sessions |-> IF s \in SessionsOf(e) THEN {} ELSE Offers[s]]
        BY <2>3 DEF Homes, Offers
    <2>5. SessionsOf(e) \cap SoldSessions = {}
        BY <2>2 DEF Deletable, SoldSessions
    <2>6. CASE SessionsOf(e) = {}
        <3>1. Homes' = Homes /\ Offers' = Offers
            BY <2>4, <2>6 DEF Homes, Offers
        <3> QED BY <3>1, <1>0 DEF Plan!vars, Homes, Offers
    <2>7. CASE SessionsOf(e) # {}
        <3>1. Plan!Delete(e)
            BY <1>0, <2>4, <2>5, <2>7, PlanSessions DEF Plan!Delete, Homes, Offers
        <3> QED BY <3>1 DEF Plan!Next
    <2> QED BY <2>6, <2>7
<1> QED BY <1>1, <1>2

\* The COMMIT of an order sells its session, unless that was sold before; what becomes of
\* the order later changes nothing of that.
LEMMA OrderPlan ==
    ASSUME CatalogInv, CatalogAssumption, NEW o \in Orders, OrderStep(o)
    PROVE  Plan!Next \/ UNCHANGED Plan!vars
<1> DEFINE committed == {"placed", "cancelling", "cancelled"}
<1>1. order \in [Orders -> OrderRecord] /\ session \in [Sessions -> SessionRecord]
    BY DEF CatalogInv, TypeOK
<1>2. /\ UNCHANGED sessionSeats
      /\ \A s \in Sessions : /\ session'[s].state = session[s].state
                             /\ session'[s].event = session[s].event
    <2>1. CASE CancelStore(o)
        BY <1>1, <2>1 DEF CancelStore, SessionRecord
    <2>2. CASE UNCHANGED rows
        BY <2>2 DEF rows
    <2> QED BY <2>1, <2>2 DEF OrderStep, OpenOrder, CloseOrder, CancelLoad, CancelFails
<1>3. Homes' = Homes /\ Offers' = Offers
    BY <1>2 DEF Homes, Offers, Exists
<1>4. CASE CloseOrder(o) /\ order' = [order EXCEPT ![o].pc = "placed"]
    <2>1. PICK s \in Sessions : s = order[o].session /\ Exists(s)
        BY <1>4 DEF CloseOrder, CatalogInv, CallsAreNamed, OrdersKeepTheirSession
    <2>2. /\ order'[o].pc = "placed" /\ order'[o].session = s
          /\ \A p \in Orders : p # o => order'[p] = order[p]
        BY <1>1, <1>4, <2>1 DEF OrderRecord
    <2>3. order[o].pc = "open"
        BY <1>4 DEF CloseOrder
    <2>4. SoldSessions' = SoldSessions \cup {s}
        BY <2>2, <2>3 DEF SoldSessions
    <2>5. Homes[s] # None
        BY <2>1 DEF Homes, CatalogInv, SessionsHaveAllSeats, CatalogAssumption
    <2>6. CASE s \in SoldSessions
        <3>1. SoldSessions' = SoldSessions
            BY <2>4, <2>6
        <3> QED BY <1>2, <3>1, PlanStutters
    <2>7. CASE s \notin SoldSessions
        <3>1. Plan!Sell(s)
            BY <1>3, <2>4, <2>5, <2>7 DEF Plan!Sell, Homes, Offers
        <3> QED BY <3>1 DEF Plan!Next
    <2> QED BY <2>6, <2>7
<1>5. CASE ~(CloseOrder(o) /\ order' = [order EXCEPT ![o].pc = "placed"])
    <2>1. /\ order'[o].pc \in committed <=> order[o].pc \in committed
          /\ order[o].pc \in committed => order'[o].session = order[o].session
          /\ \A p \in Orders : p # o => order'[p] = order[p]
        <3>1. CASE \E s \in Sessions, n \in 1..MaxTickets : OpenOrder(o, s, n)
            BY <1>1, <3>1 DEF OpenOrder, NoOrder
        <3>2. CASE CloseOrder(o)
            BY <1>1, <1>5, <3>2 DEF CloseOrder, NoOrder
        <3>3. CASE CancelLoad(o) \/ CancelStore(o) \/ CancelFails(o)
            <4>1. PICK p \in committed, n \in {NoCounters, Counters(order[o].session)} :
                    order' = [order EXCEPT ![o] = [@ EXCEPT !.pc = p, !.loaded = n]]
                BY <3>3 DEF CancelLoad, CancelStore, CancelFails
            <4>2. order[o].pc \in committed
                BY <3>3 DEF CancelLoad, CancelStore, CancelFails
            <4>3. order[o] \in OrderRecord
                BY <1>1
            <4>4. order'[o].pc = p /\ order'[o].session = order[o].session
                BY <1>1, <4>1, <4>3 DEF OrderRecord
            <4> QED BY <1>1, <4>1, <4>2, <4>4
        <3> QED BY <3>1, <3>2, <3>3 DEF OrderStep
    <2>2. SoldSessions' = SoldSessions
        BY <2>1 DEF SoldSessions
    <2> QED BY <1>2, <2>2, PlanStutters
<1> QED BY <1>4, <1>5

\* Every other call leaves the plan alone.
LEMMA OtherPlan ==
    ASSUME CatalogInv, UNCHANGED <<sessionSeats, order>>,
           \/ UNCHANGED session
           \/ \E d \in Edits, x \in Statuses : UpdateStatus(d, x)
    PROVE  UNCHANGED Plan!vars
<1>1. \A s \in Sessions : /\ session'[s].state = session[s].state
                          /\ session'[s].event = session[s].event
    <2>1. \A s \in Sessions : session[s] \in SessionRecord
        BY DEF CatalogInv, TypeOK
    <2>2. ASSUME NEW d \in Edits, NEW x \in Statuses, UpdateStatus(d, x)
          PROVE  session' = session \/ session' = [session EXCEPT ![edit[d].session].status = x]
        BY <2>2 DEF UpdateStatus
    <2>3. ASSUME NEW u, NEW x, session' = [session EXCEPT ![u].status = x], NEW s \in Sessions
          PROVE  session'[s].state = session[s].state /\ session'[s].event = session[s].event
        <3>1. session'[s] = session[s] \/ session'[s] = [session[s] EXCEPT !.status = x]
            BY <2>3 DEF CatalogInv, TypeOK
        <3> QED BY <2>1, <3>1 DEF SessionRecord
    <2> QED BY <2>2, <2>3
<1> QED BY <1>1, SoldFrame, PlanStutters

\* The catalogue implements SeatPlan: every step of every call is a step of the plan or
\* none, so that nobody ever sees half of an event, of an extension or of a deletion.
THEOREM PlanImplementation == Spec => PlanSpec
<1> USE CatalogAssumption
<1>1. Init => Plan!Init
    BY PlanInit
<1>2. CatalogInv /\ [Next]_vars => [Plan!Next]_(Plan!vars)
    <2> SUFFICES ASSUME CatalogInv, [Next]_vars PROVE Plan!Next \/ UNCHANGED Plan!vars
        OBVIOUS
    <2>1. CASE UNCHANGED catalogVars
        BY <2>1, OtherPlan DEF catalogVars, rows
    <2>2. ASSUME NEW t \in tokens, NEW a \in accounts, Requests(t, a)
          PROVE  Plan!Next \/ UNCHANGED Plan!vars
        BY <2>2, CreatePlan, OtherPlan DEF Requests, GenEvent, EditEvent, EditSession, rows
    <2>3. ASSUME NEW g \in GenCalls, GenStep(g)
          PROVE  Plan!Next \/ UNCHANGED Plan!vars
        BY <2>3, GenLinkPlan, OtherPlan
           DEF GenStep, GenSeats, GenSessions, GenInsert, GenFails, rows
    <2>4. ASSUME NEW d \in Edits, EditStep(d)
          PROVE  Plan!Next \/ UNCHANGED Plan!vars
        <3>1. ASSUME NEW x \in Statuses, UpdateStatus(d, x) PROVE UNCHANGED Plan!vars
            BY <3>1, OtherPlan DEF UpdateStatus
        <3>2. ASSUME NEW x \in Titles, UpdateEvent(d, x) PROVE UNCHANGED Plan!vars
            BY <3>2, OtherPlan DEF UpdateEvent
        <3> QED BY <2>4, <3>1, <3>2, DeletePlan DEF EditStep
    <2>5. ASSUME NEW o \in Orders, OrderStep(o)
          PROVE  Plan!Next \/ UNCHANGED Plan!vars
        BY <2>5, OrderPlan
    <2> QED BY <2>1, <2>2, <2>3, <2>4, <2>5 DEF Next, vars
<1> QED BY <1>1, <1>2, Invariance, PTL DEF Spec, PlanSpec, Plan!Spec
=============================================================================
