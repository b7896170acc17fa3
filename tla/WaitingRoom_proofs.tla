------------------------- MODULE WaitingRoom_proofs -------------------------
(***************************************************************************)
(* Proofs about WaitingRoom, for any number of users, calls and any        *)
(* capacity: type correctness, the bound on the users let in beyond        *)
(* MAX_ACTIVE_USERS, and that the set of active users expires.             *)
(***************************************************************************)
EXTENDS WaitingRoom, FiniteSetTheorems, SequenceTheorems, TLAPS

USE UsersAssumption, CallsAssumption, BoundsAssumption

-----------------------------------------------------------------------------
(* Type correctness *)

\* The records of calls and passes at rest have their types.
LEMMA RestTypes ==
  /\ NoEnter \in EnterRecord /\ NoLeave \in LeaveRecord
  /\ NoPromotion \in PromotionRecord /\ Promoting \in PromotionRecord
  /\ Asleep \in SweepRecord
BY DEF EnterRecord, LeaveRecord, PromotionRecord, SweepRecord, Asleep

LEMMA InitType == Init => TypeOK
<1>1. <<>> \in Seq(Users)
  BY EmptySeq
<1>. QED
  BY <1>1, RestTypes DEF Init, TypeOK, Ttl

\* Every step keeps the types: one case per action of Next.
LEMMA TypeStep == TypeOK /\ [Next]_vars => TypeOK'
<1>. SUFFICES ASSUME TypeOK, [Next]_vars PROVE TypeOK'
  OBVIOUS
<1>. USE RestTypes DEF TypeOK, Ttl
<1>1. ASSUME NEW e \in EnterCalls, NEW u \in Users, Ask(e, u) PROVE TypeOK'
  BY <1>1 DEF Ask, EnterRecord
<1>2. ASSUME NEW e \in EnterCalls, Admit(e) PROVE TypeOK'
  <2>1. enter[e].user \in Users
    BY <1>2 DEF Admit, EnterRecord, NoEnter
  <2>2. enter' \in [EnterCalls -> EnterRecord]
    BY <1>2, <2>1 DEF Admit, EnterRecord, NoEnter
  <2>3. active' \in SUBSET Users /\ ttl' \in Ttl /\ (active' = {} => ttl' = "none")
    <3>1. CASE HasRoom
      <4>1. active' = active \cup {enter[e].user} /\ ttl' = "fresh"
        BY <1>2, <3>1 DEF Admit, Armed
      <4>2. active \cup {enter[e].user} # {}
        BY Zenon
      <4>. QED  BY <2>1, <4>1, <4>2
    <3>2. CASE ~HasRoom
      BY <1>2, <3>2 DEF Admit
    <3>. QED  BY <3>1, <3>2
  <2>. QED  BY <1>2, <2>2, <2>3 DEF Admit
<1>3. ASSUME NEW e \in EnterCalls, Grant(e) PROVE TypeOK'
  BY <1>3 DEF Grant
<1>4. ASSUME NEW e \in EnterCalls, Enqueue(e) PROVE TypeOK'
  <2>1. enter[e].user \in Users
    BY <1>4 DEF Enqueue, EnterRecord, NoEnter
  <2>2. queue' \in Seq(Users)
    BY <1>4, <2>1, AppendProperties DEF Enqueue
  <2>. QED  BY <1>4, <2>2 DEF Enqueue
<1>5. ASSUME NEW e \in EnterCalls, EnterFails(e) PROVE TypeOK'
  BY <1>5 DEF EnterFails, Fails
<1>6. ASSUME NEW l \in LeaveCalls, NEW u \in Users, Leave(l, u) PROVE TypeOK'
  BY <1>6 DEF Leave, Removal, LeaveRecord
<1>7. ASSUME NEW l \in LeaveCalls, Forget(l) PROVE TypeOK'
  BY <1>7 DEF Forget, Promoters
<1>8. ASSUME NEW l \in LeaveCalls, LeaveFails(l) PROVE TypeOK'
  BY <1>8 DEF LeaveFails, Fails, Promoters
<1>9. ASSUME NEW p \in Promoters, Pop(p) PROVE TypeOK'
  <2>1. CASE queue = <<>>
    BY <1>9, <2>1 DEF Pop
  <2>2. CASE queue # <<>>
    <3>1. Head(queue) \in Users /\ Tail(queue) \in Seq(Users)
      BY <2>2, HeadTailProperties
    <3>2. [pc |-> "sadd", user |-> Head(queue)] \in PromotionRecord
      BY <3>1 DEF PromotionRecord
    <3>3. promotion' \in [Promoters -> PromotionRecord]
      BY <1>9, <2>2, <3>2 DEF Pop
    <3>. QED  BY <1>9, <2>2, <3>1, <3>3 DEF Pop
  <2>. QED  BY <2>1, <2>2
<1>10. ASSUME NEW p \in Promoters, Add(p) PROVE TypeOK'
  <2>1. promotion[p].user \in Users
    BY <1>10 DEF Add, PromotionRecord, NoPromotion, Promoting
  <2>. QED  BY <1>10, <2>1 DEF Add, PromotionRecord, NoPromotion, Promoting
<1>11. ASSUME NEW p \in Promoters, Arm(p) PROVE TypeOK'
  BY <1>11 DEF Arm, Armed, PromotionRecord, NoPromotion, Promoting
<1>12. ASSUME NEW p \in Promoters, Promote(p) PROVE TypeOK'
  BY <1>12 DEF Promote
<1>13. CASE SweepScan
  BY <1>13 DEF SweepScan, SweepRecord, Asleep
<1>14. CASE SweepMembers
  BY <1>14 DEF SweepMembers, SweepRecord, Asleep
<1>15. ASSUME NEW u \in Users, SweepExists(u) PROVE TypeOK'
  BY <1>15 DEF SweepExists, SweepRecord, Asleep
<1>16. CASE SweepRemove
  <2>1. sweep' \in SweepRecord
    BY <1>16 DEF SweepRemove, SweepRecord, Asleep
  <2>. QED  BY <1>16, <2>1 DEF SweepRemove, Removal, Promoters
<1>17. CASE SweepEnd
  BY <1>17 DEF SweepEnd
<1>18. CASE SweepFails
  BY <1>18 DEF SweepFails, Fails, Promoters
<1>19. ASSUME NEW u \in Users, SessionAges(u) PROVE TypeOK'
  BY <1>19 DEF SessionAges
<1>20. CASE ActiveAges
  BY <1>20 DEF ActiveAges
<1>21. CASE QueueExpires
  <2>1. <<>> \in Seq(Users)
    BY EmptySeq
  <2>. QED  BY <1>21, <2>1 DEF QueueExpires
<1>22. CASE UNCHANGED vars
  BY <1>22 DEF vars
<1>. QED
  BY <1>1, <1>2, <1>3, <1>4, <1>5, <1>6, <1>7, <1>8, <1>9, <1>10, <1>11, <1>12, <1>13,
     <1>14, <1>15, <1>16, <1>17, <1>18, <1>19, <1>20, <1>21, <1>22
     DEF Next, EnterStep, PromotionStep, SweepStep

-----------------------------------------------------------------------------
(* Counting slots *)

\* One element more adds one at most to the count.
LEMMA OneMore ==
  ASSUME NEW S, IsFiniteSet(S), NEW x
  PROVE  /\ IsFiniteSet(S \cup {x}) /\ Cardinality(S \cup {x}) \in Nat
         /\ Cardinality(S \cup {x}) <= Cardinality(S) + 1
<1>1. IsFiniteSet(S \cup {x})
      /\ Cardinality(S \cup {x}) = IF x \in S THEN Cardinality(S) ELSE Cardinality(S) + 1
  BY FS_AddElement
<1>2. Cardinality(S) \in Nat /\ Cardinality(S \cup {x}) \in Nat
  BY <1>1, FS_CardinalityType
<1>. QED  BY <1>1, <1>2

\* The sets that are counted are finite.
LEMMA Finiteness ==
  ASSUME TypeOK
  PROVE  /\ IsFiniteSet(active) /\ Cardinality(active) \in Nat
         /\ IsFiniteSet(Promoters) /\ Cardinality(Promoters) \in Nat
         /\ IsFiniteSet(Owed) /\ Cardinality(Owed) \in Nat
         /\ Cardinality(Owed) <= Cardinality(Promoters)
<1>1. IsFiniteSet(active)
  BY FS_Subset DEF TypeOK
<1>2. IsFiniteSet(Promoters)
  BY FS_AddElement DEF Promoters
<1>3. Owed \in SUBSET Promoters
  BY DEF Owed, Promoters
<1>4. IsFiniteSet(Owed) /\ Cardinality(Owed) <= Cardinality(Promoters)
  BY <1>2, <1>3, FS_Subset
<1>. QED  BY <1>1, <1>2, <1>4, FS_CardinalityType

\* What is counted does not grow where nobody becomes active and no slot is freed.
LEMMA NoGrowth ==
  ASSUME TypeOK, OvershootIsBounded,
         active' \subseteq active, Owed' \subseteq Owed, extra' = extra
  PROVE  OvershootIsBounded'
<1>1. Cardinality(active') <= Cardinality(active) /\ Cardinality(active') \in Nat
  BY Finiteness, FS_Subset, FS_CardinalityType
<1>2. Cardinality(Owed') <= Cardinality(Owed) /\ Cardinality(Owed') \in Nat
  BY Finiteness, FS_Subset, FS_CardinalityType
<1>3. extra \in Nat
  BY DEF TypeOK
<1>. QED  BY <1>1, <1>2, <1>3, Finiteness DEF OvershootIsBounded

\* A slot that is freed moves from the active users to those who owe it.
LEMMA Transfer ==
  ASSUME TypeOK, OvershootIsBounded, NEW u \in active, NEW p,
         active' = active \ {u}, Owed' \subseteq Owed \cup {p}, extra' = extra
  PROVE  OvershootIsBounded'
<1>1. Cardinality(active') = Cardinality(active) - 1 /\ Cardinality(active') \in Nat
  <2>1. IsFiniteSet(active \ {u}) /\ Cardinality(active \ {u}) = Cardinality(active) - 1
    BY Finiteness, FS_RemoveElement
  <2>2. Cardinality(active \ {u}) \in Nat
    BY <2>1, FS_CardinalityType
  <2>. QED  BY <2>1, <2>2
<1>2. IsFiniteSet(Owed \cup {p}) /\ Cardinality(Owed \cup {p}) <= Cardinality(Owed) + 1
      /\ Cardinality(Owed \cup {p}) \in Nat
  BY Finiteness, OneMore
<1>3. Cardinality(Owed') <= Cardinality(Owed) + 1 /\ Cardinality(Owed') \in Nat
  BY <1>2, Finiteness, FS_Subset, FS_CardinalityType
<1>4. extra \in Nat
  BY DEF TypeOK
<1>. QED  BY <1>1, <1>3, <1>4, Finiteness DEF OvershootIsBounded

\* A slot that is given moves back.
LEMMA Gift ==
  ASSUME TypeOK, OvershootIsBounded, NEW u, NEW p \in Owed,
         active' = active \cup {u}, Owed' \subseteq Owed \ {p}, extra' = extra
  PROVE  OvershootIsBounded'
<1>1. Cardinality(active') <= Cardinality(active) + 1 /\ Cardinality(active') \in Nat
  BY Finiteness, OneMore
<1>2. IsFiniteSet(Owed \ {p}) /\ Cardinality(Owed \ {p}) = Cardinality(Owed) - 1
      /\ Cardinality(Owed \ {p}) \in Nat
  BY Finiteness, FS_RemoveElement, FS_CardinalityType
<1>3. Cardinality(Owed') <= Cardinality(Owed) - 1 /\ Cardinality(Owed') \in Nat
  BY <1>2, FS_Subset, FS_CardinalityType
<1>4. extra \in Nat
  BY DEF TypeOK
<1>. QED  BY <1>1, <1>3, <1>4, Finiteness DEF OvershootIsBounded
-----------------------------------------------------------------------------
(* The invariant *)

LEMMA InitInv == Init => RoomInv
<1>. SUFFICES ASSUME Init PROVE RoomInv
  OBVIOUS
<1>1. TypeOK
  BY InitType
<1>2. LeaveThenPromote /\ SweepThenPromote /\ SetExpiresUnlessFailed
  BY DEF Init, LeaveThenPromote, SweepThenPromote, SetExpiresUnlessFailed, NoLeave, Asleep
<1>3. Owed = {} /\ active = {}
  BY DEF Init, Owed, NoLeave, NoPromotion
<1>4. OvershootIsBounded
  BY <1>1, <1>3, Finiteness, FS_EmptySet DEF OvershootIsBounded, Init
<1>. QED  BY <1>1, <1>2, <1>4 DEF RoomInv

\* A leave call deletes its session key before its promotion starts.
LEMMA LeaveThenPromoteStep == TypeOK /\ LeaveThenPromote /\ [Next]_vars => LeaveThenPromote'
<1>. SUFFICES ASSUME TypeOK, LeaveThenPromote, [Next]_vars,
                     NEW l \in LeaveCalls, leave'[l].pc # "idle"
              PROVE  promotion'[l].pc = "idle"
  BY DEF LeaveThenPromote
<1>. USE DEF LeaveThenPromote
<1>1. CASE UNCHANGED <<leave, promotion>>
  BY <1>1
<1>2. ASSUME NEW k \in LeaveCalls, NEW u \in Users, Leave(k, u) PROVE promotion'[l].pc = "idle"
  BY <1>2 DEF Leave, TypeOK
<1>3. ASSUME NEW k \in LeaveCalls, Forget(k) PROVE promotion'[l].pc = "idle"
  BY <1>3 DEF Forget, TypeOK, NoLeave
<1>4. ASSUME NEW k \in LeaveCalls, LeaveFails(k) PROVE promotion'[l].pc = "idle"
  BY <1>4 DEF LeaveFails, TypeOK, NoLeave
<1>5. ASSUME NEW p \in Promoters, PromotionStep(p) PROVE promotion'[l].pc = "idle"
  <2>1. leave' = leave /\ promotion[l].pc = "idle"
    BY <1>5 DEF PromotionStep, Pop, Add, Arm, Promote
  <2>2. p # l
    BY <1>5, <2>1 DEF PromotionStep, Pop, Add, Arm, Promote
  <2>3. \E q : promotion' = [promotion EXCEPT ![p] = q]
    BY <1>5 DEF PromotionStep, Pop, Add, Arm, Promote
  <2>. QED  BY <2>1, <2>2, <2>3 DEF TypeOK, Promoters
<1>6. CASE SweepRemove \/ SweepFails
  BY <1>6 DEF SweepRemove, SweepFails, TypeOK, Promoters
<1>7. CASE \/ \E e \in EnterCalls, u \in Users : Ask(e, u)
           \/ \E e \in EnterCalls : EnterStep(e) \/ EnterFails(e)
  BY <1>1, <1>7 DEF Ask, EnterStep, Admit, Grant, Enqueue, EnterFails
<1>8. CASE SweepScan \/ SweepMembers \/ SweepEnd \/ \E u \in Users : SweepExists(u)
  BY <1>1, <1>8 DEF SweepScan, SweepMembers, SweepEnd, SweepExists
<1>9. CASE ActiveAges \/ QueueExpires \/ \E u \in Users : SessionAges(u)
  BY <1>1, <1>9 DEF ActiveAges, QueueExpires, SessionAges
<1>. QED
  BY <1>1, <1>2, <1>3, <1>4, <1>5, <1>6, <1>7, <1>8, <1>9 DEF Next, SweepStep, vars

\* Each step moves slots between the active users and those who owe them.
LEMMA OvershootStep == RoomInv /\ [Next]_vars => OvershootIsBounded'
<1>. SUFFICES ASSUME RoomInv, [Next]_vars PROVE OvershootIsBounded'
  OBVIOUS
<1>. USE DEF RoomInv
<1>1. CASE UNCHANGED <<active, leave, promotion, extra>>
  BY <1>1, NoGrowth DEF Owed
<1>2. ASSUME NEW e \in EnterCalls, Admit(e) PROVE OvershootIsBounded'
  <2>1. UNCHANGED <<leave, promotion, extra>>
    BY <1>2 DEF Admit
  <2>2. CASE HasRoom
    <3>1. active' = active \cup {enter[e].user}
      BY <1>2, <2>2 DEF Admit
    <3>2. Cardinality(active') <= MaxActive /\ Cardinality(active') \in Nat
      <4>1. Cardinality(active) < MaxActive
        BY <2>2 DEF HasRoom
      <4>2. /\ Cardinality(active \cup {enter[e].user}) \in Nat
            /\ Cardinality(active \cup {enter[e].user}) <= Cardinality(active) + 1
        BY Finiteness, OneMore
      <4>. QED  BY <3>1, <4>1, <4>2, Finiteness
    <3>3. Owed' = Owed
      BY <2>1 DEF Owed
    <3>4. extra' \in Nat
      BY <2>1 DEF TypeOK
    <3>. QED  BY <3>2, <3>3, <3>4, Finiteness DEF OvershootIsBounded
  <2>3. CASE ~HasRoom
    BY <1>1, <1>2, <2>1, <2>3 DEF Admit
  <2>. QED  BY <2>2, <2>3
<1>3. ASSUME NEW l \in LeaveCalls, NEW u \in Users, Leave(l, u) PROVE OvershootIsBounded'
  <2>1. active' = active \ {u} /\ extra' = extra /\ promotion' = promotion
    BY <1>3 DEF Leave, Removal
  <2>2. \A k \in LeaveCalls : leave'[k].removed => leave[k].removed \/ (k = l /\ u \in active)
    BY <1>3 DEF Leave, TypeOK
  <2>3. CASE u \in active
    <3>1. Owed' \subseteq Owed \cup {l}
      BY <2>1, <2>2 DEF Owed
    <3>. QED  BY <2>1, <2>3, <3>1, Transfer
  <2>4. CASE u \notin active
    <3>1. Owed' \subseteq Owed
      BY <2>1, <2>2, <2>4 DEF Owed
    <3>. QED  BY <2>1, <3>1, NoGrowth
  <2>. QED  BY <2>3, <2>4
<1>4. ASSUME NEW l \in LeaveCalls, Forget(l) PROVE OvershootIsBounded'
  <2>1. active' = active /\ extra' = extra
    BY <1>4 DEF Forget
  <2>2. Owed' \subseteq Owed
    <3>1. \A k \in LeaveCalls : leave'[k].removed => leave[k].removed
      BY <1>4 DEF Forget, TypeOK, NoLeave
    <3>2. \A p \in Promoters : promotion'[p] # promotion[p] => p = l /\ leave[l].removed
      BY <1>4 DEF Forget, TypeOK
    <3>. QED  BY <3>1, <3>2 DEF Owed
  <2>. QED  BY <2>1, <2>2, NoGrowth
<1>5. ASSUME NEW p \in Promoters, Add(p) PROVE OvershootIsBounded'
  <2>1. active' = active \cup {promotion[p].user} /\ extra' = extra /\ leave' = leave
    BY <1>5 DEF Add
  <2>2. p \in Owed
    BY <1>5 DEF Add, Owed
  <2>3. Owed' \subseteq Owed \ {p}
    <3>1. p \in LeaveCalls => leave[p] = NoLeave
      BY <1>5 DEF Add, LeaveThenPromote, TypeOK, LeaveRecord
    <3>2. ~(p \in LeaveCalls /\ leave'[p].removed)
      BY <2>1, <3>1 DEF NoLeave
    <3>3. promotion'[p].pc = "expire" /\ \A q \in Promoters : q # p => promotion'[q] = promotion[q]
      BY <1>5 DEF Add, TypeOK, PromotionRecord, NoPromotion, Promoting
    <3>. QED  BY <2>1, <3>2, <3>3 DEF Owed
  <2>. QED  BY <2>1, <2>2, <2>3, Gift
<1>6. ASSUME NEW p \in Promoters, Pop(p) \/ Arm(p) \/ Promote(p) PROVE OvershootIsBounded'
  <2>1. active' = active /\ extra' = extra /\ leave' = leave
    BY <1>6 DEF Pop, Arm, Promote
  <2>2. \A q \in Promoters \ {p} : promotion'[q] = promotion[q]
    BY <1>6 DEF Pop, Arm, Promote, TypeOK
  <2>3. promotion'[p].pc \in {"pop", "sadd"} => promotion[p].pc \in {"pop", "sadd"}
    <3>1. CASE Pop(p)
      BY <3>1 DEF Pop
    <3>2. CASE Arm(p)
      <4>1. promotion' = [promotion EXCEPT ![p].pc = "setex"]
        BY <3>2 DEF Arm
      <4>2. promotion'[p] = [promotion[p] EXCEPT !.pc = "setex"]
        BY <4>1 DEF TypeOK
      <4>3. promotion[p] \in [pc : {"expire"}, user : Users]
        BY <3>2 DEF Arm, TypeOK, PromotionRecord, NoPromotion, Promoting
      <4>. QED  BY <4>2, <4>3
    <3>3. CASE Promote(p)
      BY <3>3 DEF Promote, TypeOK, NoPromotion
    <3>. QED  BY <1>6, <3>1, <3>2, <3>3
  <2>. QED  BY <2>1, <2>2, <2>3, NoGrowth DEF Owed
<1>7. CASE SweepRemove
  <2>1. active' = active \ {sweep.victim} /\ leave' = leave
    BY <1>7 DEF SweepRemove, Removal
  <2>2. Owed' \subseteq Owed \cup {Sweeper}
    BY <1>7, <2>1 DEF SweepRemove, Owed, TypeOK
  <2>3. CASE sweep.victim \in active
    <3>1. extra' = extra
      BY <1>7, <2>3 DEF SweepRemove
    <3>. QED  BY <2>1, <2>2, <2>3, <3>1, Transfer
  <2>4. CASE sweep.victim \notin active
    <3>1. extra' = IF extra = MaxExtra THEN extra ELSE extra + 1
      BY <1>7, <2>4 DEF SweepRemove
    <3>2. extra \in 0..MaxExtra
      BY DEF TypeOK
    <3>3. active' = active
      BY <2>1, <2>4
    <3>4. IsFiniteSet(Owed \cup {Sweeper}) /\ Cardinality(Owed \cup {Sweeper}) <= Cardinality(Owed) + 1
      BY Finiteness, OneMore
    <3>5. Cardinality(Owed') <= Cardinality(Owed) + 1 /\ Cardinality(Owed') \in Nat
      BY <2>2, <3>4, Finiteness, FS_Subset, FS_CardinalityType
    <3>. QED  BY <3>1, <3>2, <3>3, <3>5, Finiteness DEF OvershootIsBounded
  <2>. QED  BY <2>3, <2>4
<1>8. ASSUME NEW l \in LeaveCalls, LeaveFails(l) PROVE OvershootIsBounded'
  <2>1. active' = active /\ extra' = extra
    BY <1>8 DEF LeaveFails, Fails
  <2>2. Owed' \subseteq Owed
    BY <1>8 DEF LeaveFails, Owed, TypeOK, NoLeave, NoPromotion
  <2>. QED  BY <2>1, <2>2, NoGrowth
<1>9. CASE SweepFails
  <2>1. active' = active /\ extra' = extra
    BY <1>9 DEF SweepFails, Fails
  <2>2. Owed' \subseteq Owed
    BY <1>9 DEF SweepFails, Owed, TypeOK, NoPromotion
  <2>. QED  BY <2>1, <2>2, NoGrowth
<1>10. CASE ActiveAges
  <2>1. active' \subseteq active /\ UNCHANGED <<leave, promotion, extra>>
    BY <1>10 DEF ActiveAges
  <2>. QED  BY <2>1, NoGrowth DEF Owed
<1>11. CASE \/ \E e \in EnterCalls, u \in Users : Ask(e, u)
            \/ \E e \in EnterCalls : Grant(e) \/ Enqueue(e) \/ EnterFails(e)
  BY <1>1, <1>11 DEF Ask, Grant, Enqueue, EnterFails, Fails
<1>12. CASE SweepScan \/ SweepMembers \/ SweepEnd \/ \E u \in Users : SweepExists(u)
  BY <1>1, <1>12 DEF SweepScan, SweepMembers, SweepEnd, SweepExists
<1>13. CASE QueueExpires \/ \E u \in Users : SessionAges(u)
  BY <1>1, <1>13 DEF QueueExpires, SessionAges
<1>14. CASE UNCHANGED vars
  BY <1>1, <1>14 DEF vars
<1>. QED
  BY <1>2, <1>3, <1>4, <1>5, <1>6, <1>7, <1>8, <1>9, <1>10, <1>11, <1>12, <1>13, <1>14
     DEF Next, EnterStep, PromotionStep, SweepStep

\* The sweeper promotes for the last member before it looks at the next one.
LEMMA SweepThenPromoteStep == TypeOK /\ SweepThenPromote /\ [Next]_vars => SweepThenPromote'
<1>. SUFFICES ASSUME TypeOK, SweepThenPromote, [Next]_vars, sweep'.pc = "srem"
              PROVE  promotion'[Sweeper].pc = "idle"
  BY DEF SweepThenPromote
<1>. USE DEF SweepThenPromote
<1>1. CASE UNCHANGED <<sweep, promotion>>
  BY <1>1
<1>2. ASSUME NEW l \in LeaveCalls, Forget(l) \/ LeaveFails(l) PROVE promotion'[Sweeper].pc = "idle"
  <2>1. sweep' = sweep /\ \E q : promotion' = [promotion EXCEPT ![l] = q]
    <3>1. [promotion EXCEPT ![l] = promotion[l]] = promotion
      BY DEF TypeOK
    <3>. QED  BY <1>2, <3>1 DEF Forget, LeaveFails
  <2>. QED  BY <2>1 DEF TypeOK, Promoters
<1>3. ASSUME NEW p \in Promoters, PromotionStep(p) PROVE promotion'[Sweeper].pc = "idle"
  <2>1. sweep' = sweep /\ promotion[p].pc # "idle"
    BY <1>3 DEF PromotionStep, Pop, Add, Arm, Promote
  <2>2. \E q : promotion' = [promotion EXCEPT ![p] = q]
    BY <1>3 DEF PromotionStep, Pop, Add, Arm, Promote
  <2>. QED  BY <2>1, <2>2 DEF TypeOK, Promoters
<1>4. ASSUME NEW u \in Users, SweepExists(u) PROVE promotion'[Sweeper].pc = "idle"
  BY <1>4 DEF SweepExists
<1>5. CASE SweepScan \/ SweepMembers \/ SweepEnd \/ SweepFails
  <2>1. CASE SweepScan \/ SweepMembers
    BY <2>1 DEF SweepScan, SweepMembers, Asleep
  <2>2. CASE SweepEnd \/ SweepFails
    BY <2>2 DEF SweepEnd, SweepFails, Asleep
  <2>. QED  BY <1>5, <2>1, <2>2
<1>6. CASE SweepRemove
  <2>1. sweep' = [sweep EXCEPT !.pc = "exists", !.victim = Nobody]
    BY <1>6 DEF SweepRemove
  <2>2. sweep \in [pc : {"srem"}, members : SUBSET Users, victim : Users]
    BY <1>6 DEF SweepRemove, TypeOK, SweepRecord
  <2>3. sweep'.pc = "exists"
    BY <2>1, <2>2
  <2>. QED  BY <2>3
<1>7. CASE \/ \E e \in EnterCalls, u \in Users : Ask(e, u)
           \/ \E e \in EnterCalls : EnterStep(e) \/ EnterFails(e)
  BY <1>1, <1>7 DEF Ask, EnterStep, Admit, Grant, Enqueue, EnterFails
<1>8. CASE \E l \in LeaveCalls, u \in Users : Leave(l, u)
  BY <1>1, <1>8 DEF Leave
<1>9. CASE ActiveAges \/ QueueExpires \/ \E u \in Users : SessionAges(u)
  BY <1>1, <1>9 DEF ActiveAges, QueueExpires, SessionAges
<1>. QED
  BY <1>1, <1>2, <1>3, <1>4, <1>5, <1>6, <1>7, <1>8, <1>9 DEF Next, SweepStep, vars

\* Where no call fails, the set is armed by the script, or by the promotion that added to
\* it; a promotion that is about to arm it is interrupted by nothing else.
LEMMA UnarmStep ==
  ASSUME TypeOK, LeaveThenPromote, SweepThenPromote, [Next]_vars, NeverExpires'
  PROVE  \/ NeverExpires
         \/ \E p \in Promoters : /\ promotion[p].pc = "expire" /\ promotion'[p].pc = "idle"
                                 /\ failures' > failures
<1>. DEFINE Failed(p) == /\ promotion[p].pc = "expire" /\ promotion'[p].pc = "idle"
                         /\ failures' > failures
            Goal == NeverExpires \/ \E p \in Promoters : Failed(p)
<1>0. active' # {} /\ ttl' = "none" /\ \A p \in Promoters : promotion'[p].pc # "expire"
  BY DEF NeverExpires
<1>. SUFFICES Goal
  OBVIOUS
\* A step that leaves the set armed as it was and lets every promotion go on.
<1>1. ASSUME active # {}, ttl = "none",
             \A p \in Promoters : promotion[p].pc = "expire" => promotion'[p].pc = "expire"
      PROVE  Goal
  BY <1>0, <1>1 DEF NeverExpires
<1>2. CASE UNCHANGED <<active, ttl, promotion>>
  BY <1>0, <1>1, <1>2
<1>3. ASSUME NEW e \in EnterCalls, Admit(e) PROVE Goal
  <2>1. UNCHANGED <<active, ttl, promotion>>
    BY <1>0, <1>3 DEF Admit, Armed
  <2>. QED  BY <1>2, <2>1
<1>4. ASSUME NEW l \in LeaveCalls, NEW u \in Users, Leave(l, u) PROVE Goal
  <2>1. active # {} /\ ttl = "none" /\ UNCHANGED promotion
    BY <1>0, <1>4 DEF Leave, Removal
  <2>. QED  BY <1>1, <2>1
<1>5. ASSUME NEW l \in LeaveCalls, Forget(l) PROVE Goal
  <2>1. UNCHANGED <<active, ttl>> /\ promotion[l].pc = "idle"
    BY <1>5 DEF Forget, LeaveThenPromote
  <2>2. \A p \in Promoters : p # l => promotion'[p] = promotion[p]
    BY <1>5 DEF Forget, TypeOK
  <2>. QED  BY <1>0, <1>1, <2>1, <2>2
<1>6. ASSUME NEW p \in Promoters, PromotionStep(p) PROVE Goal
  <2>1. \A q \in Promoters : q # p => promotion'[q] = promotion[q]
    BY <1>6 DEF PromotionStep, Pop, Add, Arm, Promote, TypeOK
  <2>2. CASE Add(p)
    <3>1. promotion'[p] = [promotion[p] EXCEPT !.pc = "expire"]
      BY <2>2 DEF Add, TypeOK
    <3>2. promotion[p] \in [pc : {"sadd"}, user : Users]
      BY <2>2 DEF Add, TypeOK, PromotionRecord, NoPromotion, Promoting
    <3>. QED  BY <1>0, <3>1, <3>2
  <2>3. CASE Arm(p)
    BY <1>0, <2>3 DEF Arm, Armed
  <2>4. CASE Pop(p) \/ Promote(p)
    <3>1. UNCHANGED <<active, ttl>> /\ promotion[p].pc # "expire"
      BY <2>4 DEF Pop, Promote
    <3>. QED  BY <1>0, <1>1, <2>1, <3>1
  <2>. QED  BY <1>6, <2>2, <2>3, <2>4 DEF PromotionStep
<1>7. CASE SweepRemove
  <2>1. active # {} /\ ttl = "none"
    BY <1>0, <1>7 DEF SweepRemove, Removal
  <2>2. promotion[Sweeper].pc = "idle"
    BY <1>7 DEF SweepRemove, SweepThenPromote
  <2>3. \A p \in Promoters : p # Sweeper => promotion'[p] = promotion[p]
    BY <1>7 DEF SweepRemove, TypeOK
  <2>. QED  BY <1>1, <2>1, <2>2, <2>3
\* The failure of a call ends its promotion: before its EXPIRE, or elsewhere.
<1>8. ASSUME NEW p \in Promoters, Fails, promotion' = [promotion EXCEPT ![p] = NoPromotion]
      PROVE  Goal
  <2>1. UNCHANGED <<active, ttl>> /\ failures' > failures
    BY <1>8 DEF Fails, TypeOK
  <2>2. promotion'[p].pc = "idle" /\ \A q \in Promoters : q # p => promotion'[q] = promotion[q]
    BY <1>8 DEF TypeOK, NoPromotion
  <2>3. CASE promotion[p].pc = "expire"
    BY <2>1, <2>2, <2>3
  <2>4. CASE promotion[p].pc # "expire"
    BY <1>0, <1>1, <2>1, <2>2, <2>4
  <2>. QED  BY <2>3, <2>4
<1>9. CASE \/ \E l \in LeaveCalls : LeaveFails(l)
           \/ SweepFails
  BY <1>8, <1>9 DEF LeaveFails, SweepFails, Promoters
<1>10. CASE \E e \in EnterCalls : EnterFails(e)
  BY <1>2, <1>10 DEF EnterFails, Fails
<1>11. CASE ActiveAges
  <2>1. ttl = "fresh" /\ ttl' = "old"
    BY <1>0, <1>11 DEF ActiveAges
  <2>. QED  BY <1>0, <2>1
<1>12. CASE \/ \E e \in EnterCalls, u \in Users : Ask(e, u)
            \/ \E e \in EnterCalls : Grant(e) \/ Enqueue(e)
  BY <1>2, <1>12 DEF Ask, Grant, Enqueue
<1>13. CASE SweepScan \/ SweepMembers \/ SweepEnd \/ \E u \in Users : SweepExists(u)
  BY <1>2, <1>13 DEF SweepScan, SweepMembers, SweepEnd, SweepExists
<1>14. CASE QueueExpires \/ \E u \in Users : SessionAges(u)
  BY <1>2, <1>14 DEF QueueExpires, SessionAges
<1>15. CASE UNCHANGED vars
  BY <1>2, <1>15 DEF vars
<1>. QED
  BY <1>3, <1>4, <1>5, <1>6, <1>7, <1>9, <1>10, <1>11, <1>12, <1>13, <1>14, <1>15
     DEF Next, EnterStep, SweepStep

\* Failures are counted and never forgotten.
LEMMA FailuresCount == TypeOK /\ [Next]_vars => failures' \in {failures, failures + 1}
BY DEF TypeOK, Next, EnterStep, PromotionStep, SweepStep, Ask, Admit, Grant, Enqueue, Leave, Forget,
       Pop, Add, Arm, Promote, SweepScan, SweepMembers, SweepExists, SweepRemove, SweepEnd,
       SessionAges, ActiveAges, QueueExpires, Fails, EnterFails, LeaveFails, SweepFails, vars

LEMMA SetExpiresStep == RoomInv /\ [Next]_vars => SetExpiresUnlessFailed'
<1>. SUFFICES ASSUME RoomInv, [Next]_vars, NeverExpires' PROVE failures' > 0
  BY DEF SetExpiresUnlessFailed, NeverExpires
<1>. USE DEF RoomInv
<1>1. failures \in Nat /\ failures' \in {failures, failures + 1}
  BY FailuresCount DEF TypeOK
<1>2. CASE NeverExpires
  BY <1>1, <1>2 DEF SetExpiresUnlessFailed, NeverExpires
<1>3. CASE failures' > failures
  BY <1>1, <1>3
<1>. QED  BY <1>2, <1>3, UnarmStep

\* RoomInv holds in every reachable state of queue_manager.py's calls and sweeper, for any
\* number of users and calls and any capacity.
THEOREM Invariance == Spec => []RoomInv
<1>1. RoomInv /\ [Next]_vars => RoomInv'
  BY TypeStep, LeaveThenPromoteStep, SweepThenPromoteStep, OvershootStep, SetExpiresStep DEF RoomInv
<1>. QED  BY InitInv, <1>1, PTL DEF Spec

\* The keys of the waiting room and the calls on them stay in their domains.
THEOREM TypeCorrectness == Spec => []TypeOK
<1>1. RoomInv => TypeOK
  BY DEF RoomInv
<1>. QED  BY Invariance, <1>1, PTL

\* active_users exceeds MAX_ACTIVE_USERS by at most one user per promotion that can run
\* at a time, plus one per promotion of the sweeper that removed nobody.
THEOREM BoundedOvershoot == Spec => []OvershootIsBounded
<1>1. RoomInv => OvershootIsBounded
  BY DEF RoomInv
<1>. QED  BY Invariance, <1>1, PTL

\* While no call has failed, a set of active users without a TTL has a promotion that is
\* about to arm it.
THEOREM SetExpires == Spec => []SetExpiresUnlessFailed
<1>1. RoomInv => SetExpiresUnlessFailed
  BY DEF RoomInv
<1>. QED  BY Invariance, <1>1, PTL

\* After any number of failures, only one more failure of one kind, that of a promotion
\* between SADD and EXPIRE, turns the set into one that never expires.
THEOREM OnlyPromotionsUnarm == Spec => OnlyFailedPromotionsUnarm
<1>1. RoomInv /\ [Next]_vars =>
        [NeverExpires' => \/ NeverExpires
                          \/ \E p \in Promoters : /\ promotion[p].pc = "expire"
                                                  /\ promotion'[p].pc = "idle"
                                                  /\ failures' > failures]_vars
  BY UnarmStep DEF RoomInv
<1>. QED  BY <1>1, Invariance, PTL DEF Spec, OnlyFailedPromotionsUnarm

-----------------------------------------------------------------------------
(* The refinement of Turnstile *)

\* The line and the tokens are made of the queue and of the calls in progress.
LEMMA GateFrame ==
  /\ UNCHANGED <<leave, promotion>> => Owed' = Owed
  /\ UNCHANGED <<queue, promotion>> => Waiting' = Waiting
BY DEF Owed, Waiting

LEMMA GateStutters ==
  ASSUME UNCHANGED <<active, queue, leave, promotion, extra>>
  PROVE  UNCHANGED Gate!vars
BY GateFrame DEF Gate!vars

\* Who may owe a slot: a leaver until the promotion has come to SADD, and the sweeper.
LEMMA WhoOwes ==
  ASSUME RoomInv, NEW p \in Promoters
  PROVE  /\ p \in Owed <=> \/ p \in LeaveCalls /\ leave[p].removed
                           \/ promotion[p].pc \in {"pop", "sadd"}
         /\ promotion[p].pc # "idle" => ~(p \in LeaveCalls /\ leave[p].removed)
<1>1. p \in LeaveCalls => leave[p] \in LeaveRecord
  BY DEF RoomInv, TypeOK
<1>2. promotion[p].pc # "idle" => ~(p \in LeaveCalls /\ leave[p].removed)
  BY <1>1 DEF RoomInv, LeaveThenPromote, LeaveRecord, NoLeave
<1>. QED  BY <1>2 DEF Owed

\* Two promoters in two states owe what each of them owes.
LEMMA OwedChange ==
  ASSUME NEW d \in Promoters,
         \A p \in Promoters \ {d} : /\ promotion'[p] = promotion[p]
                                    /\ p \in LeaveCalls => leave'[p] = leave[p]
  PROVE  /\ Owed' \ {d} = Owed \ {d}
         /\ (d \in Owed' <=> d \in Owed) => Owed' = Owed
<1>1. Owed' \ {d} = Owed \ {d}
  BY DEF Owed, Promoters
<1>. QED  BY <1>1

\* A queue and its new last element.
LEMMA QueueGrows ==
  ASSUME queue \in Seq(Users), NEW u \in Users, queue' = Append(queue, u), promotion' = promotion
  PROVE  Waiting' = Waiting \cup {u}
<1>1. /\ Len(queue') = Len(queue) + 1 /\ Len(queue) \in Nat
      /\ \A i \in 1..Len(queue) : queue'[i] = queue[i]
      /\ queue'[Len(queue) + 1] = u
  BY AppendProperties, LenProperties
<1>2. {queue'[i] : i \in 1..Len(queue')} = {queue[i] : i \in 1..Len(queue)} \cup {u}
  <2>1. 1..Len(queue') = 1..Len(queue) \cup {Len(queue) + 1}
    BY <1>1
  <2>. QED  BY <1>1, <2>1
<1>. QED  BY <1>2 DEF Waiting

\* A queue without its first element.
LEMMA QueueShrinks ==
  ASSUME queue \in Seq(Users), queue # <<>>, queue' = Tail(queue)
  PROVE  {queue[i] : i \in 1..Len(queue)} = {Head(queue)} \cup {queue'[i] : i \in 1..Len(queue')}
<1>1. /\ Head(queue) = queue[1] /\ Len(queue) \in Nat \ {0} /\ Len(queue') = Len(queue) - 1
      /\ \A i \in 1..Len(queue') : queue'[i] = queue[i + 1]
  BY HeadTailProperties, LenProperties, EmptySeq
<1>2. ASSUME NEW i \in 1..Len(queue), i # 1 PROVE \E j \in 1..Len(queue') : queue'[j] = queue[i]
  <2>1. i - 1 \in 1..Len(queue') /\ (i - 1) + 1 = i
    BY <1>1, <1>2
  <2>. QED  BY <1>1, <2>1
<1>3. ASSUME NEW j \in 1..Len(queue') PROVE j + 1 \in 1..Len(queue) /\ queue'[j] = queue[j + 1]
  BY <1>1
<1>4. 1 \in 1..Len(queue)
  BY <1>1
<1>. QED  BY <1>1, <1>2, <1>3, <1>4

\* Nobody inside, nobody in the line, no token.
LEMMA GateInit == Init => Gate!Init
<1>. SUFFICES ASSUME Init PROVE Gate!Init
  OBVIOUS
<1>1. Waiting = {}
  <2>1. Len(queue) = 0 /\ 1..0 = {}
    BY EmptySeq DEF Init
  <2>. QED  BY <2>1 DEF Init, Waiting, NoPromotion
<1>2. Owed = {}
  BY DEF Init, Owed, NoLeave, NoPromotion
<1>. QED  BY <1>1, <1>2 DEF Init, Gate!Init

\* The script lets a user pass while there is room; a user it refuses joins the line.
LEMMA EnterGate ==
  ASSUME RoomInv, NEW e \in EnterCalls, EnterStep(e)
  PROVE  Gate!Next \/ UNCHANGED Gate!vars
<1>1. enter[e].pc \in {"eval", "rpush"} => enter[e].user \in Users
  BY DEF RoomInv, TypeOK, EnterRecord, NoEnter
<1>2. CASE Admit(e)
  <2>1. CASE HasRoom
    <3>1. Gate!Pass(enter[e].user)
      BY <1>2, <2>1, GateFrame DEF Admit, HasRoom, Gate!Pass, Gate!Cardinality, Cardinality
    <3>. QED  BY <1>1, <1>2, <3>1 DEF Admit, Gate!Next
  <2>2. CASE ~HasRoom
    BY <1>2, <2>2, GateStutters DEF Admit
  <2>. QED  BY <2>1, <2>2
<1>3. CASE Grant(e)
  BY <1>3, GateStutters DEF Grant
<1>4. CASE Enqueue(e)
  <2>1. Gate!Join(enter[e].user)
    BY <1>1, <1>4, QueueGrows, GateFrame DEF Enqueue, Gate!Join, RoomInv, TypeOK
  <2>. QED  BY <1>1, <1>4, <2>1 DEF Enqueue, Gate!Next
<1>. QED  BY <1>2, <1>3, <1>4 DEF EnterStep

\* A leave lets one member out and owes one slot, from SREM until its promotion's SADD.
LEMMA LeaveGate ==
  ASSUME RoomInv, NEW l \in LeaveCalls,
         (\E u \in Users : Leave(l, u)) \/ Forget(l) \/ LeaveFails(l)
  PROVE  Gate!Next \/ UNCHANGED Gate!vars
<1>. USE DEF RoomInv, TypeOK
<1>1. l \in Promoters
  BY DEF Promoters
<1>2. ASSUME NEW u \in Users, Leave(l, u) PROVE Gate!Next \/ UNCHANGED Gate!vars
  <2>1. l \notin Owed
    BY <1>1, <1>2, WhoOwes DEF Leave, LeaveRecord, NoLeave
  <2>2. /\ Owed' \ {l} = Owed \ {l}
        /\ (l \in Owed' <=> l \in Owed) => Owed' = Owed
    BY <1>1, <1>2, OwedChange DEF Leave
  <2>3. l \in Owed' <=> u \in active
    BY <1>1, <1>2 DEF Leave, Owed
  <2>4. Waiting' = Waiting /\ active' = active \ {u} /\ extra' = extra
    BY <1>2, GateFrame DEF Leave, Removal
  <2>5. CASE u \in active
    <3>1. Owed' = Owed \cup {l}
      BY <2>1, <2>2, <2>3, <2>5
    <3>2. Gate!LetOut(u, l)
      BY <2>1, <2>4, <2>5, <3>1 DEF Gate!LetOut
    <3>. QED  BY <1>1, <3>2 DEF Gate!Next
  <2>6. CASE u \notin active
    <3>1. Owed' = Owed
      BY <2>1, <2>2, <2>3, <2>6
    <3>2. active' = active
      BY <2>4, <2>6
    <3>. QED  BY <2>4, <3>1, <3>2 DEF Gate!vars
  <2>. QED  BY <2>5, <2>6
<1>3. CASE Forget(l)
  <2>1. (l \in Owed' <=> l \in Owed) => Owed' = Owed
    BY <1>1, <1>3, OwedChange DEF Forget
  <2>2. promotion[l].pc = "idle" /\ leave'[l].removed = FALSE
    BY <1>3 DEF Forget, LeaveThenPromote, NoLeave
  <2>3. l \in Owed' <=> l \in Owed
    BY <1>1, <1>3, <2>2, WhoOwes DEF Forget, Owed, Promoting
  <2>4. Waiting' = Waiting
    <3>1. \A p \in Promoters : /\ promotion'[p].pc = "sadd" <=> promotion[p].pc = "sadd"
                               /\ promotion[p].pc = "sadd" => promotion'[p] = promotion[p]
      BY <1>3, <2>2 DEF Forget, Promoting
    <3>. QED  BY <1>3, <3>1 DEF Forget, Waiting
  <2>. QED  BY <1>3, <2>1, <2>3, <2>4 DEF Forget, Gate!vars
<1>4. CASE LeaveFails(l)
  <2>1. Owed' \ {l} = Owed \ {l}
    BY <1>1, <1>4, OwedChange DEF LeaveFails
  <2>2. l \notin Owed'
    BY <1>1, <1>4 DEF LeaveFails, Owed, NoLeave, NoPromotion
  <2>3. Waiting' \subseteq Waiting
    BY <1>4 DEF LeaveFails, Fails, Waiting, NoPromotion
  <2>4. Gate!Lose(l)
    BY <1>4, <2>1, <2>2, <2>3 DEF LeaveFails, Fails, Gate!Lose
  <2>. QED  BY <1>1, <2>4 DEF Gate!Next
<1>. QED  BY <1>2, <1>3, <1>4

\* A promotion gives the slot to the user it has taken from the queue.
LEMMA PromotionGate ==
  ASSUME RoomInv, NEW p \in Promoters, PromotionStep(p)
  PROVE  Gate!Next \/ UNCHANGED Gate!vars
<1>. USE DEF RoomInv, TypeOK
<1>1. /\ promotion[p] \in PromotionRecord
      /\ UNCHANGED <<leave, extra>>
      /\ \A q \in Promoters \ {p} : promotion'[q] = promotion[q]
  BY DEF PromotionStep, Pop, Add, Arm, Promote
<1>2. /\ Owed' \ {p} = Owed \ {p}
      /\ (p \in Owed' <=> p \in Owed) => Owed' = Owed
  BY <1>1, OwedChange
<1>3. promotion[p].pc # "idle"
  BY DEF PromotionStep, Pop, Add, Arm, Promote
<1>4. p \in Owed' <=> promotion'[p].pc \in {"pop", "sadd"}
  BY <1>1, <1>3, WhoOwes DEF Owed
<1>5. p \in Owed <=> promotion[p].pc \in {"pop", "sadd"}
  BY <1>3, WhoOwes
<1>6. CASE Pop(p)
  <2>1. CASE queue = <<>>
    <3>1. promotion'[p].pc = "idle"
      BY <1>6, <2>1 DEF Pop, NoPromotion
    <3>2. Waiting' \subseteq Waiting
      BY <1>1, <1>6, <2>1, <3>1 DEF Pop, Waiting
    <3>3. Gate!Lose(p)
      BY <1>2, <1>4, <1>6, <3>1, <3>2 DEF Pop, Gate!Lose
    <3>. QED  BY <3>3 DEF Gate!Next
  <2>2. CASE queue # <<>>
    <3>1. promotion'[p] = [pc |-> "sadd", user |-> Head(queue)] /\ queue' = Tail(queue)
      BY <1>6, <2>2 DEF Pop
    <3>2. promotion[p].pc = "pop"
      BY <1>6 DEF Pop
    <3>3. {promotion'[q].user : q \in {r \in Promoters : promotion'[r].pc = "sadd"}} =
            {promotion[q].user : q \in {r \in Promoters : promotion[r].pc = "sadd"}} \cup {Head(queue)}
      <4>. DEFINE before == {r \in Promoters : promotion[r].pc = "sadd"}
                  after == {r \in Promoters : promotion'[r].pc = "sadd"}
      <4>1. after = before \cup {p} /\ p \notin before
        BY <1>1, <3>1, <3>2
      <4>2. \A q \in before : promotion'[q] = promotion[q]
        BY <1>1, <4>1
      <4>3. promotion'[p].user = Head(queue)
        BY <3>1
      <4>. HIDE DEF before, after
      <4>4. {promotion'[q].user : q \in after} = {promotion[q].user : q \in before} \cup {Head(queue)}
        BY <4>1, <4>2, <4>3
      <4>. QED  BY <4>4 DEF before, after
    <3>4. Waiting' = Waiting
      BY <2>2, <3>1, <3>3, QueueShrinks DEF Waiting
    <3>5. Owed' = Owed
      BY <1>2, <1>4, <1>5, <3>1, <3>2
    <3>. QED  BY <1>1, <1>6, <3>4, <3>5 DEF Pop, Gate!vars
  <2>. QED  BY <2>1, <2>2
<1>7. CASE Add(p)
  <2>1. /\ promotion[p].pc = "sadd" /\ promotion[p].user \in Users
        /\ promotion'[p].pc = "expire"
        /\ active' = active \cup {promotion[p].user} /\ queue' = queue
    BY <1>1, <1>7 DEF Add, PromotionRecord, NoPromotion, Promoting
  <2>2. /\ promotion[p].user \in Waiting
        /\ Waiting' \subseteq Waiting /\ Waiting \subseteq Waiting' \cup {promotion[p].user}
    BY <1>1, <2>1 DEF Waiting
  <2>3. Waiting' \in {Waiting, Waiting \ {promotion[p].user}}
    <3>1. CASE promotion[p].user \in Waiting'
      BY <2>2, <3>1
    <3>2. CASE promotion[p].user \notin Waiting'
      BY <2>2, <3>2
    <3>. QED  BY <3>1, <3>2
  <2>4. Gate!HandOn(promotion[p].user, p)
    BY <1>1, <1>2, <1>4, <1>5, <2>1, <2>2, <2>3 DEF Gate!HandOn
  <2>. QED  BY <2>1, <2>4 DEF Gate!Next
<1>8. CASE Arm(p) \/ Promote(p)
  <2>1. promotion[p].pc \in {"expire", "setex"} /\ promotion'[p].pc \in {"setex", "idle"}
    BY <1>1, <1>8 DEF Arm, Promote, PromotionRecord, NoPromotion, Promoting
  <2>2. Owed' = Owed
    BY <1>2, <1>4, <1>5, <2>1
  <2>3. Waiting' = Waiting
    <3>1. \A q \in Promoters : /\ promotion'[q].pc = "sadd" <=> promotion[q].pc = "sadd"
                               /\ promotion[q].pc = "sadd" => promotion'[q] = promotion[q]
      BY <1>1, <2>1
    <3>. QED  BY <1>8, <3>1 DEF Arm, Promote, Waiting
  <2>. QED  BY <1>1, <1>8, <2>2, <2>3 DEF Arm, Promote, Gate!vars
<1>. QED  BY <1>6, <1>7, <1>8 DEF PromotionStep

\* The sweeper lets a member out, or makes a token for a place that is taken already.
LEMMA SweepGate ==
  ASSUME RoomInv, SweepScan \/ SweepStep \/ SweepFails
  PROVE  Gate!Next \/ UNCHANGED Gate!vars
<1>. USE DEF RoomInv, TypeOK
<1>1. Sweeper \in Promoters /\ Sweeper \notin LeaveCalls
  BY DEF Promoters
<1>2. CASE SweepRemove
  <2>1. Sweeper \notin Owed
    BY <1>1, <1>2, WhoOwes DEF SweepRemove, SweepThenPromote
  <2>2. Owed' = Owed \cup {Sweeper}
    <3>1. Owed' \ {Sweeper} = Owed \ {Sweeper}
      BY <1>1, <1>2, OwedChange DEF SweepRemove
    <3>2. Sweeper \in Owed'
      BY <1>1, <1>2 DEF SweepRemove, Owed, Promoting
    <3>. QED  BY <2>1, <3>1, <3>2
  <2>3. Waiting' = Waiting
    <3>1. \A p \in Promoters : /\ promotion'[p].pc = "sadd" <=> promotion[p].pc = "sadd"
                               /\ promotion[p].pc = "sadd" => promotion'[p] = promotion[p]
      BY <1>1, <1>2 DEF SweepRemove, SweepThenPromote, Promoting
    <3>. QED  BY <1>2, <3>1 DEF SweepRemove, Waiting
  <2>4. active' = active \ {sweep.victim} /\ sweep.victim \in Users
    BY <1>2 DEF SweepRemove, Removal, SweepRecord
  <2>5. CASE sweep.victim \in active
    <3>1. Gate!LetOut(sweep.victim, Sweeper)
      BY <1>2, <2>1, <2>2, <2>3, <2>4, <2>5 DEF SweepRemove, Gate!LetOut
    <3>. QED  BY <1>1, <2>4, <3>1 DEF Gate!Next
  <2>6. CASE sweep.victim \notin active
    <3>1. active' = active
      BY <2>4, <2>6
    <3>2. Gate!Mistake(Sweeper)
      BY <1>2, <2>1, <2>2, <2>3, <2>6, <3>1 DEF SweepRemove, Gate!Mistake
    <3>. QED  BY <1>1, <3>2 DEF Gate!Next
  <2>. QED  BY <2>5, <2>6
<1>3. CASE SweepFails
  <2>1. Owed' = Owed \ {Sweeper}
    <3>1. Owed' \ {Sweeper} = Owed \ {Sweeper}
      BY <1>1, <1>3, OwedChange DEF SweepFails
    <3>2. Sweeper \notin Owed'
      BY <1>1, <1>3 DEF SweepFails, Owed, NoPromotion
    <3>. QED  BY <3>1, <3>2
  <2>2. Waiting' \subseteq Waiting
    BY <1>3 DEF SweepFails, Fails, Waiting, NoPromotion
  <2>3. Gate!Lose(Sweeper)
    BY <1>3, <2>1, <2>2 DEF SweepFails, Fails, Gate!Lose
  <2>. QED  BY <1>1, <2>3 DEF Gate!Next
<1>4. CASE SweepScan \/ SweepMembers \/ SweepEnd \/ \E u \in Users : SweepExists(u)
  BY <1>4, GateStutters DEF SweepScan, SweepMembers, SweepEnd, SweepExists
<1>. QED  BY <1>2, <1>3, <1>4 DEF SweepStep

\* The waiting room implements Turnstile: a slot beyond the capacity is one that somebody
\* gave up, or an error of the sweeper, and goes to somebody who was turned away before.
THEOREM Implementation == Spec => TurnstileSpec
<1>1. Init => Gate!Init
  BY GateInit
<1>2. RoomInv /\ [Next]_vars => [Gate!Next]_(Gate!vars)
  <2>. SUFFICES ASSUME RoomInv, [Next]_vars PROVE Gate!Next \/ UNCHANGED Gate!vars
    OBVIOUS
  <2>1. CASE \/ \E e \in EnterCalls, u \in Users : Ask(e, u)
             \/ \E e \in EnterCalls : EnterFails(e)
             \/ \E u \in Users : SessionAges(u)
             \/ UNCHANGED vars
    BY <2>1, GateStutters DEF Ask, EnterFails, Fails, SessionAges, vars
  <2>2. CASE ActiveAges \/ QueueExpires
    <3>1. active' \in {active, {}} /\ UNCHANGED <<leave, promotion, extra>>
      BY <2>2 DEF ActiveAges, QueueExpires
    <3>2. Waiting' \subseteq Waiting
      <4>1. CASE ActiveAges
        BY <4>1, GateFrame DEF ActiveAges
      <4>2. CASE QueueExpires
        <5>1. {queue'[i] : i \in 1..Len(queue')} = {}
          <6>1. Len(queue') = 0 /\ 1..0 = {}
            BY <4>2, EmptySeq DEF QueueExpires
          <6>. QED  BY <6>1
        <5>. QED  BY <4>2, <5>1 DEF QueueExpires, Waiting
      <4>. QED  BY <2>2, <4>1, <4>2
    <3>3. Gate!Forget
      BY <3>1, <3>2, GateFrame DEF Gate!Forget
    <3>. QED  BY <3>3 DEF Gate!Next
  <2>. QED  BY <2>1, <2>2, EnterGate, LeaveGate, PromotionGate, SweepGate DEF Next
<1>. QED  BY <1>1, <1>2, Invariance, PTL DEF Spec, TurnstileSpec, Gate!Spec
=============================================================================
