----------------------------- MODULE WaitingRoom -----------------------------
(***************************************************************************)
(* The waiting room of one event: queue_manager.py with its two endpoints  *)
(* and its sweeper, on the three kinds of Redis keys they share.  A Redis  *)
(* command, and the Lua script, is one step; between two commands of a     *)
(* call every other call may run.  EXPIRE of the queue, SCARD and LPOS,    *)
(* which change nothing that is kept here, are left out.                   *)
(***************************************************************************)
EXTENDS Integers, Sequences, FiniteSets

CONSTANTS Users,        \* authenticated customers
          MaxActive,    \* MAX_ACTIVE_USERS
          EnterCalls,   \* calls of GET /events/{id}/queue served at a time
          LeaveCalls,   \* calls of POST /events/{id}/leave served at a time
          Sweeper,      \* the task listen_for_expired_sessions
          Nobody,       \* Python's None
          MaxQueue,     \* bound on the length of the queue
          MaxExtra,     \* promotions without a freed slot are counted up to here
          MaxFailures   \* bound on the calls that fail between two commands

ASSUME UsersAssumption == IsFiniteSet(Users) /\ Nobody \notin Users
ASSUME CallsAssumption == IsFiniteSet(LeaveCalls) /\ Sweeper \notin LeaveCalls
ASSUME BoundsAssumption ==
    MaxActive \in Nat /\ MaxQueue \in Nat /\ MaxExtra \in Nat /\ MaxFailures \in Nat

VARIABLES active,     \* active_users:{event}, the users on the booking page
          ttl,        \* the TTL of that key
          session,    \* user_session:{event}:{user}, known by its TTL
          queue,      \* waiting_room:{event}
          enter,      \* each call of try_enter_booking_page
          leave,      \* each call of leave_booking_page, up to its promotion
          promotion,  \* each run of _promote_next_from_queue
          sweep,      \* the pass of the sweeper
          extra,      \* history: removals of nobody that were followed by a promotion
          failures    \* how many calls have failed

vars == <<active, ttl, session, queue, enter, leave, promotion, sweep, extra, failures>>

Promoters == LeaveCalls \cup {Sweeper}

\* A key without a TTL, or no key; a key that was armed lately; one about to expire.
Ttl == {"none", "fresh", "old"}

NoEnter == [pc |-> "idle", user |-> Nobody]
NoLeave == [pc |-> "idle", user |-> Nobody, removed |-> FALSE]
NoPromotion == [pc |-> "idle", user |-> Nobody]
Promoting == [pc |-> "pop", user |-> Nobody]
Asleep == [pc |-> "asleep", members |-> {}, victim |-> Nobody]

Init == /\ active = {}
        /\ ttl = "none"
        /\ session = [u \in Users |-> "none"]
        /\ queue = <<>>
        /\ enter = [e \in EnterCalls |-> NoEnter]
        /\ leave = [l \in LeaveCalls |-> NoLeave]
        /\ promotion = [p \in Promoters |-> NoPromotion]
        /\ sweep = Asleep
        /\ extra = 0
        /\ failures = 0

-----------------------------------------------------------------------------
(* try_enter_booking_page *)

\* SISMEMBER: a member only has the session key refreshed.
Ask(e, u) ==
    /\ enter[e].pc = "idle"
    /\ enter' = [enter EXCEPT ![e] = [pc |-> IF u \in active THEN "setex" ELSE "eval", user |-> u]]
    /\ UNCHANGED <<active, ttl, session, queue, leave, promotion, sweep, extra, failures>>

\* Mutant: the comparison lets one user too many in.
HasRoomForOneMore == Cardinality(active) <= MaxActive

HasRoom == Cardinality(active) < MaxActive

\* Mutant: EXPIRE is forgotten.
Unarmed == ttl

\* EXPIRE of active_users.
Armed == "fresh"

\* ATOMIC_ENTER_SCRIPT.
Admit(e) ==
    /\ enter[e].pc = "eval"
    /\ IF HasRoom
       THEN /\ active' = active \cup {enter[e].user}
            /\ ttl' = Armed
            /\ enter' = [enter EXCEPT ![e].pc = "setex"]
       ELSE /\ enter' = [enter EXCEPT ![e].pc = "rpush"]
            /\ UNCHANGED <<active, ttl>>
    /\ UNCHANGED <<session, queue, leave, promotion, sweep, extra, failures>>

\* SETEX of the session key: access granted.
Grant(e) ==
    /\ enter[e].pc = "setex"
    /\ session' = [session EXCEPT ![enter[e].user] = "fresh"]
    /\ enter' = [enter EXCEPT ![e] = NoEnter]
    /\ UNCHANGED <<active, ttl, queue, leave, promotion, sweep, extra, failures>>

\* RPUSH, whether the user waits already or not.
Enqueue(e) ==
    /\ enter[e].pc = "rpush"
    /\ Len(queue) < MaxQueue
    /\ queue' = Append(queue, enter[e].user)
    /\ enter' = [enter EXCEPT ![e] = NoEnter]
    /\ UNCHANGED <<active, ttl, session, leave, promotion, sweep, extra, failures>>

-----------------------------------------------------------------------------
(* leave_booking_page *)

\* A key whose last member is removed is gone, and so is its TTL.
Removal(u) == /\ active' = active \ {u}
              /\ ttl' = IF active' = {} THEN "none" ELSE ttl

\* Mutant: the answer of SREM is not looked at.
LeaveTwice(l, u) ==
    /\ leave[l].pc = "idle" /\ promotion[l].pc = "idle"
    /\ Removal(u)
    /\ leave' = [leave EXCEPT ![l] = [pc |-> "del", user |-> u, removed |-> TRUE]]
    /\ UNCHANGED <<session, queue, enter, promotion, sweep, extra, failures>>

\* SREM, which tells whether the user was a member.
Leave(l, u) ==
    /\ leave[l].pc = "idle" /\ promotion[l].pc = "idle"
    /\ Removal(u)
    /\ leave' = [leave EXCEPT ![l] = [pc |-> "del", user |-> u, removed |-> u \in active]]
    /\ UNCHANGED <<session, queue, enter, promotion, sweep, extra, failures>>

\* DEL of the session key; the promotion follows if the user was a member.
Forget(l) ==
    /\ leave[l].pc = "del"
    /\ session' = [session EXCEPT ![leave[l].user] = "none"]
    /\ leave' = [leave EXCEPT ![l] = NoLeave]
    /\ promotion' = IF leave[l].removed THEN [promotion EXCEPT ![l] = Promoting] ELSE promotion
    /\ UNCHANGED <<active, ttl, queue, enter, sweep, extra, failures>>

-----------------------------------------------------------------------------
(* _promote_next_from_queue *)

\* LPOP; an empty queue ends the promotion.
Pop(p) ==
    /\ promotion[p].pc = "pop"
    /\ IF queue = <<>>
       THEN /\ promotion' = [promotion EXCEPT ![p] = NoPromotion]
            /\ UNCHANGED queue
       ELSE /\ promotion' = [promotion EXCEPT ![p] = [pc |-> "sadd", user |-> Head(queue)]]
            /\ queue' = Tail(queue)
    /\ UNCHANGED <<active, ttl, session, enter, leave, sweep, extra, failures>>

\* SADD, whether the user is a member already or not, and without a look at the capacity.
Add(p) ==
    /\ promotion[p].pc = "sadd"
    /\ active' = active \cup {promotion[p].user}
    /\ promotion' = [promotion EXCEPT ![p].pc = "expire"]
    /\ UNCHANGED <<ttl, session, queue, enter, leave, sweep, extra, failures>>

\* EXPIRE, which does nothing when the key is gone again.
Arm(p) ==
    /\ promotion[p].pc = "expire"
    /\ ttl' = IF active = {} THEN "none" ELSE Armed
    /\ promotion' = [promotion EXCEPT ![p].pc = "setex"]
    /\ UNCHANGED <<active, session, queue, enter, leave, sweep, extra, failures>>

\* SETEX of the promoted user's session key.
Promote(p) ==
    /\ promotion[p].pc = "setex"
    /\ session' = [session EXCEPT ![promotion[p].user] = "fresh"]
    /\ promotion' = [promotion EXCEPT ![p] = NoPromotion]
    /\ UNCHANGED <<active, ttl, queue, enter, leave, sweep, extra, failures>>

-----------------------------------------------------------------------------
(* listen_for_expired_sessions: a pass every 5 s *)

\* SCAN user_session:* ; the event is looked at if one of its users has a key.
SweepScan ==
    /\ sweep.pc = "asleep"
    /\ \E u \in Users : session[u] # "none"
    /\ sweep' = [Asleep EXCEPT !.pc = "smembers"]
    /\ UNCHANGED <<active, ttl, session, queue, enter, leave, promotion, extra, failures>>

SweepMembers ==
    /\ sweep.pc = "smembers"
    /\ sweep' = [Asleep EXCEPT !.pc = "exists", !.members = active]
    /\ UNCHANGED <<active, ttl, session, queue, enter, leave, promotion, extra, failures>>

\* EXISTS of the next member's session key, after the promotion for the last one.
SweepExists(u) ==
    /\ sweep.pc = "exists" /\ promotion[Sweeper].pc = "idle"
    /\ u \in sweep.members
    /\ sweep' = IF session[u] = "none"
                THEN [pc |-> "srem", members |-> sweep.members \ {u}, victim |-> u]
                ELSE [sweep EXCEPT !.members = @ \ {u}]
    /\ UNCHANGED <<active, ttl, session, queue, enter, leave, promotion, extra, failures>>

\* SREM, and a promotion whether or not it removed anybody.
SweepRemove ==
    /\ sweep.pc = "srem"
    /\ Removal(sweep.victim)
    /\ extra' = IF sweep.victim \in active \/ extra = MaxExtra THEN extra ELSE extra + 1
    /\ sweep' = [sweep EXCEPT !.pc = "exists", !.victim = Nobody]
    /\ promotion' = [promotion EXCEPT ![Sweeper] = Promoting]
    /\ UNCHANGED <<session, queue, enter, leave, failures>>

SweepEnd ==
    /\ sweep.pc = "exists" /\ promotion[Sweeper].pc = "idle"
    /\ sweep.members = {}
    /\ sweep' = Asleep
    /\ UNCHANGED <<active, ttl, session, queue, enter, leave, promotion, extra, failures>>

-----------------------------------------------------------------------------
(* Redis drops keys; calls fail *)

SessionAges(u) ==
    /\ session[u] # "none"
    /\ session' = [session EXCEPT ![u] = IF @ = "fresh" THEN "old" ELSE "none"]
    /\ UNCHANGED <<active, ttl, queue, enter, leave, promotion, sweep, extra, failures>>

ActiveAges ==
    /\ ttl # "none"
    /\ ttl' = IF ttl = "fresh" THEN "old" ELSE "none"
    /\ active' = IF ttl = "fresh" THEN active ELSE {}
    /\ UNCHANGED <<session, queue, enter, leave, promotion, sweep, extra, failures>>

QueueExpires ==
    /\ queue # <<>>
    /\ queue' = <<>>
    /\ UNCHANGED <<active, ttl, session, enter, leave, promotion, sweep, extra, failures>>

\* A command raises: the endpoint answers 500, the sweeper logs and sleeps.  When the
\* process stops, every call and the pass do this.
Fails ==
    /\ failures < MaxFailures
    /\ failures' = failures + 1
    /\ UNCHANGED <<active, ttl, session, queue, extra>>

EnterFails(e) ==
    /\ enter[e].pc # "idle"
    /\ enter' = [enter EXCEPT ![e] = NoEnter]
    /\ Fails
    /\ UNCHANGED <<leave, promotion, sweep>>

LeaveFails(l) ==
    /\ leave[l].pc # "idle" \/ promotion[l].pc # "idle"
    /\ leave' = [leave EXCEPT ![l] = NoLeave]
    /\ promotion' = [promotion EXCEPT ![l] = NoPromotion]
    /\ Fails
    /\ UNCHANGED <<enter, sweep>>

SweepFails ==
    /\ sweep # Asleep
    /\ sweep' = Asleep
    /\ promotion' = [promotion EXCEPT ![Sweeper] = NoPromotion]
    /\ Fails
    /\ UNCHANGED <<enter, leave>>

-----------------------------------------------------------------------------
EnterStep(e) == Admit(e) \/ Grant(e) \/ Enqueue(e)

PromotionStep(p) == Pop(p) \/ Add(p) \/ Arm(p) \/ Promote(p)

SweepStep == \/ SweepMembers \/ SweepRemove \/ SweepEnd
             \/ \E u \in Users : SweepExists(u)

Next == \/ \E e \in EnterCalls, u \in Users : Ask(e, u)
        \/ \E e \in EnterCalls : EnterStep(e) \/ EnterFails(e)
        \/ \E l \in LeaveCalls, u \in Users : Leave(l, u)
        \/ \E l \in LeaveCalls : Forget(l) \/ LeaveFails(l)
        \/ \E p \in Promoters : PromotionStep(p)
        \/ SweepScan \/ SweepStep \/ SweepFails
        \/ \E u \in Users : SessionAges(u)
        \/ ActiveAges \/ QueueExpires

Spec == Init /\ [][Next]_vars

\* The event loop runs every call and the sweeper on; a session key lives 1800 s and is
\* seen by the next scan, 5 s later at most; TTLs run down unless they are set anew.
Fairness ==
    /\ \A e \in EnterCalls : WF_vars(EnterStep(e))
    /\ \A l \in LeaveCalls : WF_vars(Forget(l))
    /\ \A p \in Promoters : WF_vars(PromotionStep(p))
    /\ SF_vars(SweepScan) /\ WF_vars(SweepStep)
    /\ \A u \in Users : WF_vars(SessionAges(u))
    /\ WF_vars(ActiveAges)

FairSpec == Spec /\ Fairness

-----------------------------------------------------------------------------
(* Correctness *)

EnterRecord == {NoEnter} \cup [pc : {"eval", "setex", "rpush"}, user : Users]
LeaveRecord == {NoLeave} \cup [pc : {"del"}, user : Users, removed : BOOLEAN]
PromotionRecord == {NoPromotion, Promoting} \cup [pc : {"sadd", "expire", "setex"}, user : Users]
SweepRecord ==
    [pc : {"asleep", "smembers", "exists"}, members : SUBSET Users, victim : {Nobody}]
    \cup [pc : {"srem"}, members : SUBSET Users, victim : Users]

\* Every variable stays in its domain: only a call in progress names a user, and the TTL
\* of the active users goes with the key.
TypeOK ==
    /\ active \in SUBSET Users
    /\ ttl \in Ttl /\ (active = {} => ttl = "none")
    /\ session \in [Users -> Ttl]
    /\ queue \in Seq(Users)
    /\ enter \in [EnterCalls -> EnterRecord]
    /\ leave \in [LeaveCalls -> LeaveRecord]
    /\ promotion \in [Promoters -> PromotionRecord]
    /\ sweep \in SweepRecord
    /\ extra \in 0..MaxExtra
    /\ failures \in 0..MaxFailures

\* Who has freed a slot and not yet given it to anybody.
Owed == {l \in LeaveCalls : leave[l].removed}
        \cup {p \in Promoters : promotion[p].pc \in {"pop", "sadd"}}

\* The page holds more users than MAX_ACTIVE_USERS only as far as freed slots were taken
\* twice, by a newcomer and by the promoted user, once per call that was promoting at a
\* time, and as far as the sweeper promoted without having removed anybody: the script
\* alone never lets too many in, and a leave that is delivered twice promotes once.
OvershootIsBounded ==
    extra < MaxExtra =>
        Cardinality(active) + Cardinality(Owed) <= MaxActive + Cardinality(Promoters) + extra

\* A call that has yet to delete its session key has no promotion under way.
LeaveThenPromote ==
    \A l \in LeaveCalls : leave[l].pc # "idle" => promotion[l].pc = "idle"

\* Nor has the sweeper while it is about to remove a member.
SweepThenPromote == sweep.pc = "srem" => promotion[Sweeper].pc = "idle"

\* A set of active users that will never expire, and so never give back the slots of the
\* dead, is one whose promoter is about to arm it, or the trace of a failed call: no
\* interleaving of leaves, promotions and expiring keys alone makes one.
SetExpiresUnlessFailed ==
    active # {} /\ ttl = "none" =>
        failures > 0 \/ \E p \in Promoters : promotion[p].pc = "expire"

\* A set of active users that no EXPIRE is on and none is coming for.
NeverExpires == active # {} /\ ttl = "none" /\ \A p \in Promoters : promotion[p].pc # "expire"

\* However many calls have failed before: the set comes to be one that never expires in one
\* kind of step only, the failure of a promotion between its SADD and its EXPIRE.  A set
\* that has gone and come back, a promotion of somebody who leaves before the EXPIRE, or
\* any other call that fails, leaves it with a TTL or with one to come.
OnlyFailedPromotionsUnarm ==
    [][NeverExpires' => \/ NeverExpires
                        \/ \E p \in Promoters : /\ promotion[p].pc = "expire"
                                                /\ promotion'[p].pc = "idle"
                                                /\ failures' > failures]_vars

\* The inductive invariant behind OvershootIsBounded and SetExpiresUnlessFailed.
RoomInv == /\ TypeOK
           /\ LeaveThenPromote /\ SweepThenPromote
           /\ OvershootIsBounded
           /\ SetExpiresUnlessFailed

\* Who waits: in the queue, or taken from it and not yet a member.
Waiting == {queue[i] : i \in 1..Len(queue)}
           \cup {promotion[p].user : p \in {q \in Promoters : promotion[q].pc = "sadd"}}

Gate == INSTANCE Turnstile WITH inside <- active, line <- Waiting, tokens <- Owed,
                                Doorkeepers <- Promoters

\* The waiting room is a Turnstile: command by command, every slot given beyond the
\* capacity is that of one user who was let out, or an error of the sweeper that is
\* counted, and goes to a user who was refused before.
TurnstileSpec == Gate!Spec

\* A member whose session key is gone loses the slot, or has the key again: by the sweeper
\* while some key makes it look at the event, else by the TTL of the set.  Only a promotion
\* that fails between SADD and EXPIRE can spoil this, by leaving the set without a TTL.
DeadSlotsAreReclaimed ==
    \A u \in Users :
        \/ u \in active /\ session[u] = "none" ~> u \notin active \/ session[u] # "none"
        \/ <>[](u \in active /\ ttl = "none" /\ failures > 0)
=============================================================================
