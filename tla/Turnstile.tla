----------------------------- MODULE Turnstile ------------------------------
(***************************************************************************)
(* What the waiting room of an event promises, with nothing of how it is   *)
(* done: users pass while there is room; whoever is let out leaves a token *)
(* for the place with a doorkeeper, who gives it, full or not, to somebody *)
(* in the line, or loses it.  WaitingRoom implements this specification.   *)
(***************************************************************************)
EXTENDS Naturals, FiniteSets

CONSTANTS Users,        \* customers
          MaxActive,    \* how many pass without a token
          Doorkeepers,  \* who lets users out and hands their places on
          MaxExtra      \* tokens for nobody's place are counted up to here

VARIABLES inside,       \* the users who have passed
          line,         \* the users who have been turned away and may be called
          tokens,       \* the doorkeepers who owe somebody a place
          extra         \* the tokens that were made without letting anybody out

vars == <<inside, line, tokens, extra>>

Init == inside = {} /\ line = {} /\ tokens = {} /\ extra = 0

Pass(u) == /\ Cardinality(inside) < MaxActive
           /\ inside' = inside \cup {u}
           /\ UNCHANGED <<line, tokens, extra>>

Join(u) == line' = line \cup {u} /\ UNCHANGED <<inside, tokens, extra>>

\* One user out, one token.
LetOut(u, d) == /\ u \in inside /\ d \notin tokens
                /\ inside' = inside \ {u}
                /\ tokens' = tokens \cup {d}
                /\ UNCHANGED <<line, extra>>

\* A token for a place that was given away before.
Mistake(d) == /\ d \notin tokens
              /\ tokens' = tokens \cup {d}
              /\ extra' = IF extra = MaxExtra THEN extra ELSE extra + 1
              /\ UNCHANGED <<inside, line>>

\* One token, one user of the line, who may stand there more than once.
HandOn(u, d) == /\ d \in tokens /\ u \in line
                /\ inside' = inside \cup {u}
                /\ line' \in {line, line \ {u}}
                /\ tokens' = tokens \ {d}
                /\ UNCHANGED extra

\* Nobody was in the line, or the doorkeeper has failed.
Lose(d) == tokens' = tokens \ {d} /\ line' \subseteq line /\ UNCHANGED <<inside, extra>>

\* Everybody inside, or some of the line, are forgotten.
Forget == /\ inside' \in {inside, {}}
          /\ line' \subseteq line
          /\ UNCHANGED <<tokens, extra>>

Next == \/ \E u \in Users : Pass(u) \/ Join(u)
        \/ \E u \in Users, d \in Doorkeepers : LetOut(u, d) \/ HandOn(u, d)
        \/ \E d \in Doorkeepers : Mistake(d) \/ Lose(d)
        \/ Forget

Spec == Init /\ [][Next]_vars
=============================================================================
