----------------------------- MODULE Ownership -----------------------------
(***************************************************************************)
(* What a retained entity (a call leg or a dial) promises its owners,      *)
(* without counters, timers or generations: an owner holds a ticket; an    *)
(* entity nobody holds is reaped sooner or later; an entity somebody holds *)
(* ends only because somebody asked for it; an ended entity leaves its     *)
(* registry and never comes back.                                          *)
(*                                                                         *)
(* Retention.tla, the specification of the code, implements this one.      *)
(***************************************************************************)
EXTENDS FiniteSets

CONSTANTS Entity,  \* legs and dials
          Ticket   \* one element per call of retain()

VARIABLES life,    \* where an entity is between its creation and its removal
          holders, \* the tickets through which a live entity is owned
          cause    \* why the entity ended

ownershipVars == <<life, holders, cause>>

Cause == {"none", "asked", "free_ttl"}

OwnershipInit ==
    /\ life = [e \in Entity |-> "unborn"]
    /\ holders = [e \in Entity |-> {}]
    /\ cause = [e \in Entity |-> "none"]

Appear(e) ==
    /\ life[e] = "unborn"
    /\ life' = [life EXCEPT ![e] = "live"]
    /\ UNCHANGED <<holders, cause>>

Acquire(e, t) ==
    /\ life[e] = "live"
    /\ \A f \in Entity : t \notin holders[f]
    /\ holders' = [holders EXCEPT ![e] = @ \cup {t}]
    /\ UNCHANGED <<life, cause>>

Drop(e, t) ==
    /\ t \in holders[e]
    /\ holders' = [holders EXCEPT ![e] = @ \ {t}]
    /\ UNCHANGED <<life, cause>>

\* Ending makes every outstanding ticket worthless.
End(e, why) ==
    /\ life[e] = "live"
    /\ life' = [life EXCEPT ![e] = "ending"]
    /\ holders' = [holders EXCEPT ![e] = {}]
    /\ cause' = [cause EXCEPT ![e] = why]

Asked(e) == End(e, "asked")

Reap(e) ==
    /\ holders[e] = {}
    /\ End(e, "free_ttl")

Leave(e) ==
    /\ life[e] = "ending"
    /\ life' = [life EXCEPT ![e] = "gone"]
    /\ UNCHANGED <<holders, cause>>

OwnershipNext ==
    \E e \in Entity :
        \/ Appear(e)
        \/ \E t \in Ticket : Acquire(e, t) \/ Drop(e, t)
        \/ Asked(e)
        \/ Reap(e)
        \/ Leave(e)

\* An entity that stays without an owner is reaped, and an ended one leaves.
OwnershipFairness ==
    \A e \in Entity :
        WF_ownershipVars(Reap(e)) /\ WF_ownershipVars(Leave(e))

OwnershipSafety == OwnershipInit /\ [][OwnershipNext]_ownershipVars
OwnershipSpec == OwnershipSafety /\ OwnershipFairness
=============================================================================
