----------------------------- MODULE Retention -----------------------------
(***************************************************************************)
(* EventfulRetainedEntity (src/daemon/core/operation-retainer.ts) and the  *)
(* destroy-once base class under it (core/eventful-destroyable.ts), as     *)
(* legs and dials use them.                                                *)
(*                                                                         *)
(* An entity counts the tickets held on it.  While the count is zero a     *)
(* free-TTL timer is armed; when it fires the entity destroys itself.      *)
(* Destroying runs an executor once.  The executor runs synchronously and  *)
(* calls back into the daemon (onLegEnded, onDialFinalized), which may     *)
(* retain, release or destroy entities again, the very same one included,  *)
(* BEFORE destroyPromise is assigned: the stack of running executors is a  *)
(* variable.  Timers and continuations wait until the stack is empty, as   *)
(* in the Node event loop.                                                 *)
(***************************************************************************)
EXTENDS Integers, Sequences, FiniteSets

CONSTANTS Entity,  \* legs and dials
          Async,   \* those whose executor ends in a promise: the legs
          Ticket,  \* one element per call of retain()
          None,    \* no entity
          MaxGen   \* bound of the model: no late answer, and no second destroy,
                 \* of an entity past this generation

ASSUME RetentionAssumption ==
    /\ IsFiniteSet(Ticket)
    /\ MaxGen \in Nat
    /\ Async \subseteq Entity
    /\ None \notin Entity

VARIABLES
    registered, \* in the registry (MapRegistry)
    gen,        \* retentionGeneration
    timer,      \* the generation the armed freeTimer captured, 0 for null
    count,      \* activeOperationCount
    cleared,    \* clearRetention() has run
    owner,      \* the entity a ticket was taken on, None before
    released,   \* ticket.released
    ended,      \* leg.status = "ended" or dial.finalizedAt # null
    promise,    \* destroyPromise is assigned
    stack,      \* entities whose executor is running, the innermost last
    runs,       \* how often the executor was entered
    cause       \* the reason destroy was given

vars == <<registered, gen, timer, count, cleared, owner, released, ended,
          promise, stack, runs, cause>>

tickets == <<owner, released>>
counting == <<gen, timer, count>>

Created(e) == gen[e] # 0
HeldOn(e) == {t \in Ticket : owner[t] = e /\ ~released[t]}
OnStack(e) == \E i \in 1..Len(stack) : stack[i] = e

TypeOK ==
    /\ registered \in [Entity -> BOOLEAN]
    /\ gen \in [Entity -> Nat]
    /\ timer \in [Entity -> Nat]
    /\ count \in [Entity -> Nat]
    /\ cleared \in [Entity -> BOOLEAN]
    /\ owner \in [Ticket -> Entity \cup {None}]
    /\ released \in [Ticket -> BOOLEAN]
    /\ ended \in [Entity -> BOOLEAN]
    /\ promise \in [Entity -> BOOLEAN]
    /\ stack \in Seq(Entity)
    /\ runs \in [Entity -> Nat]
    /\ cause \in [Entity -> {"none", "asked", "free_ttl"}]

Init ==
    /\ registered = [e \in Entity |-> FALSE]
    /\ gen = [e \in Entity |-> 0]
    /\ timer = [e \in Entity |-> 0]
    /\ count = [e \in Entity |-> 0]
    /\ cleared = [e \in Entity |-> FALSE]
    /\ owner = [t \in Ticket |-> None]
    /\ released = [t \in Ticket |-> FALSE]
    /\ ended = [e \in Entity |-> FALSE]
    /\ promise = [e \in Entity |-> FALSE]
    /\ stack = <<>>
    /\ runs = [e \in Entity |-> 0]
    /\ cause = [e \in Entity |-> "none"]

-----------------------------------------------------------------------------
(* The counter and its timer.                                              *)

\* Mutant: taking a ticket leaves the armed timer alone.
OpBeginKeepsTimer(e) ==
    IF cleared[e]
    THEN UNCHANGED counting
    ELSE /\ count' = [count EXCEPT ![e] = @ + 1]
         /\ UNCHANGED <<gen, timer>>

OpBegin(e) ==
    IF cleared[e]
    THEN UNCHANGED counting
    ELSE /\ gen' = [gen EXCEPT ![e] = @ + 1]
         /\ timer' = [timer EXCEPT ![e] = 0]
         /\ count' = [count EXCEPT ![e] = @ + 1]

OpEnd(e) ==
    IF cleared[e]
    THEN UNCHANGED counting
    ELSE LET left == IF count[e] = 0 THEN 0 ELSE count[e] - 1 IN
         /\ count' = [count EXCEPT ![e] = left]
         /\ IF left > 0
            THEN UNCHANGED <<gen, timer>>
            ELSE /\ gen' = [gen EXCEPT ![e] = @ + 1]
                 /\ timer' = [timer EXCEPT ![e] = gen[e] + 1]

ClearRetention(e) ==
    /\ cleared' = [cleared EXCEPT ![e] = TRUE]
    /\ gen' = [gen EXCEPT ![e] = @ + 1]
    /\ count' = [count EXCEPT ![e] = 0]
    /\ timer' = [timer EXCEPT ![e] = 0]

-----------------------------------------------------------------------------
(* Creation, tickets.                                                      *)

Create(e) ==
    /\ ~Created(e)
    /\ registered' = [registered EXCEPT ![e] = TRUE]
    /\ OpEnd(e)
    /\ UNCHANGED <<cleared, tickets, ended, promise, stack, runs, cause>>

Retain(e, t) ==
    /\ registered[e]
    /\ owner[t] = None
    /\ owner' = [owner EXCEPT ![t] = e]
    /\ OpBegin(e)
    /\ UNCHANGED <<registered, cleared, released, ended, promise, stack, runs, cause>>

Release(t) ==
    /\ owner[t] # None
    /\ IF released[t]
       THEN UNCHANGED <<released, counting>>
       ELSE /\ released' = [released EXCEPT ![t] = TRUE]
            /\ OpEnd(owner[t])
    /\ UNCHANGED <<registered, cleared, owner, ended, promise, stack, runs, cause>>

-----------------------------------------------------------------------------
(* Destruction.                                                            *)

\* Mutant: end() moved behind the callback that may re-enter.
EnterExecutorLateEnd(e, why) ==
    /\ stack' = Append(stack, e)
    /\ runs' = [runs EXCEPT ![e] = @ + 1]
    /\ UNCHANGED ended
    /\ cause' = [cause EXCEPT ![e] = IF @ = "none" THEN why ELSE @]

\* The synchronous head of the executor: leg.end() / markFinalized() precede
\* the callback that may re-enter.
EnterExecutor(e, why) ==
    /\ stack' = Append(stack, e)
    /\ runs' = [runs EXCEPT ![e] = @ + 1]
    /\ ended' = [ended EXCEPT ![e] = TRUE]
    /\ cause' = [cause EXCEPT ![e] = IF @ = "none" THEN why ELSE @]

RunDestroyOnce(e, why) ==
    /\ ClearRetention(e)
    /\ IF promise[e]
       THEN UNCHANGED <<stack, runs, ended, cause>>
       ELSE EnterExecutor(e, why)

\* hangupLeg / finalizeDial: nothing to do on an ended entity.  The bound
\* stops the model from clearing a destroyed entity again without end.
Hangup(e) ==
    /\ registered[e]
    /\ ~ended[e]
    /\ promise[e] => gen[e] < MaxGen
    /\ RunDestroyOnce(e, "asked")
    /\ UNCHANGED <<registered, tickets, promise>>

TimerFires(e) ==
    /\ stack = <<>>
    /\ timer[e] # 0
    /\ IF timer[e] # gen[e]
       THEN /\ timer' = [timer EXCEPT ![e] = 0]
            /\ UNCHANGED <<gen, count, cleared, stack, runs, ended, cause>>
       ELSE RunDestroyOnce(e, "free_ttl")
    /\ UNCHANGED <<registered, tickets, promise>>

\* The innermost executor returns: destroyPromise is assigned; a dial leaves
\* its registry at once, a leg when its asynchronous part is over.
ExecutorReturns ==
    /\ stack # <<>>
    /\ LET e == stack[Len(stack)] IN
       /\ promise' = [promise EXCEPT ![e] = TRUE]
       /\ registered' = [registered EXCEPT ![e] = @ /\ e \in Async]
    /\ stack' = SubSeq(stack, 1, Len(stack) - 1)
    /\ UNCHANGED <<counting, cleared, tickets, ended, runs, cause>>

DetachLater(e) ==
    /\ stack = <<>>
    /\ e \in Async
    /\ promise[e]
    /\ registered[e]
    /\ registered' = [registered EXCEPT ![e] = FALSE]
    /\ UNCHANGED <<counting, cleared, tickets, ended, promise, stack, runs, cause>>

\* answerLeg/ringLeg overwrite the status of a leg that ended but is still in
\* the registry, when a late answer arrives.
StatusOverwritten(e) ==
    /\ stack = <<>>
    /\ e \in Async
    /\ registered[e]
    /\ ended[e]
    /\ gen[e] < MaxGen
    /\ ended' = [ended EXCEPT ![e] = FALSE]
    /\ UNCHANGED <<registered, counting, cleared, tickets, promise, stack, runs, cause>>

Next ==
    \/ \E e \in Entity :
        \/ Create(e)
        \/ \E t \in Ticket : Retain(e, t)
        \/ Hangup(e)
        \/ TimerFires(e)
        \/ DetachLater(e)
        \/ StatusOverwritten(e)
    \/ \E t \in Ticket : Release(t)
    \/ ExecutorReturns

\* A timer that stays armed fires, a running executor returns and the
\* asynchronous part of a leg's destruction ends; nobody has to retain,
\* release or hang up.
Fairness ==
    /\ WF_vars(ExecutorReturns)
    /\ \A e \in Entity : WF_vars(TimerFires(e)) /\ WF_vars(DetachLater(e))

Spec == Init /\ [][Next]_vars /\ Fairness
-----------------------------------------------------------------------------
(* Properties.                                                             *)

\* While an entity lives, activeOperationCount is the number of tickets
\* that were taken on it and not released (operation-retainer.ts:50-92),
\* whatever the order of retains, double releases and re-entrant calls.
CountIsTicketsHeld ==
    \A e \in Entity :
        Created(e) /\ ~cleared[e] => count[e] = Cardinality(HeldOn(e))

\* The timer is armed exactly while a live entity has no owner, always with
\* the current generation (so the comparison in line 98 never discards a
\* timer that mattered), and never again once the entity was destroyed,
\* however late its tickets are released.
TimerArmedIffUnowned ==
    \A e \in Entity :
        IF Created(e) /\ ~cleared[e]
        THEN /\ HeldOn(e) = {} => timer[e] = gen[e]
             /\ HeldOn(e) # {} => timer[e] = 0
        ELSE timer[e] = 0

\* The destroy executor is entered at most once per entity, although it
\* re-enters the daemon before destroyPromise is assigned
\* (eventful-destroyable.ts:59-66) and although a late answer may overwrite
\* the "ended" status that the callers of destroy test.
ExecutorEntersOnce == \A e \in Entity : runs[e] <= 1

\* How an entity of the code looks to its owners.
LifeOf(e) ==
    IF ~Created(e) THEN "unborn"
    ELSE IF ~registered[e] THEN "gone"
    ELSE IF cause[e] = "none" THEN "live" ELSE "ending"

HoldersOf(e) == IF cause[e] = "none" THEN HeldOn(e) ELSE {}

O == INSTANCE Ownership WITH
        life <- [e \in Entity |-> LifeOf(e)],
        holders <- [e \in Entity |-> HoldersOf(e)]

\* The entity keeps the promise of Ownership.tla: reaped only without an
\* owner, sooner or later if it stays without one, removed exactly once.
ImplementsOwnership == O!OwnershipSpec

\* What the retention of an entity keeps in every state: its counter, its timer
\* and its single destruction.
RetentionSafe == TypeOK /\ CountIsTicketsHeld /\ TimerArmedIffUnowned /\ ExecutorEntersOnce
=============================================================================
