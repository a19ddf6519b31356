------------------------------ MODULE LegLocks ------------------------------
(***************************************************************************)
(* The leg locks (src/daemon/core/async-lock.ts, legs/leg-coordinator.ts): *)
(* one FIFO lock per leg, shared by the SIP transport, the WebSocket       *)
(* signalling and the media service.  A task runs a section over one leg   *)
(* or several, which it locks in the order of their identifiers.           *)
(*                                                                         *)
(* Legs are numbered in that order.  A lock is locked from the moment      *)
(* release() hands it to a waiter, although the waiter continues only some *)
(* turns later: holder[l] is who has it, even before it knows.             *)
(***************************************************************************)
EXTENDS Naturals, Sequences

CONSTANTS NumLegs, \* legs 1..NumLegs, sorted as keys are
          Task,    \* one element per task that runs sections, one at a time
          None

ASSUME LockAssumption == NumLegs \in Nat /\ None \notin Task

Leg == 1..NumLegs

VARIABLES holder,  \* AsyncLock.locked: the task a lock was given to, or None
          waiters, \* AsyncLock.waiters
          want,    \* the legs of a task's section
          pc,      \* where a task is
          at       \* the leg whose acquire() a waiting task awaits

vars == <<holder, waiters, want, pc, at>>

TypeOK ==
    /\ holder \in [Leg -> Task \cup {None}]
    /\ waiters \in [Leg -> Seq(Task)]
    /\ want \in [Task -> SUBSET Leg]
    /\ pc \in [Task -> {"out", "waiting", "inside"}]
    /\ at \in [Task -> Leg \cup {0}]
    /\ \A l \in Leg : holder[l] = None => waiters[l] = <<>>

Init ==
    /\ holder = [l \in Leg |-> None]
    /\ waiters = [l \in Leg |-> <<>>]
    /\ want = [t \in Task |-> {}]
    /\ pc = [t \in Task |-> "out"]
    /\ at = [t \in Task |-> 0]

-----------------------------------------------------------------------------
\* Mutant: the keys are not sorted.
AnyOf(l, S) == l \in S

First(l, S) == l \in S /\ \A m \in S : l <= m

\* Mutant: locked is set one turn later, so that whoever asks finds it free.
AcquireUnlocked(t, l) ==
    /\ at' = [at EXCEPT ![t] = l]
    /\ holder' = [holder EXCEPT ![l] = t]
    /\ UNCHANGED waiters

\* AsyncLock.acquire(): a free lock is taken at once.
Acquire(t, l) ==
    /\ at' = [at EXCEPT ![t] = l]
    /\ \/ /\ holder[l] = None
          /\ holder' = [holder EXCEPT ![l] = t]
          /\ UNCHANGED waiters
       \/ /\ holder[l] # None
          /\ waiters' = [waiters EXCEPT ![l] = Append(@, t)]
          /\ UNCHANGED holder

\* Mutant: waiters.pop() in place of waiters.shift().
ReleaseToLast(S) ==
    /\ holder' = [l \in Leg |->
                    IF l \notin S THEN holder[l]
                    ELSE IF waiters[l] = <<>> THEN None ELSE waiters[l][Len(waiters[l])]]
    /\ waiters' = [l \in Leg |->
                    IF l \in S /\ waiters[l] # <<>>
                    THEN SubSeq(waiters[l], 1, Len(waiters[l]) - 1) ELSE waiters[l]]

\* AsyncLock.release() on every lock of S: a lock goes straight to the waiter
\* that came first, and is unlocked only when nobody waits.
Release(S) ==
    /\ holder' = [l \in Leg |->
                    IF l \notin S THEN holder[l]
                    ELSE IF waiters[l] = <<>> THEN None ELSE Head(waiters[l])]
    /\ waiters' = [l \in Leg |->
                    IF l \in S /\ waiters[l] # <<>> THEN Tail(waiters[l]) ELSE waiters[l]]

\* runExclusive, runExclusiveMany: the keys are sorted and locked in that
\* order, each once; the next is asked for when the last was granted.
Ask(t, S) ==
    /\ pc[t] = "out"
    /\ want' = [want EXCEPT ![t] = S]
    /\ pc' = [pc EXCEPT ![t] = "waiting"]
    /\ \E l \in S : First(l, S) /\ Acquire(t, l)

\* The legs of its section that a task has yet to lock.
Further(t) == {l \in want[t] : holder[l] # t}

Granted(t) == pc[t] = "waiting" /\ holder[at[t]] = t

NextLock(t) ==
    /\ Granted(t)
    /\ \E l \in Further(t) : First(l, Further(t)) /\ Acquire(t, l)
    /\ UNCHANGED <<want, pc>>

Begin(t) ==
    /\ Granted(t)
    /\ Further(t) = {}
    /\ pc' = [pc EXCEPT ![t] = "inside"]
    /\ at' = [at EXCEPT ![t] = 0]
    /\ UNCHANGED <<holder, waiters, want>>

\* The callback returned or threw.
End(t) ==
    /\ pc[t] = "inside"
    /\ Release(want[t])
    /\ want' = [want EXCEPT ![t] = {}]
    /\ pc' = [pc EXCEPT ![t] = "out"]
    /\ UNCHANGED at

Next ==
    \E t \in Task :
        \/ \E S \in SUBSET Leg : Ask(t, S)
        \/ NextLock(t)
        \/ Begin(t)
        \/ End(t)

\* A section that has its locks runs and ends: its users see to that.
Fairness ==
    \A t \in Task : WF_vars(NextLock(t)) /\ WF_vars(Begin(t)) /\ WF_vars(End(t))

Spec == Init /\ [][Next]_vars /\ Fairness

-----------------------------------------------------------------------------
(* Properties.                                                             *)

Running(t) == IF pc[t] = "inside" THEN want[t] ELSE {}

Abstract == INSTANCE Sections WITH mine <- [t \in Task |-> Running(t)]

\* Sections over a common leg never overlap, however many legs they lock
\* and however a lock travels from one task to the next: withLeg and
\* withLegs give what Sections promises.
ImplementsSections == Abstract!SectionsSpec

\* Tasks that lock several legs, in whatever combinations, never all wait
\* for each other: as long as anybody is waiting, somebody is in a section
\* or has been given the lock it asked for (what sorting the keys is for).
SomebodyMoves ==
    (\E t \in Task : pc[t] = "waiting")
        => \E t \in Task : pc[t] = "inside" \/ Granted(t)

\* Every task that asked for its locks gets them, however many others keep
\* asking: waiters are served in the order they came.
NobodyStarves == \A t \in Task : pc[t] = "waiting" ~> pc[t] = "inside"

\* What the locks keep in every state: nobody is forgotten in the line of a
\* free lock (part of TypeOK), and no circle of waiting.
LocksSafe == TypeOK /\ SomebodyMoves
=============================================================================
