--------------------------- MODULE RetentionProofs ---------------------------
(***************************************************************************)
(* The invariants of Retention.tla and its refinement of Ownership.tla,    *)
(* for any set of entities and any finite set of tickets.                  *)
(*                                                                         *)
(* CountIsTicketsHeld and TimerArmedIffUnowned are inductive together;     *)
(* ExecutorEntersOnce needs to know that a cleared entity either has its   *)
(* destroyPromise or is "ended" with its executor still on the stack       *)
(* (DestroyedOnce): that is what stops the re-entrant second destroy.      *)
(*                                                                         *)
(* What is retained, a leg, hands its events to those who wait: the last   *)
(* part proves EventsSafe of LegEvents.tla, for any legs, waits and rules. *)
(***************************************************************************)
EXTENDS Retention, LegEvents, FiniteSetTheorems, SequenceTheorems, WellFoundedInduction, TLAPS

\* An entity that was not created yet is blank, and no ticket names it.
Blank ==
    \A e \in Entity : ~Created(e) =>
        /\ ~registered[e] /\ ~cleared[e] /\ ~ended[e] /\ ~promise[e]
        /\ count[e] = 0 /\ runs[e] = 0
        /\ HeldOn(e) = {}

TicketsOwned == \A t \in Ticket : released[t] => owner[t] # None

\* Clearing the retention, entering the executor and having a cause are one
\* event; until destroyPromise is assigned the entity is ended and on the
\* stack.
DestroyedOnce ==
    \A e \in Entity :
        /\ cleared[e] => runs[e] = 1
        /\ ~cleared[e] => runs[e] = 0
        /\ cleared[e] <=> cause[e] # "none"
        /\ cleared[e] => promise[e] \/ (ended[e] /\ OnStack(e))
        /\ promise[e] => cleared[e]
        /\ OnStack(e) => cleared[e]
        /\ ended[e] => cleared[e]

IInv ==
    /\ TypeOK
    /\ Blank
    /\ TicketsOwned
    /\ CountIsTicketsHeld
    /\ TimerArmedIffUnowned
    /\ DestroyedOnce

-----------------------------------------------------------------------------
LEMMA InitIInv == Init => IInv
<1> SUFFICES ASSUME Init PROVE IInv
  OBVIOUS
<1> USE RetentionAssumption
<1>1. TypeOK
  BY DEF Init, TypeOK
<1>2. \A e \in Entity : HeldOn(e) = {} /\ ~OnStack(e) /\ ~Created(e)
  BY DEF Init, HeldOn, OnStack, Created
<1>3. Blank /\ TicketsOwned /\ DestroyedOnce
  BY <1>2 DEF Init, Blank, TicketsOwned, DestroyedOnce
<1>4. CountIsTicketsHeld /\ TimerArmedIffUnowned
  BY <1>2 DEF Init, CountIsTicketsHeld, TimerArmedIffUnowned
<1> QED
  BY <1>1, <1>3, <1>4 DEF IInv

LEMMA HeldOnFinite ==
    ASSUME NEW e \in Entity
    PROVE  /\ IsFiniteSet(HeldOn(e))
           /\ Cardinality(HeldOn(e)) \in Nat
           /\ HeldOn(e) = {} <=> Cardinality(HeldOn(e)) = 0
<1>1. HeldOn(e) \subseteq Ticket
  BY DEF HeldOn
<1>2. IsFiniteSet(HeldOn(e))
  BY <1>1, RetentionAssumption, FS_Subset
<1> QED
  BY <1>2, FS_CardinalityType, FS_EmptySet

\* The counter, the generation and the timer keep their types.
LEMMA OpBeginTyped ==
    ASSUME NEW e \in Entity, OpBegin(e), count \in [Entity -> Nat],
           gen \in [Entity -> Nat], timer \in [Entity -> Nat]
    PROVE  /\ count' \in [Entity -> Nat]
           /\ gen' \in [Entity -> Nat]
           /\ timer' \in [Entity -> Nat]
<1>1. CASE cleared[e]
  BY <1>1 DEF OpBegin, counting
<1>2. CASE ~cleared[e]
  BY <1>2 DEF OpBegin
<1> QED
  BY <1>1, <1>2

LEMMA OpEndTyped ==
    ASSUME NEW e \in Entity, OpEnd(e), count \in [Entity -> Nat],
           gen \in [Entity -> Nat], timer \in [Entity -> Nat]
    PROVE  /\ count' \in [Entity -> Nat]
           /\ gen' \in [Entity -> Nat]
           /\ timer' \in [Entity -> Nat]
<1>1. CASE cleared[e]
  BY <1>1 DEF OpEnd, counting
<1>2. CASE ~cleared[e] /\ count[e] > 1
  BY <1>2 DEF OpEnd
<1>3. CASE ~cleared[e] /\ count[e] \in {0, 1}
  <2>1. /\ count' = [count EXCEPT ![e] = 0]
        /\ gen' = [gen EXCEPT ![e] = @ + 1]
        /\ timer' = [timer EXCEPT ![e] = gen[e] + 1]
    BY <1>3 DEF OpEnd
  <2> QED
    BY <2>1
<1> QED
  BY <1>1, <1>2, <1>3

LEMMA CreateStep ==
    ASSUME IInv, NEW e \in Entity, Create(e)
    PROVE  IInv'
<1> USE RetentionAssumption DEF IInv, counting, tickets, Created
<1>1. /\ ~cleared[e] /\ count[e] = 0 /\ HeldOn(e) = {}
  BY DEF Create, Blank
<1>2. /\ count' = [count EXCEPT ![e] = 0]
      /\ gen' = [gen EXCEPT ![e] = @ + 1]
      /\ timer' = [timer EXCEPT ![e] = gen[e] + 1]
  BY <1>1 DEF Create, OpEnd
<1>3. TypeOK'
  BY <1>2 DEF Create, TypeOK
<1>4. \A f \in Entity : HeldOn(f)' = HeldOn(f) /\ OnStack(f)' = OnStack(f)
  BY DEF Create, HeldOn, OnStack
<1>5. Blank'
  BY <1>2, <1>4 DEF Create, TypeOK, Blank
<1>6. TicketsOwned' /\ DestroyedOnce'
  BY <1>4 DEF Create, TicketsOwned, DestroyedOnce
<1>7. CountIsTicketsHeld'
  BY <1>1, <1>2, <1>4, FS_EmptySet DEF Create, TypeOK, CountIsTicketsHeld
<1>8. TimerArmedIffUnowned'
  BY <1>1, <1>2, <1>4 DEF Create, TypeOK, TimerArmedIffUnowned
<1> QED
  BY <1>3, <1>5, <1>6, <1>7, <1>8

LEMMA RetainStep ==
    ASSUME IInv, NEW e \in Entity, NEW t \in Ticket, Retain(e, t)
    PROVE  IInv'
<1> USE RetentionAssumption DEF IInv, counting, tickets, Created
<1>1. TypeOK'
  <2>1. /\ gen' \in [Entity -> Nat]
        /\ timer' \in [Entity -> Nat]
        /\ count' \in [Entity -> Nat]
    BY OpBeginTyped DEF Retain, TypeOK
  <2>2. owner' \in [Ticket -> Entity \cup {None}]
    BY DEF Retain, TypeOK
  <2> QED
    BY <2>1, <2>2 DEF Retain, TypeOK
<1>2. ~released[t] /\ \A f \in Entity : t \notin HeldOn(f)
  BY DEF Retain, TicketsOwned, HeldOn
<1>3. HeldOn(e)' = HeldOn(e) \cup {t}
  BY <1>2 DEF Retain, HeldOn, TypeOK
<1>4. \A f \in Entity \ {e} : HeldOn(f)' = HeldOn(f)
  BY DEF Retain, HeldOn, TypeOK
<1>5. \A f \in Entity : OnStack(f)' = OnStack(f)
  BY DEF Retain, OnStack
<1>6. gen[e] # 0
  BY DEF Retain, Blank
<1>7. Blank'
  <2> SUFFICES ASSUME NEW f \in Entity, gen'[f] = 0
               PROVE  /\ ~registered'[f] /\ ~cleared'[f] /\ ~ended'[f] /\ ~promise'[f]
                      /\ count'[f] = 0 /\ runs'[f] = 0
                      /\ HeldOn(f)' = {}
    BY DEF Blank
  <2>1. f # e /\ gen[f] = 0
    BY <1>6 DEF Retain, OpBegin, TypeOK
  <2>2. count'[f] = count[f]
    BY <2>1 DEF Retain, OpBegin, TypeOK
  <2> QED
    BY <1>4, <2>1, <2>2 DEF Retain, Blank
<1>8. TicketsOwned'
  BY DEF Retain, TypeOK, TicketsOwned
<1>9. DestroyedOnce'
  BY <1>5 DEF Retain, DestroyedOnce
<1>10. CountIsTicketsHeld'
  <2> SUFFICES ASSUME NEW f \in Entity, gen'[f] # 0, ~cleared'[f]
               PROVE  count'[f] = Cardinality(HeldOn(f)')
    BY DEF CountIsTicketsHeld, HeldOn
  <2>1. CASE f = e
    <3>1. count'[e] = Cardinality(HeldOn(e)) + 1
      BY <1>6, <2>1 DEF Retain, OpBegin, TypeOK, CountIsTicketsHeld
    <3>2. IsFiniteSet(HeldOn(e)) /\ t \notin HeldOn(e)
      BY <1>2, HeldOnFinite
    <3>3. Cardinality(HeldOn(e) \cup {t}) = Cardinality(HeldOn(e)) + 1
      BY <3>2, FS_AddElement
    <3> QED
      BY <3>1, <3>3, <2>1, <1>3
  <2>2. CASE f # e
    BY <2>2, <1>4 DEF Retain, OpBegin, TypeOK, CountIsTicketsHeld
  <2> QED
    BY <2>1, <2>2
<1>11. TimerArmedIffUnowned'
  <2>1. /\ cleared' = cleared
        /\ cleared[e] => gen' = gen /\ timer' = timer
        /\ ~cleared[e] => gen' = [gen EXCEPT ![e] = @ + 1] /\ timer' = [timer EXCEPT ![e] = 0]
    BY DEF Retain, OpBegin
  <2> SUFFICES ASSUME NEW f \in Entity
               PROVE  IF gen'[f] # 0 /\ ~cleared[f]
                      THEN /\ HeldOn(f)' = {} => timer'[f] = gen'[f]
                           /\ HeldOn(f)' # {} => timer'[f] = 0
                      ELSE timer'[f] = 0
    BY <2>1 DEF TimerArmedIffUnowned, HeldOn
  <2>2. CASE f = e
    <3>1. t \in HeldOn(f)'
      BY <1>3, <2>2
    <3>2. timer'[f] = 0
      BY <1>6, <2>1, <2>2 DEF TypeOK, TimerArmedIffUnowned
    <3> QED
      BY <3>1, <3>2
  <2>3. CASE f # e
    <3>1. gen'[f] = gen[f] /\ timer'[f] = timer[f]
      BY <2>1, <2>3 DEF TypeOK
    <3> QED
      BY <1>4, <2>3, <3>1 DEF TimerArmedIffUnowned
  <2> QED
    BY <2>2, <2>3
<1> QED
  BY <1>1, <1>7, <1>8, <1>9, <1>10, <1>11

LEMMA ReleaseStep ==
    ASSUME IInv, NEW t \in Ticket, Release(t)
    PROVE  IInv'
<1> USE RetentionAssumption DEF IInv, counting, tickets, Created
<1> DEFINE e == owner[t]
<1>1. e \in Entity
  BY DEF Release, TypeOK
<1>2. CASE released[t]
  <2>1. UNCHANGED vars
    BY <1>2 DEF Release, vars
  <2> QED
    BY <2>1 DEF vars, TypeOK, Blank, TicketsOwned, CountIsTicketsHeld,
                TimerArmedIffUnowned, DestroyedOnce, HeldOn, OnStack
<1>3. CASE ~released[t]
  <2>1. t \in HeldOn(e)
    BY <1>3 DEF HeldOn
  <2>2. HeldOn(e)' = HeldOn(e) \ {t}
    BY <1>1, <1>3 DEF Release, HeldOn, TypeOK
  <2>3. \A f \in Entity \ {e} : HeldOn(f)' = HeldOn(f)
    BY <1>3 DEF Release, HeldOn, TypeOK
  <2>4. \A f \in Entity : OnStack(f)' = OnStack(f)
    BY DEF Release, OnStack
  <2>5. gen[e] # 0
    BY <1>1, <2>1 DEF Blank
  <2>6. TypeOK'
    <3>1. /\ gen' \in [Entity -> Nat]
          /\ timer' \in [Entity -> Nat]
          /\ count' \in [Entity -> Nat]
      BY <1>1, <1>3, OpEndTyped DEF Release, TypeOK
    <3>2. released' \in [Ticket -> BOOLEAN]
      BY <1>3 DEF Release, TypeOK
    <3> QED
      BY <3>1, <3>2 DEF Release, TypeOK
  <2>7. Blank'
    <3> SUFFICES ASSUME NEW f \in Entity, gen'[f] = 0
                 PROVE  /\ ~registered'[f] /\ ~cleared'[f] /\ ~ended'[f] /\ ~promise'[f]
                        /\ count'[f] = 0 /\ runs'[f] = 0
                        /\ HeldOn(f)' = {}
      BY DEF Blank
    <3>1. f # e /\ gen[f] = 0
      BY <1>1, <1>3, <2>5 DEF Release, OpEnd, TypeOK
    <3>2. count'[f] = count[f]
      BY <1>1, <1>3, <3>1 DEF Release, OpEnd, TypeOK
    <3> QED
      BY <2>3, <3>1, <3>2 DEF Release, Blank
  <2>8. TicketsOwned'
    BY <1>1, <1>3 DEF Release, TypeOK, TicketsOwned
  <2>9. DestroyedOnce'
    BY <2>4 DEF Release, DestroyedOnce
  <2>10. Cardinality(HeldOn(e)') = Cardinality(HeldOn(e)) - 1
    BY <1>1, <2>1, <2>2, HeldOnFinite, FS_RemoveElement
  <2>11. ~cleared[e] => count[e] = Cardinality(HeldOn(e)) /\ count[e] > 0
    BY <1>1, <2>1, <2>5, HeldOnFinite DEF CountIsTicketsHeld, TypeOK
  <2>12. CountIsTicketsHeld'
    <3> SUFFICES ASSUME NEW f \in Entity, gen'[f] # 0, ~cleared'[f]
                 PROVE  count'[f] = Cardinality(HeldOn(f)')
      BY DEF CountIsTicketsHeld, HeldOn
    <3>1. CASE f = e
      BY <3>1, <1>3, <2>10, <2>11 DEF Release, OpEnd, TypeOK
    <3>2. CASE f # e
      BY <3>2, <1>1, <1>3, <2>3 DEF Release, OpEnd, TypeOK, CountIsTicketsHeld
    <3> QED
      BY <3>1, <3>2
  <2>13. HeldOn(e)' = {} <=> Cardinality(HeldOn(e)') = 0
    BY <1>1, <2>2, HeldOnFinite, FS_RemoveElement, FS_EmptySet
  <2>14. TimerArmedIffUnowned'
    <3> SUFFICES ASSUME NEW f \in Entity
                 PROVE  IF gen'[f] # 0 /\ ~cleared'[f]
                        THEN /\ HeldOn(f)' = {} => timer'[f] = gen'[f]
                             /\ HeldOn(f)' # {} => timer'[f] = 0
                        ELSE timer'[f] = 0
      BY DEF TimerArmedIffUnowned, HeldOn
    <3>1. CASE f = e /\ cleared[e]
      BY <3>1, <1>1, <1>3 DEF Release, OpEnd, TypeOK, TimerArmedIffUnowned
    <3>2. CASE f = e /\ ~cleared[e] /\ count[e] = 1
      BY <3>2, <1>1, <1>3, <2>10, <2>11, <2>13 DEF Release, OpEnd, TypeOK
    <3>3. CASE f = e /\ ~cleared[e] /\ count[e] # 1
      <4>1. HeldOn(e)' # {} /\ HeldOn(e) # {}
        BY <3>3, <1>1, <2>1, <2>10, <2>11, <2>13 DEF TypeOK
      <4>2. timer' = timer
        BY <3>3, <1>1, <1>3, <2>11 DEF Release, OpEnd, TypeOK
      <4> QED
        BY <3>3, <4>1, <4>2, <1>1, <2>5 DEF Release, TimerArmedIffUnowned
    <3>4. CASE f # e
      BY <3>4, <1>1, <1>3, <2>3 DEF Release, OpEnd, TypeOK, TimerArmedIffUnowned
    <3> QED
      BY <3>1, <3>2, <3>3, <3>4
  <2> QED
    BY <2>6, <2>7, <2>8, <2>9, <2>12, <2>14
<1> QED
  BY <1>2, <1>3

\* Entering the executor pushes it, returning pops it.
LEMMA PushPop ==
    ASSUME stack \in Seq(Entity)
    PROVE  /\ \A e \in Entity : stack' = Append(stack, e) =>
                /\ stack' \in Seq(Entity)
                /\ \A f \in Entity : OnStack(f)' <=> OnStack(f) \/ f = e
           /\ stack # <<>> /\ stack' = SubSeq(stack, 1, Len(stack) - 1) =>
                /\ stack[Len(stack)] \in Entity
                /\ stack' \in Seq(Entity)
                /\ \A f \in Entity : OnStack(f)' => OnStack(f)
                /\ \A f \in Entity : OnStack(f) /\ f # stack[Len(stack)] => OnStack(f)'
<1>1. ASSUME NEW e \in Entity, stack' = Append(stack, e)
      PROVE  /\ stack' \in Seq(Entity)
             /\ \A f \in Entity : OnStack(f)' <=> OnStack(f) \/ f = e
  BY <1>1 DEF OnStack
<1>2. ASSUME stack # <<>>, stack' = SubSeq(stack, 1, Len(stack) - 1)
      PROVE  /\ stack[Len(stack)] \in Entity
             /\ stack' \in Seq(Entity)
             /\ Len(stack') = Len(stack) - 1
             /\ \A i \in 1..Len(stack) - 1 : stack'[i] = stack[i]
  <2> DEFINE n == Len(stack)
  <2>1. n \in Nat /\ n >= 1 /\ \A i \in 1..n : stack[i] \in Entity
    BY <1>2
  <2> HIDE DEF n
  <2>2. /\ SubSeq(stack, 1, n - 1) \in Seq(Entity)
        /\ Len(SubSeq(stack, 1, n - 1)) = n - 1
        /\ \A i \in 1..n - 1 : SubSeq(stack, 1, n - 1)[i] = stack[i]
    BY <2>1, SubSeqProperties
  <2> QED
    BY <1>2, <2>1, <2>2 DEF n
<1>3. ASSUME stack # <<>>, stack' = SubSeq(stack, 1, Len(stack) - 1), NEW f \in Entity
      PROVE  /\ OnStack(f)' => OnStack(f)
             /\ OnStack(f) /\ f # stack[Len(stack)] => OnStack(f)'
  <2>1. OnStack(f)' => OnStack(f)
    BY <1>2, <1>3 DEF OnStack
  <2>2. ASSUME OnStack(f), f # stack[Len(stack)]
        PROVE  OnStack(f)'
    <3>1. PICK i \in 1..Len(stack) : stack[i] = f
      BY <2>2 DEF OnStack
    <3>2. i \in 1..Len(stack')
      BY <1>2, <1>3, <2>2, <3>1
    <3> QED
      BY <1>2, <1>3, <3>1, <3>2 DEF OnStack
  <2> QED
    BY <2>1, <2>2
<1> QED
  BY <1>1, <1>2, <1>3

\* Destroying an entity that is not already inside its executor.
LEMMA DestroyStep ==
    ASSUME IInv, NEW e \in Entity, NEW why \in {"asked", "free_ttl"},
           Created(e), cleared[e] => promise[e], RunDestroyOnce(e, why),
           UNCHANGED <<registered, owner, released, promise>>
    PROVE  IInv'
<1>0. /\ TypeOK /\ Blank /\ TicketsOwned
      /\ CountIsTicketsHeld /\ TimerArmedIffUnowned /\ DestroyedOnce
  BY DEF IInv
<1>1. \A f \in Entity : HeldOn(f)' = HeldOn(f)
  BY DEF HeldOn
<1>2. /\ cleared' = [cleared EXCEPT ![e] = TRUE]
      /\ gen' = [gen EXCEPT ![e] = @ + 1]
      /\ count' = [count EXCEPT ![e] = 0]
      /\ timer' = [timer EXCEPT ![e] = 0]
  BY DEF RunDestroyOnce, ClearRetention
<1>3. /\ cleared' \in [Entity -> BOOLEAN]
      /\ gen' \in [Entity -> Nat]
      /\ count' \in [Entity -> Nat]
      /\ timer' \in [Entity -> Nat]
  BY <1>0, <1>2 DEF TypeOK
<1>4. \A f \in Entity \ {e} : /\ cleared'[f] = cleared[f] /\ gen'[f] = gen[f]
                              /\ count'[f] = count[f] /\ timer'[f] = timer[f]
  BY <1>0, <1>2 DEF TypeOK
<1>5. cleared'[e] /\ gen'[e] # 0 /\ timer'[e] = 0
  BY <1>0, <1>2 DEF TypeOK
<1>6. CASE promise[e]
  <2>1. UNCHANGED <<stack, runs, ended, cause>>
    BY <1>6 DEF RunDestroyOnce
  <2>2. \A f \in Entity : OnStack(f)' = OnStack(f)
    BY <2>1 DEF OnStack
  <2>3. TypeOK'
    BY <1>0, <1>3, <2>1 DEF TypeOK
  <2>4. Blank' /\ TicketsOwned'
    BY <1>0, <1>1, <1>4, <1>5, <2>1 DEF Blank, TicketsOwned, Created
  <2>5. CountIsTicketsHeld' /\ TimerArmedIffUnowned'
    BY <1>0, <1>1, <1>4, <1>5 DEF CountIsTicketsHeld, TimerArmedIffUnowned, Created
  <2>6. cleared[e]
    BY <1>0, <1>6 DEF DestroyedOnce
  <2>7. DestroyedOnce'
    BY <1>0, <1>4, <1>5, <1>6, <2>1, <2>2, <2>6 DEF DestroyedOnce
  <2> QED
    BY <2>3, <2>4, <2>5, <2>7 DEF IInv
<1>7. CASE ~promise[e]
  <2>1. /\ stack' = Append(stack, e)
        /\ runs' = [runs EXCEPT ![e] = @ + 1]
        /\ ended' = [ended EXCEPT ![e] = TRUE]
        /\ cause' = [cause EXCEPT ![e] = IF @ = "none" THEN why ELSE @]
    BY <1>7 DEF RunDestroyOnce, EnterExecutor
  <2>2. ~cleared[e] /\ runs[e] = 0 /\ cause[e] = "none"
    BY <1>0, <1>7 DEF DestroyedOnce
  <2>3. /\ stack' \in Seq(Entity)
        /\ \A f \in Entity : OnStack(f)' <=> OnStack(f) \/ f = e
    BY <1>0, <2>1, PushPop DEF TypeOK
  <2>4. runs' \in [Entity -> Nat] /\ runs'[e] = 1
    BY <1>0, <2>1, <2>2 DEF TypeOK
  <2>5. TypeOK'
    BY <1>0, <1>3, <2>1, <2>3, <2>4 DEF TypeOK
  <2>6. \A f \in Entity \ {e} : /\ runs'[f] = runs[f] /\ ended'[f] = ended[f]
                                /\ cause'[f] = cause[f]
    BY <1>0, <2>1 DEF TypeOK
  <2>7. ended'[e] /\ cause'[e] = why
    BY <1>0, <2>1, <2>2 DEF TypeOK
  <2>8. Blank' /\ TicketsOwned'
    BY <1>0, <1>1, <1>4, <1>5, <2>6 DEF Blank, TicketsOwned, Created
  <2>9. CountIsTicketsHeld' /\ TimerArmedIffUnowned'
    BY <1>0, <1>1, <1>4, <1>5 DEF CountIsTicketsHeld, TimerArmedIffUnowned, Created
  <2>10. DestroyedOnce'
    BY <1>0, <1>4, <1>5, <1>7, <2>2, <2>3, <2>4, <2>6, <2>7 DEF DestroyedOnce
  <2> QED
    BY <2>5, <2>8, <2>9, <2>10 DEF IInv
<1> QED
  BY <1>6, <1>7

LEMMA HangupStep ==
    ASSUME IInv, NEW e \in Entity, Hangup(e)
    PROVE  IInv'
<1>1. Created(e) /\ (cleared[e] => promise[e])
  BY DEF IInv, Hangup, Blank, DestroyedOnce
<1>2. UNCHANGED <<registered, owner, released, promise>>
  BY DEF Hangup, tickets
<1> QED
  BY <1>1, <1>2, DestroyStep DEF Hangup

LEMMA TimerStep ==
    ASSUME IInv, NEW e \in Entity, TimerFires(e)
    PROVE  /\ IInv'
           /\ HeldOn(e) = {} /\ ~cleared[e] /\ RunDestroyOnce(e, "free_ttl")
<1>1. Created(e) /\ ~cleared[e] /\ HeldOn(e) = {} /\ timer[e] = gen[e]
  BY DEF IInv, TimerFires, TimerArmedIffUnowned
<1>2. UNCHANGED <<registered, owner, released, promise>>
  BY DEF TimerFires, tickets
<1>3. RunDestroyOnce(e, "free_ttl")
  BY <1>1 DEF TimerFires
<1> QED
  BY <1>1, <1>2, <1>3, DestroyStep

LEMMA ReturnStep ==
    ASSUME IInv, ExecutorReturns
    PROVE  IInv'
<1>0. /\ TypeOK /\ Blank /\ TicketsOwned
      /\ CountIsTicketsHeld /\ TimerArmedIffUnowned /\ DestroyedOnce
  BY DEF IInv
<1> DEFINE e == stack[Len(stack)]
<1>1. /\ e \in Entity
      /\ stack' \in Seq(Entity)
      /\ \A f \in Entity : OnStack(f)' => OnStack(f)
      /\ \A f \in Entity : OnStack(f) /\ f # e => OnStack(f)'
  BY <1>0, PushPop DEF ExecutorReturns, TypeOK
<1>2. OnStack(e)
  BY <1>0 DEF ExecutorReturns, TypeOK, OnStack
<1>3. promise' = [promise EXCEPT ![e] = TRUE]
      /\ registered' = [registered EXCEPT ![e] = @ /\ e \in Async]
  BY DEF ExecutorReturns
<1>4. UNCHANGED <<gen, timer, count, cleared, owner, released, ended, runs, cause>>
  BY DEF ExecutorReturns, counting, tickets
<1> HIDE DEF e
<1>5. TypeOK'
  BY <1>0, <1>1, <1>3, <1>4 DEF TypeOK
<1>6. \A f \in Entity : HeldOn(f)' = HeldOn(f) /\ Created(f)' = Created(f)
  BY <1>4 DEF HeldOn, Created
<1>7. cleared[e] /\ Created(e)
  BY <1>0, <1>1, <1>2 DEF DestroyedOnce, Blank
<1>8. /\ promise'[e]
      /\ \A f \in Entity \ {e} : promise'[f] = promise[f] /\ registered'[f] = registered[f]
  BY <1>0, <1>1, <1>3 DEF TypeOK
<1>9. Blank' /\ TicketsOwned'
  BY <1>0, <1>4, <1>6, <1>7, <1>8 DEF Blank, TicketsOwned, Created
<1>10. CountIsTicketsHeld' /\ TimerArmedIffUnowned'
  BY <1>0, <1>4, <1>6 DEF CountIsTicketsHeld, TimerArmedIffUnowned, Created
<1>11. DestroyedOnce'
  BY <1>0, <1>1, <1>4, <1>7, <1>8 DEF DestroyedOnce
<1> QED
  BY <1>5, <1>9, <1>10, <1>11 DEF IInv

LEMMA DetachStep ==
    ASSUME IInv, NEW e \in Entity, DetachLater(e)
    PROVE  IInv'
<1>1. TypeOK'
  BY DEF IInv, DetachLater, TypeOK, counting, tickets
<1>2. \A f \in Entity : HeldOn(f)' = HeldOn(f) /\ OnStack(f)' = OnStack(f)
  BY DEF DetachLater, HeldOn, OnStack, tickets
<1>3. \A f \in Entity : registered'[f] => registered[f]
  BY DEF IInv, TypeOK, DetachLater
<1> QED
  BY <1>1, <1>2, <1>3 DEF IInv, DetachLater, counting, tickets, Blank, TicketsOwned,
     CountIsTicketsHeld, TimerArmedIffUnowned, DestroyedOnce, Created

LEMMA OverwrittenStep ==
    ASSUME IInv, NEW e \in Entity, StatusOverwritten(e)
    PROVE  IInv'
<1>1. TypeOK'
  BY DEF IInv, StatusOverwritten, TypeOK, counting, tickets
<1>2. \A f \in Entity : HeldOn(f)' = HeldOn(f) /\ OnStack(f)' = OnStack(f)
  BY DEF StatusOverwritten, HeldOn, OnStack, tickets
<1>3. \A f \in Entity : /\ ~OnStack(f)
                        /\ ended'[f] => ended[f]
  BY DEF IInv, TypeOK, StatusOverwritten, OnStack
<1> QED
  BY <1>1, <1>2, <1>3 DEF IInv, StatusOverwritten, counting, tickets, Blank, TicketsOwned,
     CountIsTicketsHeld, TimerArmedIffUnowned, DestroyedOnce, Created

LEMMA NextIInv == IInv /\ [Next]_vars => IInv'
<1> SUFFICES ASSUME IInv, [Next]_vars PROVE IInv'
  OBVIOUS
<1>1. CASE UNCHANGED vars
  BY <1>1 DEF vars, IInv, TypeOK, Blank, TicketsOwned, CountIsTicketsHeld,
              TimerArmedIffUnowned, DestroyedOnce, HeldOn, OnStack, Created
<1>2. CASE Next
  BY <1>2, CreateStep, RetainStep, ReleaseStep, HangupStep, TimerStep, ReturnStep,
     DetachStep, OverwrittenStep DEF Next
<1> QED
  BY <1>1, <1>2

\* The five facts of IInv hold in every reachable state.
THEOREM Invariance == Spec => []IInv
<1>1. Init => IInv
  BY InitIInv
<1>2. IInv /\ [Next]_vars => IInv'
  BY NextIInv
<1> QED
  BY <1>1, <1>2, PTL DEF Spec

\* The variables keep their types.
THEOREM TypeCorrect == Spec => []TypeOK
<1>1. IInv => TypeOK
  BY DEF IInv
<1> QED
  BY <1>1, Invariance, PTL

\* activeOperationCount (operation-retainer.ts:37) counts the tickets held.
THEOREM CountCorrect == Spec => []CountIsTicketsHeld
<1>1. IInv => CountIsTicketsHeld
  BY DEF IInv
<1> QED
  BY <1>1, Invariance, PTL

\* The free-TTL timer is armed exactly while a live entity has no owner.
THEOREM TimerCorrect == Spec => []TimerArmedIffUnowned
<1>1. IInv => TimerArmedIffUnowned
  BY DEF IInv
<1> QED
  BY <1>1, Invariance, PTL

\* The destroy executor of an entity is entered at most once.
THEOREM DestroyOnce == Spec => []ExecutorEntersOnce
<1>1. IInv => ExecutorEntersOnce
  BY DEF IInv, DestroyedOnce, ExecutorEntersOnce
<1> QED
  BY <1>1, Invariance, PTL

\* Counter, timer and single destruction together: operation-retainer.ts and
\* eventful-destroyable.ts keep what retention is for.
THEOREM RetentionCorrect == Spec => []RetentionSafe
<1>1. TypeOK /\ CountIsTicketsHeld /\ TimerArmedIffUnowned /\ ExecutorEntersOnce
        => RetentionSafe
  BY DEF RetentionSafe
<1> QED
  BY <1>1, TypeCorrect, CountCorrect, TimerCorrect, DestroyOnce, PTL

-----------------------------------------------------------------------------
(* The refinement of Ownership.tla, its safety part: every step of the     *)
(* code is a step of the abstract specification or leaves it unchanged.    *)

\* Only a destroyed entity leaves its registry.
Listed == \A e \in Entity : Created(e) /\ ~cleared[e] => registered[e]

LEMMA ListedInit == Init => Listed
BY DEF Init, Listed, Created

LEMMA ListedStep == IInv /\ Listed /\ [Next]_vars => Listed'
<1> SUFFICES ASSUME IInv, Listed, [Next]_vars PROVE Listed'
  OBVIOUS
<1>0. TypeOK /\ Blank /\ DestroyedOnce
  BY DEF IInv
<1>1. ASSUME NEW e \in Entity, Create(e) PROVE Listed'
  <2>1. registered' = [registered EXCEPT ![e] = TRUE] /\ UNCHANGED cleared
    BY <1>1 DEF Create
  <2>2. \A f \in Entity \ {e} : Created(f)' = Created(f)
    BY <1>0, <1>1 DEF Create, OpEnd, counting, Created, TypeOK
  <2> QED
    BY <1>0, <2>1, <2>2 DEF Listed, TypeOK
<1>2. ASSUME NEW e \in Entity, NEW t \in Ticket, Retain(e, t) PROVE Listed'
  BY <1>0, <1>2 DEF Retain, OpBegin, counting, Created, TypeOK, Listed
<1>3. ASSUME NEW t \in Ticket, Release(t) PROVE Listed'
  <2>1. UNCHANGED <<registered, cleared>>
    BY <1>3 DEF Release
  <2>2. CASE released[t]
    BY <1>3, <2>1, <2>2 DEF Release, counting, Created, Listed
  <2>3. CASE ~released[t]
    <3>1. owner[t] \in Entity /\ OpEnd(owner[t]) /\ t \in HeldOn(owner[t])
      BY <1>0, <1>3, <2>3 DEF Release, TypeOK, HeldOn
    <3>2. Created(owner[t])
      BY <1>0, <3>1 DEF Blank
    <3>3. \A f \in Entity : Created(f)' => Created(f)
      BY <1>0, <3>1, <3>2 DEF OpEnd, counting, Created, TypeOK
    <3> QED
      BY <2>1, <3>3 DEF Listed
  <2> QED
    BY <2>2, <2>3
<1>4. ASSUME NEW e \in Entity, NEW why, RunDestroyOnce(e, why), UNCHANGED registered
      PROVE  Listed'
  <2>1. /\ cleared' = [cleared EXCEPT ![e] = TRUE]
        /\ gen' = [gen EXCEPT ![e] = @ + 1]
    BY <1>4 DEF RunDestroyOnce, ClearRetention
  <2>2. cleared'[e] /\ \A f \in Entity \ {e} : gen'[f] = gen[f] /\ cleared'[f] = cleared[f]
    BY <1>0, <2>1 DEF TypeOK
  <2> QED
    BY <1>4, <2>2 DEF Listed, Created
<1>5. ASSUME NEW e \in Entity, Hangup(e) PROVE Listed'
  BY <1>4, <1>5 DEF Hangup
<1>6. ASSUME NEW e \in Entity, TimerFires(e) PROVE Listed'
  <2>1. RunDestroyOnce(e, "free_ttl") /\ UNCHANGED registered
    BY <1>6, TimerStep DEF TimerFires
  <2> QED
    BY <1>4, <2>1
<1>8. ASSUME ExecutorReturns PROVE Listed'
  <2> DEFINE e == stack[Len(stack)]
  <2>1. e \in Entity /\ OnStack(e)
    BY <1>0, <1>8 DEF ExecutorReturns, TypeOK, OnStack
  <2>2. registered' = [registered EXCEPT ![e] = @ /\ e \in Async]
    BY <1>8 DEF ExecutorReturns
  <2>3. \A f \in Entity \ {e} : registered'[f] = registered[f]
    BY <1>0, <2>1, <2>2 DEF TypeOK
  <2> QED
    BY <1>0, <1>8, <2>1, <2>3 DEF ExecutorReturns, counting, Listed, Created, DestroyedOnce
<1>9. ASSUME NEW e \in Entity, DetachLater(e) PROVE Listed'
  BY <1>0, <1>9 DEF DetachLater, counting, Listed, Created, DestroyedOnce, TypeOK
<1>10. ASSUME NEW e \in Entity, StatusOverwritten(e) PROVE Listed'
  BY <1>10 DEF StatusOverwritten, counting, Listed, Created
<1>11. CASE UNCHANGED vars
  BY <1>11 DEF vars, Listed, Created
<1> QED
  BY <1>1, <1>2, <1>3, <1>5, <1>6, <1>8, <1>9, <1>10, <1>11 DEF Next

LEMMA RefinementInit == Init => O!OwnershipInit
<1> SUFFICES ASSUME Init PROVE O!OwnershipInit
  OBVIOUS
<1>1. \A e \in Entity : LifeOf(e) = "unborn" /\ HoldersOf(e) = {}
  BY RetentionAssumption DEF Init, LifeOf, HoldersOf, HeldOn, Created
<1> QED
  BY <1>1 DEF Init, O!OwnershipInit

\* A destroy whose executor starts ends the abstract entity; a repeated one
\* is not visible.
LEMMA DestroyRefines ==
    ASSUME IInv, NEW e \in Entity, NEW why \in {"asked", "free_ttl"},
           registered[e], cleared[e] => promise[e], RunDestroyOnce(e, why),
           UNCHANGED <<registered, owner, released, promise>>
    PROVE  O!End(e, why) \/ UNCHANGED O!ownershipVars
<1>0. TypeOK /\ Created(e) /\ (promise[e] <=> cleared[e]) /\ (cleared[e] <=> cause[e] # "none")
  BY DEF IInv, Blank, DestroyedOnce
<1>1. \A f \in Entity : HeldOn(f)' = HeldOn(f) /\ Created(f)' = Created(f)
  BY <1>0 DEF HeldOn, Created, RunDestroyOnce, ClearRetention, TypeOK
<1>2. CASE promise[e]
  <2>1. UNCHANGED <<registered, cause>>
    BY <1>2 DEF RunDestroyOnce
  <2>2. \A f \in Entity : LifeOf(f)' = LifeOf(f) /\ HoldersOf(f)' = HoldersOf(f)
    BY <1>1, <2>1 DEF LifeOf, HoldersOf
  <2> QED
    BY <2>1, <2>2 DEF O!ownershipVars
<1>3. CASE ~promise[e]
  <2>1. cause' = [cause EXCEPT ![e] = why] /\ cause[e] = "none"
    BY <1>0, <1>3 DEF RunDestroyOnce, EnterExecutor
  <2>2. cause'[e] = why /\ \A f \in Entity \ {e} : cause'[f] = cause[f]
    BY <1>0, <2>1 DEF TypeOK
  <2>3. \A f \in Entity \ {e} : LifeOf(f)' = LifeOf(f) /\ HoldersOf(f)' = HoldersOf(f)
    BY <1>1, <2>2 DEF LifeOf, HoldersOf
  <2>4. /\ LifeOf(e) = "live" /\ LifeOf(e)' = "ending"
        /\ HoldersOf(e)' = {}
    BY <1>0, <1>1, <2>1, <2>2 DEF LifeOf, HoldersOf
  <2> QED
    BY <2>1, <2>3, <2>4 DEF O!End
<1> QED
  BY <1>2, <1>3

LEMMA RefinementStep ==
    IInv /\ Listed /\ [Next]_vars => [O!OwnershipNext]_(O!ownershipVars)
<1> SUFFICES ASSUME IInv, Listed, [Next]_vars
             PROVE  O!OwnershipNext \/ UNCHANGED O!ownershipVars
  OBVIOUS
<1>0. TypeOK /\ Blank /\ TicketsOwned /\ DestroyedOnce
  BY DEF IInv
<1>1. ASSUME NEW e \in Entity, Create(e) PROVE O!Appear(e)
  <2>1. /\ ~Created(e) /\ registered'[e] /\ cause[e] = "none"
        /\ UNCHANGED <<cause, owner, released>>
        /\ \A f \in Entity \ {e} : registered'[f] = registered[f]
    BY <1>0, <1>1 DEF Create, tickets, TypeOK, Blank, DestroyedOnce
  <2>2. Created(e)' /\ \A f \in Entity \ {e} : Created(f)' = Created(f)
    BY <1>0, <1>1 DEF Create, OpEnd, Created, TypeOK, Blank
  <2>3. \A f \in Entity : HeldOn(f)' = HeldOn(f)
    BY <2>1 DEF HeldOn
  <2> QED
    BY <2>1, <2>2, <2>3 DEF O!Appear, LifeOf, HoldersOf
<1>2. ASSUME NEW e \in Entity, NEW t \in Ticket, Retain(e, t)
      PROVE  O!Acquire(e, t) \/ UNCHANGED O!ownershipVars
  <2>1. /\ registered[e] /\ owner[t] = None
        /\ owner' = [owner EXCEPT ![t] = e] /\ ~released[t]
        /\ UNCHANGED <<registered, released, cause>>
    BY <1>0, <1>2 DEF Retain, TicketsOwned
  <2>2. Created(e) /\ \A f \in Entity : Created(f)' = Created(f)
    BY <1>0, <1>2, <2>1 DEF Retain, OpBegin, counting, Created, TypeOK, Blank
  <2>3. /\ HeldOn(e)' = HeldOn(e) \cup {t}
        /\ \A f \in Entity \ {e} : HeldOn(f)' = HeldOn(f)
        /\ \A f \in Entity : t \notin HeldOn(f)
    BY <1>0, <2>1, RetentionAssumption DEF HeldOn, TypeOK
  <2>4. \A f \in Entity : LifeOf(f)' = LifeOf(f)
    BY <2>1, <2>2 DEF LifeOf
  <2>5. CASE cause[e] = "none"
    <3>1. /\ HoldersOf(e)' = HoldersOf(e) \cup {t}
          /\ \A f \in Entity \ {e} : HoldersOf(f)' = HoldersOf(f)
          /\ \A f \in Entity : t \notin HoldersOf(f)
      BY <2>1, <2>3, <2>5 DEF HoldersOf
    <3>2. LifeOf(e) = "live"
      BY <2>1, <2>2, <2>5 DEF LifeOf
    <3> QED
      BY <2>1, <2>4, <3>1, <3>2 DEF O!Acquire
  <2>6. CASE cause[e] # "none"
    <3>1. \A f \in Entity : HoldersOf(f)' = HoldersOf(f)
      BY <2>1, <2>3, <2>6 DEF HoldersOf
    <3> QED
      BY <2>1, <2>4, <3>1 DEF O!ownershipVars
  <2> QED
    BY <2>5, <2>6
<1>3. ASSUME NEW t \in Ticket, Release(t)
      PROVE  (\E e \in Entity : O!Drop(e, t)) \/ UNCHANGED O!ownershipVars
  <2> DEFINE e == owner[t]
  <2>1. e \in Entity /\ UNCHANGED <<registered, owner, cause>>
    BY <1>0, <1>3 DEF Release, TypeOK
  <2>2. released[t] => UNCHANGED released
    BY <1>3 DEF Release
  <2>3. ~released[t] => /\ released' = [released EXCEPT ![t] = TRUE]
                        /\ OpEnd(e)
    BY <1>3 DEF Release
  <2>4. ~released[t] => Created(e)
    BY <1>0, <2>1 DEF Blank, HeldOn
  <2>5. \A f \in Entity : Created(f)' = Created(f)
    <3>1. CASE released[t]
      BY <1>3, <3>1 DEF Release, counting, Created
    <3>2. CASE ~released[t]
      BY <1>0, <2>1, <2>3, <2>4, <3>2 DEF OpEnd, counting, Created, TypeOK
    <3> QED
      BY <3>1, <3>2
  <2>6. \A f \in Entity : LifeOf(f)' = LifeOf(f)
    BY <2>1, <2>5 DEF LifeOf
  <2>7. CASE released[t] \/ cause[e] # "none"
    <3>1. \A f \in Entity : HoldersOf(f)' = HoldersOf(f)
      <4>1. CASE released[t]
        BY <2>1, <2>2, <4>1 DEF HoldersOf, HeldOn
      <4>2. CASE ~released[t]
        <5>1. cause[e] # "none" /\ released' = [released EXCEPT ![t] = TRUE]
          BY <2>3, <2>7, <4>2
        <5>2. \A s \in Ticket \ {t} : released'[s] = released[s]
          BY <5>1
        <5>3. \A f \in Entity \ {e} : HeldOn(f)' = HeldOn(f)
          BY <2>1, <5>2 DEF HeldOn
        <5>4. QED
          BY <2>1, <5>1, <5>3 DEF HoldersOf
      <4> QED
        BY <4>1, <4>2
    <3> QED
      BY <2>1, <2>6, <3>1 DEF O!ownershipVars
  <2>8. CASE ~released[t] /\ cause[e] = "none"
    <3>1. /\ t \in HoldersOf(e)
          /\ HoldersOf(e)' = HoldersOf(e) \ {t}
          /\ \A f \in Entity \ {e} : HoldersOf(f)' = HoldersOf(f)
      BY <1>0, <2>1, <2>3, <2>8 DEF HoldersOf, HeldOn, TypeOK
    <3>2. O!Drop(e, t)
      BY <2>1, <2>6, <3>1 DEF O!Drop
    <3> QED
      BY <2>1, <3>2
  <2> QED
    BY <2>7, <2>8
<1>4. ASSUME NEW e \in Entity, Hangup(e)
      PROVE  O!Asked(e) \/ UNCHANGED O!ownershipVars
  <2>1. /\ registered[e] /\ (cleared[e] => promise[e])
        /\ RunDestroyOnce(e, "asked")
        /\ UNCHANGED <<registered, owner, released, promise>>
    BY <1>0, <1>4 DEF Hangup, DestroyedOnce, tickets
  <2> QED
    BY <2>1, DestroyRefines DEF O!Asked
<1>5. ASSUME NEW e \in Entity, TimerFires(e)
      PROVE  O!Reap(e) \/ UNCHANGED O!ownershipVars
  <2>1. /\ HeldOn(e) = {} /\ ~cleared[e] /\ RunDestroyOnce(e, "free_ttl")
        /\ UNCHANGED <<registered, owner, released, promise>>
    BY <1>5, TimerStep DEF TimerFires, tickets
  <2>2. registered[e]
    BY <1>0, <1>5, <2>1 DEF Listed, Created, TimerFires, TimerArmedIffUnowned, IInv
  <2>3. O!End(e, "free_ttl") \/ UNCHANGED O!ownershipVars
    BY <2>1, <2>2, DestroyRefines
  <2>4. HoldersOf(e) = {}
    BY <2>1 DEF HoldersOf
  <2> QED
    BY <2>3, <2>4 DEF O!Reap
<1>6. ASSUME ExecutorReturns
      PROVE  (\E e \in Entity : O!Leave(e)) \/ UNCHANGED O!ownershipVars
  <2>1. PICK e \in Entity : e = stack[Len(stack)] /\ OnStack(e)
    BY <1>0, <1>6 DEF ExecutorReturns, TypeOK, OnStack
  <2>2. Created(e) /\ cause[e] # "none"
    BY <1>0, <2>1 DEF DestroyedOnce, Blank
  <2>3. /\ registered' = [registered EXCEPT ![e] = @ /\ e \in Async]
        /\ UNCHANGED <<gen, owner, released, cause>>
    BY <1>6, <2>1 DEF ExecutorReturns, counting, tickets
  <2>4. /\ registered'[e] <=> registered[e] /\ e \in Async
        /\ \A f \in Entity \ {e} : registered'[f] = registered[f]
    BY <1>0, <2>3 DEF TypeOK
  <2>5. \A f \in Entity : HoldersOf(f)' = HoldersOf(f) /\ Created(f)' = Created(f)
    BY <2>3 DEF HoldersOf, HeldOn, Created
  <2>6. \A f \in Entity \ {e} : LifeOf(f)' = LifeOf(f)
    BY <2>3, <2>4, <2>5 DEF LifeOf
  <2>7. CASE registered[e] /\ e \notin Async
    <3>1. LifeOf(e) = "ending" /\ LifeOf(e)' = "gone"
      BY <2>2, <2>4, <2>5, <2>7 DEF LifeOf
    <3> QED
      BY <2>3, <2>5, <2>6, <3>1 DEF O!Leave
  <2>8. CASE ~(registered[e] /\ e \notin Async)
    <3>1. registered'[e] <=> registered[e]
      BY <2>4, <2>8
    <3>2. LifeOf(e)' = LifeOf(e)
      BY <2>3, <2>5, <3>1 DEF LifeOf
    <3> QED
      BY <2>3, <2>5, <2>6, <3>2 DEF O!ownershipVars
  <2> QED
    BY <2>7, <2>8
<1>7. ASSUME NEW e \in Entity, DetachLater(e) PROVE O!Leave(e)
  <2>1. /\ registered[e] /\ cause[e] # "none" /\ Created(e)
        /\ registered' = [registered EXCEPT ![e] = FALSE]
        /\ UNCHANGED <<gen, owner, released, cause>>
    BY <1>0, <1>7 DEF DetachLater, counting, tickets, DestroyedOnce, Blank
  <2>2. \A f \in Entity : HoldersOf(f)' = HoldersOf(f) /\ Created(f)' = Created(f)
    BY <2>1 DEF HoldersOf, HeldOn, Created
  <2>3. \A f \in Entity \ {e} : LifeOf(f)' = LifeOf(f)
    BY <1>0, <2>1, <2>2 DEF LifeOf, TypeOK
  <2>4. LifeOf(e) = "ending" /\ LifeOf(e)' = "gone"
    BY <1>0, <2>1, <2>2 DEF LifeOf, TypeOK
  <2> QED
    BY <2>1, <2>2, <2>3, <2>4 DEF O!Leave
<1>8. ASSUME \/ UNCHANGED vars
             \/ \E e \in Entity : StatusOverwritten(e)
      PROVE  UNCHANGED O!ownershipVars
  <2>1. UNCHANGED <<registered, gen, owner, released, cause>>
    BY <1>8 DEF vars, StatusOverwritten, counting, tickets
  <2>2. \A f \in Entity : HoldersOf(f)' = HoldersOf(f) /\ LifeOf(f)' = LifeOf(f)
    BY <2>1 DEF HoldersOf, HeldOn, LifeOf, Created
  <2> QED
    BY <2>1, <2>2 DEF O!ownershipVars
<1> QED
  BY <1>1, <1>2, <1>3, <1>4, <1>5, <1>6, <1>7, <1>8 DEF Next, O!OwnershipNext

\* The code implements the safety part of Ownership.tla: an entity is reaped
\* only while nobody holds it, ends once, and leaves for good.
THEOREM SafetyRefinement == Spec => O!OwnershipSafety
<1>1. Init => O!OwnershipInit
  BY RefinementInit
<1>2. Init => Listed
  BY ListedInit
<1>3. IInv /\ Listed /\ [Next]_vars => Listed'
  BY ListedStep
<1>4. IInv /\ Listed /\ [Next]_vars => [O!OwnershipNext]_(O!ownershipVars)
  BY RefinementStep
<1> QED
  BY <1>1, <1>2, <1>3, <1>4, Invariance, PTL DEF Spec, O!OwnershipSafety

-----------------------------------------------------------------------------
(* LegEvents: the invariant.                                               *)

\* Everything that can be typed, and what the variables hold.
Keys == UNION {Range(ds) : ds \in UNION {Digits[l] : l \in Leg}}
AnyOptions == CallOptions \cup MediaOptions \cup [onDtmf : BOOLEAN] \cup {<<>>}
Outs == {"none", "matched", "fallback", "interrupt", "ended", "timeout", "media", "dial",
         "cancelled", "leg_finalized", "error"}
Frames == [legs : Seq(Leg), opts : AnyOptions, digits : [Leg -> Seq(Keys)]]
News == {NoNews, [what |-> "leg_finalized"], [what |-> "media"]}
           \cup [what : {"event"}, leg : Leg, event : Event]
Answers == [leg : Leg \cup {Nobody}, out : Outs, digits : Seq(Keys)]

EvTypes ==
    /\ leg \in [Leg -> {"live", "ended", "gone"}]
    /\ queue \in [Leg -> Seq(Event)] /\ listeners \in [Leg -> Seq(Wait)]
    /\ media \in [Leg -> {"playing", "over"}] /\ watchers \in [Leg -> Seq(Wait)]
    /\ published \in [dtmf : 0 .. MaxDtmf, interrupt : 0 .. MaxInterrupts]
    /\ kind \in [Wait -> {"none", "call", "media", "dial", "agent"}]
    /\ phase \in [Wait -> {"none", "waiting", "woken", "over"}]
    /\ frame \in [Wait -> Frames] /\ news \in [Wait -> News] /\ answer \in [Wait -> Answers]
    /\ typed \in [Leg -> Seq(Keys)] /\ readers \in [Leg -> SUBSET Wait] /\ missed \subseteq Wait

\* w was handed an event of l and did not look at it yet.
Handed(w, l) == news[w].what = "event" /\ news[w].leg = l

\* Who took digits of l, and who is about to.
Reads(l) == readers[l] \cup {w \in Wait : Handed(w, l) /\ IsDtmf(news[w].event)}

\* The digits ds, then those of the events of q, are the last that were typed:
\* f is where those of each event begin in t.
Begins(f, q, t) ==
    /\ f \in [1 .. Len(q) + 1 -> 1 .. Len(t) + 1]
    /\ f[Len(q) + 1] = Len(t) + 1
    /\ \A i \in 1 .. Len(q) :
          IF IsDtmf(q[i])
          THEN /\ f[i + 1] = f[i] + Len(q[i].digits)
               /\ \A k \in 1 .. Len(q[i].digits) : t[f[i] + k - 1] = q[i].digits[k]
          ELSE f[i + 1] = f[i]
EndsAt(ds, n, t) == Len(ds) < n /\ \A k \in 1 .. Len(ds) : t[n - Len(ds) + k - 1] = ds[k]
Follows(q, ds, t) ==
    \E f \in [1 .. Len(q) + 1 -> 1 .. Len(t) + 1] : Begins(f, q, t) /\ EndsAt(ds, f[1], t)

\* A leg of which nobody took a digit queues the last that were typed.
LegInv(l) ==
    /\ Len(queue[l]) <= QueueLimit /\ IsInjective(listeners[l])
    /\ Reads(l) = {} => Follows(queue[l], <<>>, typed[l])

Underway(w) == phase[w] \in {"waiting", "woken"}
LegsOf(w) == ToSet(frame[w].legs)
Listening(w, l) == w \in ToSet(listeners[l])
Watching(w, l) == w \in ToSet(watchers[l])

\* What a wait has in each phase.
Phases(w) ==
    /\ frame[w] = NoFrame <=> ~Underway(w)
    /\ Underway(w) => /\ frame[w].legs # <<>> /\ IsInjective(frame[w].legs)
                      /\ frame[w].opts \in Options[kind[w]]
                      /\ kind[w] # "call" => Len(frame[w].legs) = 1
    /\ phase[w] = "woken" <=> news[w] # NoNews
    /\ kind[w] = "none" <=> phase[w] = "none"
    /\ phase[w] = "over" => answer[w] # Unanswered
    /\ phase[w] = "none" => answer[w] = Unanswered /\ \A l \in Leg : w \notin readers[l]
    /\ Underway(w) /\ answer[w] # Unanswered => kind[w] = "media" /\ answer[w].out = "cancelled"

\* A wait is heard of on its own legs only, and while it is under way.
Listens(w) ==
    \A l \in Leg :
       /\ Listening(w, l) \/ Watching(w, l) => Underway(w) /\ l \in LegsOf(w)
       /\ Watching(w, l) => kind[w] = "media"

\* Who does not take its listeners back when it resumes has none.
Unheard(w) ==
    phase[w] = "woken" /\ (kind[w] \in {"dial", "agent"} \/ (kind[w] = "media" /\ news[w].what = "event"))
        => \A l \in Leg : ~Listening(w, l)

\* A call.wait listens on all its legs, and they are live, until their end
\* is what it was told of.
CallListens(w) ==
    kind[w] = "call" /\ phase[w] = "waiting"
        => \A l \in LegsOf(w) : leg[l] = "live" /\ Listening(w, l)
CallIsAlive(w) ==
    kind[w] = "call" /\ news[w].what = "event" /\ news[w].event # Ended
        => \A l \in LegsOf(w) : leg[l] = "live"

\* A digit wakes one wait.
Wanted(w) ==
    news[w].what = "event" =>
        /\ Wants(w, news[w].event) /\ news[w].leg \in LegsOf(w)
        /\ IsDtmf(news[w].event) => \A v \in Wait \ {w} : phase[v] # "woken"

\* A call.wait past which nothing went holds the last digits of its legs.
Due(w, l) == IF Handed(w, l) THEN <<news[w].event>> ELSE <<>>
HoldsLast(w) ==
    kind[w] = "call" /\ Underway(w) /\ w \notin missed =>
        \A l \in LegsOf(w) :
           queue[l] = <<>> /\ (Reads(l) \subseteq {w} => Follows(Due(w, l), frame[w].digits[l], typed[l]))

\* The digits ds come one after the other in t.
Occurs(ds, t) ==
    \E i \in 1 .. Len(t) : /\ i + Len(ds) <= Len(t) + 1
                           /\ \A k \in 1 .. Len(ds) : t[i + k - 1] = ds[k]
AnswersTyped(w) ==
    kind[w] = "call" /\ answer[w].out \in {"matched", "fallback"} =>
        /\ answer[w].leg \in Leg
        /\ readers[answer[w].leg] \subseteq {w} /\ w \notin missed
              => Occurs(answer[w].digits, typed[answer[w].leg])

WaitInv(w) ==
    /\ Phases(w) /\ Listens(w) /\ Unheard(w) /\ CallListens(w) /\ CallIsAlive(w) /\ Wanted(w)
    /\ HoldsLast(w) /\ AnswersTyped(w)

EvInv == EvTypes /\ (\A l \in Leg : LegInv(l)) /\ \A w \in Wait : WaitInv(w)

-----------------------------------------------------------------------------
(* LegEvents: the places of a set of numbers, in order.                     *)

LEMMA LeastExists ==
    ASSUME NEW S \in SUBSET Nat, S # {}
    PROVE  \E n \in S : \A m \in S : n =< m
<1>1. IsWellFoundedOn(OpToRel(<, Nat), Nat)
  BY NatLessThanWellFounded
<1>2. PICK n \in S : \A m \in S : <<m, n>> \notin OpToRel(<, Nat)
  BY <1>1, WFMin
<1>3. \A m \in S : ~(m < n)
  BY <1>2 DEF OpToRel
<1>4. QED
  BY <1>3

LEMMA MinIsLeast ==
    ASSUME NEW S \in SUBSET Nat, S # {}
    PROVE  Min(S) \in S /\ \A m \in S : Min(S) =< m
<1>1. \E n \in S : \A m \in S : n =< m
  BY LeastExists
<1>2. QED
  BY <1>1 DEF Min

\* The rank of i is how many of K are not above it: the ranks are 1 to the
\* size of K, so there is one element at each place, and more at a later one.
LEMMA NthIsInOrder ==
    ASSUME NEW K \in SUBSET Nat, IsFiniteSet(K)
    PROVE  /\ Cardinality(K) \in Nat
           /\ \A k \in 1 .. Cardinality(K) : Nth(K, k) \in K
           /\ \A i, j \in 1 .. Cardinality(K) : i < j => Nth(K, i) < Nth(K, j)
           /\ \A i \in K : \E k \in 1 .. Cardinality(K) : Nth(K, k) = i
<1> DEFINE below(i) == {j \in K : j <= i}
           n == Cardinality(K)
           f == [i \in K |-> Cardinality(below(i))]
<1>0. n \in Nat
  BY FS_CardinalityType
<1>1. ASSUME NEW i \in K
      PROVE  /\ IsFiniteSet(below(i)) /\ Cardinality(below(i)) <= n
             /\ Cardinality(below(i)) \in Nat \ {0}
  <2>1. below(i) \in SUBSET K /\ i \in below(i)
    OBVIOUS
  <2>2. IsFiniteSet(below(i)) /\ Cardinality(below(i)) <= n
    BY <2>1, FS_Subset
  <2>3. Cardinality(below(i)) \in Nat /\ Cardinality(below(i)) # 0
    BY <2>1, <2>2, FS_CardinalityType, FS_EmptySet
  <2>4. QED
    BY <2>2, <2>3
<1>2. ASSUME NEW i \in K, NEW j \in K, i < j
      PROVE  Cardinality(below(i)) < Cardinality(below(j))
  <2>0. \A m \in K : m \in Nat
    OBVIOUS
  <2>a. \A m \in K : m <= i => m <= j
    BY <1>2, <2>0
  <2>b. j <= j /\ ~(j <= i)
    BY <1>2, <2>0
  <2>1. below(i) \in SUBSET below(j) /\ j \in below(j) /\ j \notin below(i)
    BY <2>a, <2>b
  <2>2. Cardinality(below(i)) <= Cardinality(below(j))
    BY <1>1, <2>1, FS_Subset
  <2>3. Cardinality(below(i)) # Cardinality(below(j))
    BY <1>1, <2>1, FS_Subset
  <2>4. QED
    BY <1>1, <2>2, <2>3
<1>3. f \in [K -> 1 .. n]
  BY <1>0, <1>1
<1>4. /\ \A i \in K : f[i] \in Nat /\ i \in Nat
      /\ \A i, j \in K : i < j => f[i] < f[j]
  BY <1>1, <1>2
<1>5. IsInjective(f)
  <2>1. \A i, j \in K : f[i] = f[j] => ~(i < j) /\ ~(j < i)
    BY <1>4
  <2>2. QED
    BY <1>4, <2>1 DEF IsInjective
<1>6. f \in Injection(K, 1 .. n)
  BY <1>3, <1>5 DEF Injection
<1>7. IsFiniteSet(1 .. n) /\ Cardinality(1 .. n) = n
  BY <1>0, FS_Interval
<1>8. f \in Surjection(K, 1 .. n)
  BY <1>6, <1>7, FS_Injection
<1>9. \A k \in 1 .. n : Nth(K, k) \in K /\ f[Nth(K, k)] = k
  <2>1. \A k \in 1 .. n : Nth(K, k) = CHOOSE i \in K : Cardinality(below(i)) = k
    BY DEF Nth
  <2>2. \A k \in 1 .. n : \E i \in K : Cardinality(below(i)) = k
    BY <1>8 DEF Surjection
  <2>3. QED
    BY <2>1, <2>2
<1>. HIDE DEF f
<1>10. ASSUME NEW i \in 1 .. n, NEW j \in 1 .. n, i < j
       PROVE  Nth(K, i) < Nth(K, j)
  <2>1. /\ Nth(K, i) \in K /\ Nth(K, i) \in Nat /\ f[Nth(K, i)] = i
        /\ Nth(K, j) \in K /\ Nth(K, j) \in Nat /\ f[Nth(K, j)] = j
    BY <1>4, <1>9
  <2>2. Nth(K, i) # Nth(K, j)
    BY <1>10, <2>1
  <2>3. Nth(K, j) < Nth(K, i) => j < i
    BY <1>4, <2>1
  <2>4. QED
    BY <1>10, <2>1, <2>2, <2>3
<1>11. ASSUME NEW i \in K
       PROVE  \E k \in 1 .. n : Nth(K, k) = i
  <2>1. PICK k \in 1 .. n : k = f[i]
    BY <1>3
  <2>2. PICK j \in K : j = Nth(K, k) /\ f[j] = f[i]
    BY <1>9, <2>1
  <2>3. ~(j < i) /\ ~(i < j)
    BY <1>4, <2>2
  <2>4. j = i
    BY <1>4, <2>2, <2>3
  <2>5. QED
    BY <2>2, <2>4
<1>12. QED
  BY <1>0, <1>9, <1>10, <1>11

\* What a filter keeps.
LEMMA PickedIs ==
    ASSUME NEW T, NEW s \in Seq(T), NEW K \in SUBSET DOMAIN s
    PROVE  /\ Picked(s, K) \in Seq(T)
           /\ Len(Picked(s, K)) <= Len(s)
           /\ \A k \in DOMAIN Picked(s, K) : \E i \in K : Picked(s, K)[k] = s[i]
           /\ \A i \in K : \E k \in DOMAIN Picked(s, K) : Picked(s, K)[k] = s[i]
           /\ IsInjective(s) => IsInjective(Picked(s, K))
<1> DEFINE n == Cardinality(K)
<1>1. Len(s) \in Nat /\ DOMAIN s = 1 .. Len(s) /\ \A i \in DOMAIN s : s[i] \in T
  OBVIOUS
<1>2. /\ IsFiniteSet(1 .. Len(s)) /\ Cardinality(1 .. Len(s)) = Len(s)
      /\ IsFiniteSet(K) /\ n <= Len(s)
  <2>0. \A m \in Nat : IsFiniteSet(1 .. m) /\ Cardinality(1 .. m) = m
    BY FS_Interval
  <2>1. IsFiniteSet(1 .. Len(s)) /\ Cardinality(1 .. Len(s)) = Len(s)
    BY <1>1, <2>0
  <2>2. QED
    BY <1>1, <2>1, FS_Subset
<1>3. K \in SUBSET Nat
  BY <1>1
<1>4. n \in Nat /\ \A k \in 1 .. n : Nth(K, k) \in K
  BY <1>2, <1>3, NthIsInOrder
<1>5. /\ \A i, j \in 1 .. n : i < j => Nth(K, i) < Nth(K, j)
      /\ \A i \in K : \E k \in 1 .. n : Nth(K, k) = i
  BY <1>2, <1>3, NthIsInOrder
<1>6. Picked(s, K) = [k \in 1 .. n |-> s[Nth(K, k)]]
  BY DEF Picked
<1>7. Picked(s, K) \in Seq(T) /\ Len(Picked(s, K)) = n /\ DOMAIN Picked(s, K) = 1 .. n
  <2>1. \A k \in 1 .. n : s[Nth(K, k)] \in T
    BY <1>1, <1>4
  <2>2. Picked(s, K) \in [1 .. n -> T]
    BY <1>6, <2>1
  <2>3. QED
    BY <1>4, <2>2
<1>8. IsInjective(s) => IsInjective(Picked(s, K))
  <2>1. SUFFICES ASSUME IsInjective(s), NEW i \in 1 .. n, NEW j \in 1 .. n, s[Nth(K, i)] = s[Nth(K, j)]
                 PROVE  i = j
    BY <1>6, <1>7 DEF IsInjective
  <2>2. Nth(K, i) = Nth(K, j)
    BY <1>4, <2>1 DEF IsInjective
  <2>3. Nth(K, i) \in Nat /\ Nth(K, j) \in Nat
    BY <1>3, <1>4
  <2>4. ~(i < j) /\ ~(j < i)
    BY <1>5, <2>2, <2>3
  <2>5. QED
    BY <1>4, <2>4
<1>9. QED
  BY <1>2, <1>4, <1>5, <1>6, <1>7, <1>8

LEMMA WithoutIs ==
    ASSUME NEW T, NEW s \in Seq(T), NEW w
    PROVE  /\ Without(s, w) \in Seq(T)
           /\ ToSet(Without(s, w)) = ToSet(s) \ {w}
           /\ IsInjective(s) => IsInjective(Without(s, w))
<1> DEFINE K == {i \in DOMAIN s : s[i] # w}
           p == Picked(s, K)
<1>1. Without(s, w) = p
  BY DEF Without
<1>2. K \in SUBSET DOMAIN s
  OBVIOUS
<1>3. /\ p \in Seq(T) /\ (IsInjective(s) => IsInjective(p))
      /\ \A k \in DOMAIN p : \E i \in K : p[k] = s[i]
      /\ \A i \in K : \E k \in DOMAIN p : p[k] = s[i]
  <2>. HIDE DEF K
  <2>1. QED
    BY <1>2, PickedIs
<1>4. ToSet(p) = ToSet(s) \ {w}
  <2>1. \A x \in ToSet(p) : x \in ToSet(s) \ {w}
    BY <1>3 DEF ToSet
  <2>2. \A x \in ToSet(s) \ {w} : x \in ToSet(p)
    <3>1. SUFFICES ASSUME NEW i \in DOMAIN s, s[i] # w
                   PROVE  s[i] \in ToSet(p)
      BY DEF ToSet
    <3>2. i \in K
      BY <3>1
    <3>3. QED
      BY <1>3, <3>2 DEF ToSet
  <2>3. QED
    BY <2>1, <2>2
<1>5. QED
  BY <1>1, <1>3, <1>4

LEMMA EventIs ==
    ASSUME NEW e \in Event
    PROVE  /\ e.kind \in {"dtmf", "interrupt", "ended"}
           /\ IsDtmf(e) => e.digits \in Seq(Keys) /\ e.digits # <<>>
           /\ IsDtmf(e) \/ e = Ended \/ e = [kind |-> "interrupt"]
<1>1. CASE e \in {[kind |-> "interrupt"], [kind |-> "ended"]}
  BY <1>1 DEF IsDtmf, Ended
<1>2. CASE e \in {[kind |-> "dtmf", digits |-> d] : d \in UNION {Digits[l] : l \in Leg}}
  <2>0. PICK l \in Leg : \E ds \in Digits[l] : e = [kind |-> "dtmf", digits |-> ds]
    BY <1>2
  <2>1. PICK ds \in Digits[l] : e = [kind |-> "dtmf", digits |-> ds]
    BY <2>0
  <2>2. ds \in Seq(Range(ds)) /\ ds # <<>>
    BY LegEventsAssumption DEF LegEventsAssumption
  <2>3. Range(ds) \subseteq Keys
    BY DEF Keys
  <2>4. ds \in Seq(Keys)
    BY <2>2, <2>3, SeqMonotonic
  <2>5. QED
    BY <2>1, <2>2, <2>4 DEF IsDtmf
<1>3. QED
  BY <1>1, <1>2 DEF Event

-----------------------------------------------------------------------------
(* LegEvents: the last digits that were typed.                              *)

\* Where the digits of no event begin: past the last one.
LEMMA NothingFollows ==
    ASSUME NEW q \in Seq(Event), \A i \in 1 .. Len(q) : ~IsDtmf(q[i]), NEW t \in Seq(Keys)
    PROVE  Follows(q, <<>>, t)
<1> DEFINE n == Len(q) + 1
           m == Len(t) + 1
           f == [i \in 1 .. n |-> m]
<1>1. n \in Nat \ {0} /\ m \in Nat \ {0} /\ n - 1 = Len(q)
  OBVIOUS
<1>2. f \in [1 .. n -> 1 .. m] /\ (\A i \in 1 .. n : f[i] = m)
  BY <1>1
<1>. HIDE DEF f
<1>3. Begins(f, q, t)
  BY <1>1, <1>2 DEF Begins
<1>4. EndsAt(<<>>, f[1], t)
  <2>1. f[1] > 0
    BY <1>1, <1>2
  <2>2. QED
    BY <2>1 DEF EndsAt
<1>5. QED
  BY <1>2, <1>3, <1>4 DEF Follows

LEMMA EndsAtNothing ==
    ASSUME NEW n \in Nat \ {0}, NEW t
    PROVE  EndsAt(<<>>, n, t)
BY DEF EndsAt

\* What was held may be forgotten, and the first event too.
LEMMA FollowsLess ==
    ASSUME NEW q \in Seq(Event), NEW ds, NEW t \in Seq(Keys), Follows(q, ds, t)
    PROVE  Follows(q, <<>>, t) /\ (q # <<>> => Follows(Tail(q), <<>>, t))
<1>1. PICK f \in [1 .. Len(q) + 1 -> 1 .. Len(t) + 1] : Begins(f, q, t)
  BY DEF Follows
<1>2. Len(q) \in Nat /\ Len(t) \in Nat
  OBVIOUS
<1>3. Follows(q, <<>>, t)
  <2>1. f[1] \in Nat \ {0}
    BY <1>1, <1>2
  <2>2. QED
    BY <1>1, <2>1, EndsAtNothing DEF Follows
<1>4. ASSUME q # <<>>
      PROVE  Follows(Tail(q), <<>>, t)
  <2> DEFINE p == Tail(q)
             g == [i \in 1 .. Len(p) + 1 |-> f[i + 1]]
  <2>1. /\ p \in Seq(Event) /\ Len(p) + 1 = Len(q) /\ Len(p) \in Nat
        /\ \A i \in 1 .. Len(p) : p[i] = q[i + 1]
    BY <1>4
  <2>. HIDE DEF p
  <2>2. g \in [1 .. Len(p) + 1 -> 1 .. Len(t) + 1]
    BY <1>1, <1>2, <2>1
  <2>3. \A i \in 1 .. Len(p) + 1 : g[i] = f[i + 1]
    OBVIOUS
  <2>. HIDE DEF g
  <2>4. g[Len(p) + 1] = Len(t) + 1
    BY <1>1, <2>1, <2>3 DEF Begins
  <2>5. ASSUME NEW i \in 1 .. Len(p)
        PROVE  IF IsDtmf(p[i])
               THEN /\ g[i + 1] = g[i] + Len(p[i].digits)
                    /\ \A k \in 1 .. Len(p[i].digits) : t[g[i] + k - 1] = p[i].digits[k]
               ELSE g[i + 1] = g[i]
    <3>1. i + 1 \in 1 .. Len(q) /\ p[i] = q[i + 1] /\ g[i] = f[i + 1] /\ g[i + 1] = f[(i + 1) + 1]
      <4>1. i \in 1 .. Len(p) + 1 /\ i + 1 \in 1 .. Len(p) + 1 /\ i + 1 \in 1 .. Len(q)
        BY <2>1
      <4>2. g[i] = f[i + 1] /\ g[i + 1] = f[(i + 1) + 1]
        BY <2>3, <4>1
      <4>3. QED
        BY <2>1, <4>1, <4>2
    <3>2. QED
      BY <1>1, <3>1 DEF Begins
  <2>6. Begins(g, p, t)
    BY <2>2, <2>4, <2>5 DEF Begins
  <2>7. g[1] \in Nat \ {0}
    <3>1. 1 \in 1 .. Len(p) + 1
      BY <2>1
    <3>2. QED
      BY <1>2, <2>2, <3>1
  <2>8. QED
    BY <2>2, <2>6, <2>7, EndsAtNothing DEF Follows, p
<1>5. QED
  BY <1>3, <1>4

\* A wait that reads the first event holds its digits too.
LEMMA FollowsRead ==
    ASSUME NEW q \in Seq(Event), q # <<>>, NEW ds \in Seq(Keys), NEW t \in Seq(Keys), Follows(q, ds, t)
    PROVE  /\ ~IsDtmf(Head(q)) => Follows(Tail(q), ds, t)
           /\ IsDtmf(Head(q)) => Follows(Tail(q), ds \o Head(q).digits, t)
<1>1. PICK f \in [1 .. Len(q) + 1 -> 1 .. Len(t) + 1] : Begins(f, q, t) /\ EndsAt(ds, f[1], t)
  BY DEF Follows
<1> DEFINE p == Tail(q)
           g == [i \in 1 .. Len(p) + 1 |-> f[i + 1]]
           e == Head(q)
<1>2. Len(q) \in Nat \ {0} /\ Len(t) \in Nat /\ Len(ds) \in Nat /\ e = q[1] /\ e \in Event
  OBVIOUS
<1>3. /\ p \in Seq(Event) /\ Len(p) + 1 = Len(q) /\ Len(p) \in Nat
      /\ \A i \in 1 .. Len(p) : p[i] = q[i + 1]
  OBVIOUS
<1>. HIDE DEF p
<1>4. g \in [1 .. Len(p) + 1 -> 1 .. Len(t) + 1]
  BY <1>1, <1>2, <1>3
<1>5. \A i \in 1 .. Len(p) + 1 : g[i] = f[i + 1]
  OBVIOUS
<1>. HIDE DEF g, e
<1>6. Begins(g, p, t)
  <2>1. g[Len(p) + 1] = Len(t) + 1
    BY <1>1, <1>3, <1>5 DEF Begins
  <2>2. ASSUME NEW i \in 1 .. Len(p)
        PROVE  IF IsDtmf(p[i])
               THEN /\ g[i + 1] = g[i] + Len(p[i].digits)
                    /\ \A k \in 1 .. Len(p[i].digits) : t[g[i] + k - 1] = p[i].digits[k]
               ELSE g[i + 1] = g[i]
    <3>1. i + 1 \in 1 .. Len(q) /\ p[i] = q[i + 1] /\ g[i] = f[i + 1] /\ g[i + 1] = f[(i + 1) + 1]
      <4>1. i \in 1 .. Len(p) + 1 /\ i + 1 \in 1 .. Len(p) + 1 /\ i + 1 \in 1 .. Len(q)
        BY <1>3
      <4>2. g[i] = f[i + 1] /\ g[i + 1] = f[(i + 1) + 1]
        BY <1>5, <4>1
      <4>3. QED
        BY <1>3, <4>1, <4>2
    <3>2. QED
      BY <1>1, <3>1 DEF Begins
  <2>3. QED
    BY <1>4, <2>1, <2>2 DEF Begins
<1>7. g[1] = f[2] /\ f[1] \in Nat /\ g[1] \in Nat /\ 1 \in 1 .. Len(q)
  <2>1. 1 \in 1 .. Len(p) + 1 /\ 1 \in 1 .. Len(q) + 1 /\ 1 + 1 = 2
    BY <1>2, <1>3
  <2>2. QED
    BY <1>1, <1>2, <1>4, <1>5, <2>1
<1>8. ASSUME ~IsDtmf(e)
      PROVE  Follows(p, ds, t)
  <2>1. f[2] = f[1]
    BY <1>1, <1>2, <1>7, <1>8 DEF Begins
  <2>2. QED
    BY <1>1, <1>4, <1>6, <1>7, <2>1 DEF Follows
<1>9. ASSUME IsDtmf(e)
      PROVE  Follows(p, ds \o e.digits, t)
  <2> DEFINE d == e.digits
             n == f[1]
             both == ds \o d
  <2>1. d \in Seq(Keys) /\ Len(d) \in Nat
    BY <1>2, <1>9, EventIs
  <2>2. g[1] = n + Len(d) /\ \A k \in 1 .. Len(d) : t[n + k - 1] = d[k]
    BY <1>1, <1>2, <1>7, <1>9 DEF Begins
  <2>3. /\ Len(both) = Len(ds) + Len(d)
        /\ \A k \in 1 .. Len(ds) + Len(d) : both[k] = IF k <= Len(ds) THEN ds[k] ELSE d[k - Len(ds)]
    BY <2>1, ConcatProperties
  <2>. HIDE DEF d, n, both
  <2>4. n \in Nat /\ Len(ds) < n /\ \A k \in 1 .. Len(ds) : t[n - Len(ds) + k - 1] = ds[k]
    BY <1>1, <1>7 DEF EndsAt, n
  <2>5. ASSUME NEW k \in 1 .. Len(both)
        PROVE  t[g[1] - Len(both) + k - 1] = both[k]
    <3>1. g[1] - Len(both) + k - 1 = n - Len(ds) + k - 1
      BY <1>2, <2>1, <2>2, <2>3, <2>4
    <3>2. CASE k <= Len(ds)
      BY <1>2, <2>1, <2>3, <2>4, <2>5, <3>1, <3>2
    <3>3. CASE ~(k <= Len(ds))
      <4>1. PICK j \in 1 .. Len(d) : j = k - Len(ds)
        BY <1>2, <2>1, <2>3, <2>5, <3>3
      <4>2. n - Len(ds) + k - 1 = n + j - 1
        BY <1>2, <2>1, <2>4, <4>1
      <4>3. both[k] = d[j]
        BY <2>3, <2>5, <3>3, <4>1
      <4>4. QED
        BY <2>2, <3>1, <4>2, <4>3
    <3>4. QED
      BY <3>2, <3>3
  <2>6. EndsAt(both, g[1], t)
    <3>1. Len(both) < g[1]
      BY <1>2, <2>1, <2>2, <2>3, <2>4
    <3>2. QED
      BY <2>5, <3>1 DEF EndsAt
  <2>7. QED
    BY <1>4, <1>6, <2>6 DEF Follows, both, d
<1>10. QED
  BY <1>8, <1>9 DEF p, e

\* One more event: its digits are typed now.
LEMMA FollowsMore ==
    ASSUME NEW q \in Seq(Event), NEW ds \in Seq(Keys), NEW t \in Seq(Keys), NEW e \in Event, Follows(q, ds, t)
    PROVE  /\ ~IsDtmf(e) => Follows(Append(q, e), ds, t)
           /\ IsDtmf(e) => Follows(Append(q, e), ds, t \o e.digits)
<1>1. PICK f \in [1 .. Len(q) + 1 -> 1 .. Len(t) + 1] : Begins(f, q, t) /\ EndsAt(ds, f[1], t)
  BY DEF Follows
<1> DEFINE p == Append(q, e)
           d == IF IsDtmf(e) THEN e.digits ELSE <<>>
           u == t \o d
           g == [i \in 1 .. Len(p) + 1 |-> IF i = Len(q) + 2 THEN Len(u) + 1 ELSE f[i]]
<1>2. Len(q) \in Nat /\ Len(t) \in Nat /\ Len(ds) \in Nat
  OBVIOUS
<1>3. /\ p \in Seq(Event) /\ Len(p) = Len(q) + 1 /\ p[Len(q) + 1] = e
      /\ \A i \in 1 .. Len(q) : p[i] = q[i]
  OBVIOUS
<1>4. d \in Seq(Keys) /\ Len(d) \in Nat /\ (IsDtmf(e) => d = e.digits) /\ (~IsDtmf(e) => Len(d) = 0)
  BY EventIs
<1>5. ~IsDtmf(e) => u = t
  BY ConcatEmptySeq
<1>6. /\ u \in Seq(Keys) /\ Len(u) = Len(t) + Len(d)
      /\ \A k \in 1 .. Len(t) + Len(d) : u[k] = IF k <= Len(t) THEN t[k] ELSE d[k - Len(t)]
  <2>. HIDE DEF d
  <2>1. QED
    BY <1>4, ConcatProperties
<1>. HIDE DEF p, d, u
<1>old. \A k \in 1 .. Len(t) : u[k] = t[k]
  <2>1. \A k \in 1 .. Len(t) : k \in 1 .. Len(t) + Len(d) /\ k <= Len(t)
    BY <1>2, <1>4
  <2>2. QED
    BY <1>6, <2>1
<1>7. \A i \in 1 .. Len(q) + 1 : f[i] \in 1 .. Len(t) + 1
  BY <1>1
<1>8. g \in [1 .. Len(p) + 1 -> 1 .. Len(u) + 1]
  <2>1. \A i \in 1 .. Len(p) + 1 : i = Len(q) + 2 \/ i \in 1 .. Len(q) + 1
    BY <1>2, <1>3
  <2>2. \A i \in 1 .. Len(q) + 1 : f[i] \in 1 .. Len(u) + 1
    BY <1>2, <1>4, <1>6, <1>7
  <2>3. Len(u) + 1 \in 1 .. Len(u) + 1
    BY <1>2, <1>4, <1>6
  <2>4. QED
    BY <2>1, <2>2, <2>3
<1>9. g[Len(q) + 2] = Len(u) + 1 /\ \A i \in 1 .. Len(q) + 1 : g[i] = f[i]
  BY <1>2, <1>3
<1>. HIDE DEF g
<1>10. f[Len(q) + 1] = Len(t) + 1
  BY <1>1 DEF Begins
<1>11. ASSUME NEW i \in 1 .. Len(p)
       PROVE  IF IsDtmf(p[i])
              THEN /\ g[i + 1] = g[i] + Len(p[i].digits)
                   /\ \A k \in 1 .. Len(p[i].digits) : u[g[i] + k - 1] = p[i].digits[k]
              ELSE g[i + 1] = g[i]
  <2>1. CASE i = Len(q) + 1
    <3>1. p[i] = e /\ g[i] = Len(t) + 1 /\ g[i + 1] = Len(t) + Len(d) + 1
      <4>1. i + 1 = Len(q) + 2 /\ i \in 1 .. Len(q) + 1
        BY <1>2, <2>1
      <4>2. QED
        BY <1>3, <1>6, <1>9, <1>10, <2>1, <4>1
    <3>2. CASE IsDtmf(e)
      <4>1. \A k \in 1 .. Len(d) : u[g[i] + k - 1] = d[k]
        <5>1. SUFFICES ASSUME NEW k \in 1 .. Len(d)
                       PROVE  u[Len(t) + k] = d[k]
          <6>1. \A k \in 1 .. Len(d) : g[i] + k - 1 = Len(t) + k
            BY <1>2, <1>4, <3>1
          <6>2. QED
            BY <6>1
        <5>2. /\ Len(t) + k \in 1 .. Len(t) + Len(d) /\ ~(Len(t) + k <= Len(t))
              /\ (Len(t) + k) - Len(t) = k
          BY <1>2, <1>4
        <5>3. QED
          BY <1>6, <5>2
      <4>2. g[i + 1] = g[i] + Len(d)
        BY <1>2, <1>4, <3>1
      <4>3. QED
        BY <1>4, <3>1, <3>2, <4>1, <4>2
    <3>3. CASE ~IsDtmf(e)
      BY <1>2, <1>4, <3>1, <3>3
    <3>4. QED
      BY <3>2, <3>3
  <2>2. CASE i # Len(q) + 1
    <3>1. /\ i \in 1 .. Len(q) /\ i \in 1 .. Len(q) + 1 /\ i + 1 \in 1 .. Len(q) + 1
      BY <1>2, <1>3, <2>2
    <3>2. p[i] = q[i] /\ p[i] \in Event /\ g[i] = f[i] /\ g[i + 1] = f[i + 1]
      BY <1>3, <1>9, <3>1
    <3>3. CASE ~IsDtmf(p[i])
      BY <1>1, <3>1, <3>2, <3>3 DEF Begins
    <3>4. CASE IsDtmf(p[i])
      <4>1. Len(p[i].digits) \in Nat
        BY <3>2, <3>4, EventIs
      <4>2. /\ f[i + 1] = f[i] + Len(p[i].digits)
            /\ \A k \in 1 .. Len(p[i].digits) : t[f[i] + k - 1] = p[i].digits[k]
        BY <1>1, <3>1, <3>2, <3>4 DEF Begins
      <4>3. \A k \in 1 .. Len(p[i].digits) : f[i] + k - 1 \in 1 .. Len(t)
        <5>1. f[i] \in 1 .. Len(t) + 1 /\ f[i + 1] \in 1 .. Len(t) + 1
          BY <1>7, <3>1
        <5>2. \A x \in 1 .. Len(t) + 1, n \in Nat : x + n \in 1 .. Len(t) + 1 =>
                 \A k \in 1 .. n : x + k - 1 \in 1 .. Len(t)
          OBVIOUS
        <5>3. f[i] + Len(p[i].digits) \in 1 .. Len(t) + 1
          BY <4>2, <5>1
        <5>4. QED
          BY <4>1, <5>1, <5>2, <5>3
      <4>4. QED
        BY <1>old, <3>2, <3>4, <4>2, <4>3
    <3>5. QED
      BY <3>3, <3>4
  <2>3. QED
    BY <2>1, <2>2
<1>12. Begins(g, p, u)
  <2>1. Len(p) + 1 = Len(q) + 2
    BY <1>2, <1>3
  <2>2. QED
    BY <1>8, <1>9, <1>11, <2>1 DEF Begins
<1>13. EndsAt(ds, g[1], u)
  <2>1. g[1] = f[1] /\ f[1] \in 1 .. Len(t) + 1
    BY <1>2, <1>7, <1>9
  <2>2. Len(ds) < f[1] /\ \A k \in 1 .. Len(ds) : t[f[1] - Len(ds) + k - 1] = ds[k]
    BY <1>1 DEF EndsAt
  <2>3. \A k \in 1 .. Len(ds) : f[1] - Len(ds) + k - 1 \in 1 .. Len(t)
    BY <1>2, <2>1, <2>2
  <2>4. QED
    BY <1>old, <2>1, <2>2, <2>3 DEF EndsAt
<1>14. Follows(p, ds, u)
  BY <1>8, <1>12, <1>13 DEF Follows
<1>15. QED
  BY <1>4, <1>5, <1>14 DEF p, u

LEMMA RemovedIs ==
    ASSUME NEW q \in Seq(Event), NEW m \in 1 .. Len(q)
    PROVE  LET p == RemoveAt(q, m)
           IN /\ p \in Seq(Event) /\ Len(p) + 1 = Len(q) /\ Len(p) \in Nat /\ Len(p) <= Len(q)
              /\ \A i \in 1 .. Len(p) : p[i] = IF i < m THEN q[i] ELSE q[i + 1]
<1> DEFINE p == RemoveAt(q, m)
<1>2. Len(q) \in Nat /\ m \in Nat \ {0}
  OBVIOUS
<1>3. /\ p \in Seq(Event) /\ Len(p) + 1 = Len(q) /\ Len(p) \in Nat
      /\ \A i \in 1 .. Len(p) : p[i] = IF i < m THEN q[i] ELSE q[i + 1]
  <2> DEFINE u == SubSeq(q, 1, m - 1)
             v == SubSeq(q, m + 1, Len(q))
  <2>1. u \in Seq(Event) /\ Len(u) = m - 1 /\ \A i \in 1 .. m - 1 : u[i] = q[i]
    BY <1>2
  <2>2. v \in Seq(Event) /\ Len(v) = Len(q) - m /\ \A i \in 1 .. Len(q) - m : v[i] = q[m + i]
    BY <1>2
  <2>3. p = u \o v
    BY DEF RemoveAt
  <2>. HIDE DEF u, v, p
  <2>4. /\ p \in Seq(Event) /\ Len(p) = Len(u) + Len(v)
        /\ \A i \in 1 .. Len(u) + Len(v) : p[i] = IF i <= Len(u) THEN u[i] ELSE v[i - Len(u)]
    BY <2>1, <2>2, <2>3, ConcatProperties
  <2>5. Len(p) + 1 = Len(q) /\ Len(p) \in Nat
    BY <1>2, <2>1, <2>2, <2>4
  <2>6. ASSUME NEW i \in 1 .. Len(p)
        PROVE  p[i] = IF i < m THEN q[i] ELSE q[i + 1]
    <3>1. CASE i < m
      <4>1. i \in 1 .. m - 1 /\ i <= Len(u) /\ i \in 1 .. Len(u) + Len(v)
        BY <1>2, <2>1, <2>2, <2>4, <3>1
      <4>2. QED
        BY <2>1, <2>4, <3>1, <4>1
    <3>2. CASE ~(i < m)
      <4>1. PICK j \in 1 .. Len(q) - m : j = i - Len(u)
        BY <1>2, <2>1, <2>2, <2>4, <3>2
      <4>2. ~(i <= Len(u)) /\ i \in 1 .. Len(u) + Len(v) /\ m + j = i + 1
        BY <1>2, <2>1, <2>2, <2>4, <3>2, <4>1
      <4>3. QED
        BY <2>2, <2>4, <3>2, <4>1, <4>2
    <3>3. QED
      BY <3>1, <3>2
  <2>7. QED
    BY <2>4, <2>5, <2>6
<1>. HIDE DEF p
<1>4. Len(p) <= Len(q)
  BY <1>2, <1>3
<1>5. QED
  BY <1>3, <1>4 DEF p

\* An event that is no digit is taken out of the queue.
LEMMA FollowsRemoved ==
    ASSUME NEW q \in Seq(Event), NEW ds \in Seq(Keys), NEW t \in Seq(Keys), Follows(q, ds, t),
           NEW m \in 1 .. Len(q), ~IsDtmf(q[m])
    PROVE  /\ RemoveAt(q, m) \in Seq(Event) /\ Len(RemoveAt(q, m)) <= Len(q)
           /\ Follows(RemoveAt(q, m), ds, t)
<1>1. PICK f \in [1 .. Len(q) + 1 -> 1 .. Len(t) + 1] : Begins(f, q, t) /\ EndsAt(ds, f[1], t)
  BY DEF Follows
<1> DEFINE p == RemoveAt(q, m)
           g == [i \in 1 .. Len(p) + 1 |-> IF i <= m THEN f[i] ELSE f[i + 1]]
<1>2. Len(q) \in Nat /\ Len(t) \in Nat /\ m \in Nat \ {0}
  OBVIOUS
<1>3. /\ p \in Seq(Event) /\ Len(p) + 1 = Len(q) /\ Len(p) \in Nat
      /\ \A i \in 1 .. Len(p) : p[i] = IF i < m THEN q[i] ELSE q[i + 1]
  BY RemovedIs
<1>. HIDE DEF p
<1>4. \A i \in 1 .. Len(q) + 1 : f[i] \in 1 .. Len(t) + 1
  BY <1>1
<1>5. g \in [1 .. Len(p) + 1 -> 1 .. Len(t) + 1]
  <2>1. \A i \in 1 .. Len(p) + 1 : i \in 1 .. Len(q) + 1 /\ i + 1 \in 1 .. Len(q) + 1
    BY <1>2, <1>3
  <2>2. QED
    BY <1>4, <2>1
<1>6. \A i \in 1 .. Len(p) + 1 : g[i] = IF i <= m THEN f[i] ELSE f[i + 1]
  OBVIOUS
<1>. HIDE DEF g
<1>7. f[m + 1] = f[m]
  BY <1>1 DEF Begins
<1>8. Begins(g, p, t)
  <2>1. g[Len(p) + 1] = Len(t) + 1
    <3>1. f[Len(q) + 1] = Len(t) + 1
      BY <1>1 DEF Begins
    <3>2. CASE m = Len(q)
      BY <1>2, <1>3, <1>6, <1>7, <3>1, <3>2
    <3>3. CASE m # Len(q)
      <4>1. Len(p) + 1 \in 1 .. Len(p) + 1 /\ ~(Len(p) + 1 <= m) /\ (Len(p) + 1) + 1 = Len(q) + 1
        BY <1>2, <1>3, <3>3
      <4>2. QED
        BY <1>6, <3>1, <4>1
    <3>4. QED
      BY <3>2, <3>3
  <2>2. ASSUME NEW i \in 1 .. Len(p)
        PROVE  \E j \in 1 .. Len(q) : p[i] = q[j] /\ g[i] = f[j] /\ g[i + 1] = f[j + 1]
    <3>0. i \in 1 .. Len(p) + 1 /\ i + 1 \in 1 .. Len(p) + 1 /\ i \in 1 .. Len(q) /\ i + 1 \in 1 .. Len(q)
      BY <1>2, <1>3
    <3>1. CASE i < m
      <4>1. i <= m /\ i + 1 <= m
        BY <1>2, <3>1
      <4>2. p[i] = q[i] /\ g[i] = f[i] /\ g[i + 1] = f[i + 1]
        BY <1>3, <1>6, <3>0, <3>1, <4>1
      <4>3. QED
        BY <3>0, <4>2
    <3>2. CASE ~(i < m)
      <4>1. ~(i + 1 <= m) /\ (i <= m => i = m)
        BY <1>2, <3>2
      <4>2. p[i] = q[i + 1] /\ g[i] = f[i + 1] /\ g[i + 1] = f[(i + 1) + 1]
        BY <1>3, <1>6, <1>7, <3>0, <3>2, <4>1
      <4>3. QED
        BY <3>0, <4>2
    <3>3. QED
      BY <3>1, <3>2
  <2>3. ASSUME NEW i \in 1 .. Len(p)
        PROVE  IF IsDtmf(p[i])
               THEN /\ g[i + 1] = g[i] + Len(p[i].digits)
                    /\ \A k \in 1 .. Len(p[i].digits) : t[g[i] + k - 1] = p[i].digits[k]
               ELSE g[i + 1] = g[i]
    <3>1. PICK j \in 1 .. Len(q) : p[i] = q[j] /\ g[i] = f[j] /\ g[i + 1] = f[j + 1]
      BY <2>2
    <3>2. QED
      BY <1>1, <3>1 DEF Begins
  <2>4. QED
    BY <1>5, <2>1, <2>3 DEF Begins
<1>9. g[1] = f[1]
  <2>1. 1 \in 1 .. Len(p) + 1 /\ 1 <= m
    BY <1>2, <1>3
  <2>2. QED
    BY <1>6, <2>1
<1>10. Follows(p, ds, t)
  BY <1>1, <1>5, <1>8, <1>9 DEF Follows
<1>11. QED
  BY <1>2, <1>3, <1>10 DEF p

\* A full queue drops its oldest event.
LEMMA PushKeeps ==
    ASSUME NEW q \in Seq(Event), Len(q) <= QueueLimit, NEW e \in Event, NEW t \in Seq(Keys)
    PROVE  /\ Push(q, e) \in Seq(Event) /\ Len(Push(q, e)) <= QueueLimit
           /\ ~IsDtmf(e) /\ Follows(q, <<>>, t) => Follows(Push(q, e), <<>>, t)
           /\ IsDtmf(e) /\ Follows(q, <<>>, t) => Follows(Push(q, e), <<>>, t \o e.digits)
<1>0. QueueLimit \in Nat \ {0} /\ Len(q) \in Nat
  BY LegEventsAssumption DEF LegEventsAssumption
<1>1. CASE Len(q) < QueueLimit
  <2>1. Push(q, e) = Append(q, e)
    BY <1>1 DEF Push
  <2>2. Append(q, e) \in Seq(Event) /\ Len(Append(q, e)) <= QueueLimit
    BY <1>0, <1>1
  <2>3. <<>> \in Seq(Keys)
    OBVIOUS
  <2>4. QED
    BY <2>1, <2>2, <2>3, FollowsMore
<1>2. CASE ~(Len(q) < QueueLimit)
  <2>0. q # <<>>
    BY <1>0, <1>2
  <2>1. Push(q, e) = Append(Tail(q), e)
    BY <1>2 DEF Push
  <2>2. Tail(q) \in Seq(Event) /\ Append(Tail(q), e) \in Seq(Event) /\ Len(Append(Tail(q), e)) <= QueueLimit
    BY <1>0, <2>0
  <2>3. <<>> \in Seq(Keys)
    OBVIOUS
  <2>4. Follows(q, <<>>, t) => Follows(Tail(q), <<>>, t)
    BY <2>0, FollowsLess
  <2>5. QED
    BY <2>1, <2>2, <2>3, <2>4, FollowsMore
<1>3. QED
  BY <1>1, <1>2

\* All or some of what a wait holds.
PieceOf(x, ds) == x = ds \/ \E m \in Int : m <= Len(ds) /\ x = SubSeq(ds, 1, m)

LEMMA PieceIs ==
    ASSUME NEW ds \in Seq(Keys), NEW x, PieceOf(x, ds)
    PROVE  x \in Seq(Keys) /\ Len(x) <= Len(ds) /\ \A k \in 1 .. Len(x) : x[k] = ds[k]
<1>1. Len(ds) \in Nat
  OBVIOUS
<1>2. CASE x = ds
  BY <1>1, <1>2
<1>3. ASSUME NEW m \in Int, m <= Len(ds), x = SubSeq(ds, 1, m)
      PROVE  x \in Seq(Keys) /\ Len(x) <= Len(ds) /\ \A k \in 1 .. Len(x) : x[k] = ds[k]
  <2>1. \A i \in 1 .. m : ds[i] \in Keys
    BY <1>1, <1>3
  <2>2. /\ SubSeq(ds, 1, m) \in Seq(Keys)
        /\ Len(SubSeq(ds, 1, m)) = IF 1 <= m THEN m - 1 + 1 ELSE 0
        /\ \A i \in 1 .. m - 1 + 1 : SubSeq(ds, 1, m)[i] = ds[1 + i - 1]
    BY <2>1, SubSeqProperties
  <2>3. Len(x) = IF 1 <= m THEN m ELSE 0
    BY <1>3, <2>2
  <2>4. \A k \in 1 .. Len(x) : x[k] = ds[k]
    <3>1. \A k \in 1 .. Len(x) : k \in 1 .. m - 1 + 1 /\ 1 + k - 1 = k
      BY <2>3
    <3>2. QED
      BY <1>3, <2>2, <3>1
  <2>5. QED
    BY <1>1, <1>3, <2>2, <2>3, <2>4
<1>4. QED
  BY <1>2, <1>3 DEF PieceOf

LEMMA HeldOccurs ==
    ASSUME NEW q \in Seq(Event), NEW ds \in Seq(Keys), ds # <<>>, NEW t \in Seq(Keys), Follows(q, ds, t),
           NEW x, PieceOf(x, ds)
    PROVE  Occurs(x, t)
<1>1. PICK f \in [1 .. Len(q) + 1 -> 1 .. Len(t) + 1] : EndsAt(ds, f[1], t)
  BY DEF Follows
<1> DEFINE n == f[1]
           i == n - Len(ds)
<1>2. Len(ds) \in Nat \ {0} /\ Len(t) \in Nat /\ n \in 1 .. Len(t) + 1
  <2>1. 1 \in 1 .. Len(q) + 1
    OBVIOUS
  <2>2. QED
    BY <2>1
<1>3. Len(ds) < n /\ \A k \in 1 .. Len(ds) : t[i + k - 1] = ds[k]
  BY <1>1 DEF EndsAt
<1>. HIDE DEF n
<1>4. i \in 1 .. Len(t)
  BY <1>2, <1>3
<1>5. x \in Seq(Keys) /\ Len(x) <= Len(ds) /\ \A k \in 1 .. Len(x) : x[k] = ds[k]
  BY PieceIs
<1>6. Len(x) \in Nat /\ i + Len(x) <= Len(t) + 1
  BY <1>2, <1>3, <1>5
<1>7. \A k \in 1 .. Len(x) : k \in 1 .. Len(ds)
  BY <1>2, <1>5, <1>6
<1>8. \A k \in 1 .. Len(x) : t[i + k - 1] = x[k]
  BY <1>3, <1>5, <1>7
<1>9. QED
  BY <1>4, <1>6, <1>8 DEF Occurs

LEMMA OccursMore ==
    ASSUME NEW ds \in Seq(Keys), NEW t \in Seq(Keys), NEW d \in Seq(Keys), Occurs(ds, t)
    PROVE  Occurs(ds, t \o d)
<1>1. PICK i \in 1 .. Len(t) : i + Len(ds) <= Len(t) + 1 /\ \A k \in 1 .. Len(ds) : t[i + k - 1] = ds[k]
  BY DEF Occurs
<1> DEFINE u == t \o d
<1>2. Len(ds) \in Nat /\ Len(t) \in Nat /\ Len(d) \in Nat
  OBVIOUS
<1>3. Len(u) = Len(t) + Len(d) /\ \A k \in 1 .. Len(t) + Len(d) : u[k] = IF k <= Len(t) THEN t[k] ELSE d[k - Len(t)]
  BY ConcatProperties
<1>. HIDE DEF u
<1>4. i \in 1 .. Len(u) /\ i + Len(ds) <= Len(u) + 1
  BY <1>1, <1>2, <1>3
<1>5. \A k \in 1 .. Len(ds) : i + k - 1 \in 1 .. Len(t) + Len(d) /\ i + k - 1 <= Len(t)
  BY <1>1, <1>2
<1>6. \A k \in 1 .. Len(ds) : u[i + k - 1] = ds[k]
  BY <1>1, <1>3, <1>5
<1>7. QED
  BY <1>4, <1>6 DEF Occurs, u

LEMMA OccursIsRun ==
    ASSUME NEW ds \in Seq(Keys), NEW t \in Seq(Keys), Occurs(ds, t)
    PROVE  \E i \in 1 .. Len(t) : IsPrefix(ds, SubSeq(t, i, Len(t)))
<1>1. PICK i \in 1 .. Len(t) : i + Len(ds) <= Len(t) + 1 /\ \A k \in 1 .. Len(ds) : t[i + k - 1] = ds[k]
  BY DEF Occurs
<1> DEFINE s == SubSeq(t, i, Len(t))
           n == Len(ds)
<1>2. n \in Nat /\ Len(t) \in Nat
  OBVIOUS
<1>3. /\ s \in Seq(Keys) /\ Len(s) = Len(t) - i + 1
      /\ \A k \in 1 .. Len(t) - i + 1 : s[k] = t[i + k - 1]
  BY <1>2
<1>. HIDE DEF s
<1>4. n <= Len(s)
  BY <1>1, <1>2, <1>3
<1>5. \A k \in 1 .. n : s[k] = ds[k]
  <2>1. \A k \in 1 .. n : k \in 1 .. Len(t) - i + 1
    BY <1>1, <1>2
  <2>2. QED
    BY <1>1, <1>3, <2>1
<1>6. SubSeq(ds, 1, n) = ds
  BY SubSeqFull
<1>7. SubSeq(s, 1, n) = ds
  <2>1. \A k \in 1 .. n : s[k] \in Keys
    BY <1>5
  <2>2. /\ SubSeq(s, 1, n) \in Seq(Keys)
        /\ Len(SubSeq(s, 1, n)) = IF 1 <= n THEN n - 1 + 1 ELSE 0
        /\ \A k \in 1 .. n - 1 + 1 : SubSeq(s, 1, n)[k] = s[1 + k - 1]
    BY <1>2, <2>1, SubSeqProperties
  <2>3. Len(SubSeq(s, 1, n)) = Len(ds)
    BY <1>2, <2>2
  <2>4. \A k \in 1 .. n : k \in 1 .. n - 1 + 1 /\ 1 + k - 1 = k
    BY <1>2
  <2>5. \A k \in 1 .. n : SubSeq(s, 1, n)[k] = ds[k]
    BY <1>5, <2>2, <2>4
  <2>6. \A k \in 1 .. Len(SubSeq(s, 1, n)) : SubSeq(s, 1, n)[k] = ds[k]
    BY <2>3, <2>5
  <2>. DEFINE u == SubSeq(s, 1, n)
  <2>7. u \in Seq(Keys) /\ Len(u) = Len(ds) /\ \A k \in 1 .. Len(u) : u[k] = ds[k]
    BY <2>2, <2>3, <2>6
  <2>. HIDE DEF u
  <2>8. u = ds
    BY <2>7, SeqEqual
  <2>9. QED
    BY <2>8 DEF u
<1>8. IsPrefix(ds, s)
  BY <1>4, <1>6, <1>7 DEF IsPrefix
<1>9. QED
  BY <1>8 DEF s

-----------------------------------------------------------------------------
(* LegEvents: what a call.wait makes of the digits it reads.                *)

Typed(out) == out \in {"matched", "fallback"}

LEMMA AnswerIs ==
    ASSUME NEW l \in Leg \cup {Nobody}, NEW out \in Outs, NEW x \in Seq(Keys)
    PROVE  /\ Answer(l, out, x) \in Answers
           /\ Answer(l, out, x).leg = l /\ Answer(l, out, x).out = out /\ Answer(l, out, x).digits = x
BY DEF Answer, Answers

LEMMA ToldIs ==
    ASSUME NEW out \in Outs
    PROVE  Told(out) \in Answers /\ Told(out).out = out
<1> DEFINE none == <<>>
<1>1. none \in Seq(Keys) /\ Nobody \in Leg \cup {Nobody}
  OBVIOUS
<1>. HIDE DEF none
<1>2. Answer(Nobody, out, none) \in Answers /\ Answer(Nobody, out, none).out = out
  BY <1>1, AnswerIs
<1>3. QED
  BY <1>2 DEF Told, none

LEMMA UnansweredIs == Unanswered \in Answers /\ Unanswered.out = "none"
<1>1. "none" \in Outs /\ Unanswered = Told("none")
  BY DEF Outs, Told, Unanswered
<1>2. QED
  BY <1>1, ToldIs

LEMMA StrippedIsPiece ==
    ASSUME NEW ds \in Seq(Keys)
    PROVE  PieceOf(Stripped(ds), ds) /\ PieceOf(ds, ds)
<1>1. Len(ds) \in Nat /\ Len(Terminator) \in Nat
  BY LegEventsAssumption DEF LegEventsAssumption
<1>2. Len(ds) - Len(Terminator) \in Int /\ Len(ds) - Len(Terminator) <= Len(ds)
  BY <1>1
<1>3. QED
  BY <1>2 DEF PieceOf, Stripped

\* The digits are kept or dropped, and a report is about them.
LEMMA ProcessDigitsIs ==
    ASSUME NEW l \in Leg, NEW ds \in Seq(Keys), NEW o
    PROVE  LET r == ProcessDigits(l, ds, o)
           IN /\ r.digits \in Seq(Keys) /\ r.answer \in Answers
              /\ r.answer = Unanswered => r.digits = ds \/ r.digits = <<>>
              /\ r.answer = Unanswered \/ (Typed(r.answer.out) /\ r.answer.leg = l /\ PieceOf(r.answer.digits, ds))
<1> DEFINE r == ProcessDigits(l, ds, o)
<1>1. \/ r = Report(l, "matched", ds) \/ r = Report(l, "matched", Stripped(ds))
      \/ r = Report(l, "fallback", ds) \/ r = Report(l, "fallback", Stripped(ds))
      \/ r = Keep(ds) \/ r = Keep(<<>>)
  BY DEF ProcessDigits
<1>. HIDE DEF r
<1>2. \A x \in {ds, Stripped(ds)} : PieceOf(x, ds) /\ x \in Seq(Keys)
  BY StrippedIsPiece, PieceIs
<1>3. ASSUME r = Keep(ds) \/ r = Keep(<<>>)
      PROVE  r.digits \in Seq(Keys) /\ r.answer = Unanswered /\ (r.digits = ds \/ r.digits = <<>>)
  <2>1. \A x \in Seq(Keys) : Keep(x).digits = x /\ Keep(x).answer = Unanswered
    BY DEF Keep
  <2>2. <<>> \in Seq(Keys)
    OBVIOUS
  <2>3. QED
    BY <1>3, <2>1, <2>2
<1>4. ASSUME NEW x \in {ds, Stripped(ds)}, NEW out \in {"matched", "fallback"}, r = Report(l, out, x)
      PROVE  /\ r.digits \in Seq(Keys) /\ r.answer \in Answers
             /\ r.answer = Unanswered => r.digits = ds \/ r.digits = <<>>
             /\ r.answer = Unanswered \/ (Typed(r.answer.out) /\ r.answer.leg = l /\ PieceOf(r.answer.digits, ds))
  <2>0. \A y \in Seq(Keys) : /\ Answer(l, out, y) \in Answers /\ Answer(l, out, y).leg = l
                             /\ Answer(l, out, y).out = out /\ Answer(l, out, y).digits = y
    <3>1. out \in Outs /\ l \in Leg \cup {Nobody}
      BY DEF Outs
    <3>2. QED
      BY <3>1, AnswerIs
  <2>1. r.digits = x /\ r.answer = Answer(l, out, x)
    BY <1>4 DEF Report
  <2>2. r.answer.out # "none"
    BY <1>2, <2>0, <2>1
  <2>3. QED
    BY <1>2, <2>0, <2>1, <2>2, UnansweredIs DEF Typed
<1>5. QED
  BY <1>1, <1>3, <1>4, UnansweredIs DEF r

\* A call.wait reads the first of the events q that follow the digits it holds.
LEMMA ProcessEventIs ==
    ASSUME NEW l \in Leg, NEW ds \in Seq(Keys), NEW e \in Event, NEW o
    PROVE  LET r == ProcessEvent(l, ds, e, o)
           IN /\ r.digits \in Seq(Keys) /\ r.answer \in Answers
              /\ Typed(r.answer.out) => r.answer.leg = l
              /\ e = Ended => r.answer # Unanswered
              /\ \A q \in Seq(Event), t \in Seq(Keys) : q # <<>> /\ Head(q) = e /\ Follows(q, ds, t) =>
                    /\ r.answer = Unanswered => Follows(Tail(q), r.digits, t)
                    /\ Typed(r.answer.out) => Occurs(r.answer.digits, t)
<1> DEFINE r == ProcessEvent(l, ds, e, o)
<1>0. /\ \A out \in {"interrupt", "ended"} :
            Answer(l, out, <<>>) \in Answers /\ Answer(l, out, <<>>).out = out
      /\ Unanswered.out = "none" /\ Unanswered \in Answers
  <2> DEFINE none == <<>>
  <2>1. none \in Seq(Keys) /\ l \in Leg \cup {Nobody} /\ {"interrupt", "ended"} \subseteq Outs
    BY DEF Outs
  <2>. HIDE DEF none
  <2>2. \A out \in {"interrupt", "ended"} :
            Answer(l, out, none) \in Answers /\ Answer(l, out, none).out = out
    BY <2>1, AnswerIs
  <2>3. QED
    BY <2>2, UnansweredIs DEF none
<1>1. CASE ~IsDtmf(e)
  <2>1. /\ r.digits = ds
        /\ r.answer = Answer(l, "ended", <<>>) \/ (r.answer = Answer(l, "interrupt", <<>>) \/ r.answer = Unanswered)
        /\ e = Ended => r.answer = Answer(l, "ended", <<>>)
    <3>1. CASE e = Ended
      BY <3>1 DEF ProcessEvent, Ended
    <3>2. CASE e = [kind |-> "interrupt"]
      BY <3>2 DEF ProcessEvent, Ended
    <3>3. QED
      BY <1>1, <3>1, <3>2, EventIs
  <2>. HIDE DEF r
  <2>2. r.answer \in Answers /\ ~Typed(r.answer.out) /\ (e = Ended => r.answer # Unanswered)
    BY <1>0, <2>1 DEF Typed
  <2>3. \A q \in Seq(Event), t \in Seq(Keys) :
           q # <<>> /\ Head(q) = e /\ Follows(q, ds, t) => Follows(Tail(q), ds, t)
    BY <1>1, FollowsRead
  <2>4. QED
    BY <2>1, <2>2, <2>3 DEF r
<1>2. CASE IsDtmf(e)
  <2> DEFINE both == ds \o e.digits
  <2>1. e.digits \in Seq(Keys) /\ e.digits # <<>> /\ e # Ended
    BY <1>2, EventIs DEF IsDtmf, Ended
  <2>2. both \in Seq(Keys) /\ both # <<>>
    BY <2>1, ConcatProperties, ConcatEqualIffEmpty
  <2>3. r = ProcessDigits(l, both, o)
    BY <1>2 DEF ProcessEvent, IsDtmf
  <2>4. \A q \in Seq(Event), t \in Seq(Keys) :
           q # <<>> /\ Head(q) = e /\ Follows(q, ds, t) => Follows(Tail(q), both, t)
    BY <1>2, FollowsRead
  <2>. HIDE DEF both, r
  <2>5. /\ r.digits \in Seq(Keys) /\ r.answer \in Answers
        /\ r.answer = Unanswered => r.digits = both \/ r.digits = <<>>
        /\ r.answer = Unanswered \/ (Typed(r.answer.out) /\ r.answer.leg = l /\ PieceOf(r.answer.digits, both))
    BY <2>2, <2>3, ProcessDigitsIs
  <2>6. Typed(r.answer.out) => r.answer # Unanswered
    BY <1>0 DEF Typed
  <2>7. ASSUME NEW q \in Seq(Event), NEW t \in Seq(Keys), q # <<>>, Head(q) = e, Follows(q, ds, t)
        PROVE  /\ r.answer = Unanswered => Follows(Tail(q), r.digits, t)
               /\ Typed(r.answer.out) => Occurs(r.answer.digits, t)
    <3>1. Tail(q) \in Seq(Event) /\ Follows(Tail(q), both, t)
      BY <2>4, <2>7
    <3>2. Follows(Tail(q), <<>>, t)
      BY <3>1, FollowsLess
    <3>3. r.answer = Unanswered => Follows(Tail(q), r.digits, t)
      BY <2>5, <3>1, <3>2
    <3>4. Typed(r.answer.out) => Occurs(r.answer.digits, t)
      BY <2>2, <2>5, <2>6, <3>1, HeldOccurs
    <3>5. QED
      BY <3>3, <3>4
  <2>8. QED
    BY <2>1, <2>5, <2>6, <2>7 DEF r
<1>3. QED
  BY <1>1, <1>2

\* What is held when the time is up.
LEMMA FinalizeDigitsIs ==
    ASSUME NEW l \in Leg, NEW ds \in Seq(Keys), NEW o
    PROVE  LET r == FinalizeDigits(l, ds, o)
           IN \/ r = Unanswered
              \/ r \in Answers /\ Typed(r.out) /\ r.leg = l /\ ds # <<>> /\ PieceOf(r.digits, ds)
<1> DEFINE r == FinalizeDigits(l, ds, o)
<1>1. \/ r = Unanswered
      \/ /\ ds # <<>>
         /\ \/ r = Answer(l, "matched", ds) \/ r = Answer(l, "matched", Stripped(ds))
            \/ r = Answer(l, "fallback", ds) \/ r = Answer(l, "fallback", Stripped(ds))
  BY DEF FinalizeDigits
<1>. HIDE DEF r
<1>2. \A x \in {ds, Stripped(ds)} : PieceOf(x, ds) /\ x \in Seq(Keys)
  BY StrippedIsPiece, PieceIs
<1>3. \A out \in {"matched", "fallback"}, x \in {ds, Stripped(ds)} :
         LET a == Answer(l, out, x)
         IN a \in Answers /\ Typed(a.out) /\ a.leg = l /\ PieceOf(a.digits, ds)
  <2>1. l \in Leg \cup {Nobody} /\ {"matched", "fallback"} \subseteq Outs
    BY DEF Outs
  <2>2. QED
    BY <1>2, <2>1, AnswerIs DEF Typed
<1>4. QED
  BY <1>1, <1>3 DEF r

LEMMA FinalizedIs ==
    ASSUME NEW order \in Seq(Leg), NEW o, NEW ds \in [Leg -> Seq(Keys)]
    PROVE  LET r == Finalized(order, o, ds)
           IN /\ r \in Answers /\ r # Unanswered
              /\ Typed(r.out) => r.leg \in ToSet(order) /\ ds[r.leg] # <<>> /\ PieceOf(r.digits, ds[r.leg])
<1> DEFINE worth(i) == FinalizeDigits(order[i], ds[order[i]], o)
           some == {i \in DOMAIN order : worth(i) # Unanswered}
           r == Finalized(order, o, ds)
<1>1. CASE some = {}
  <2>1. r = Told("timeout")
    BY <1>1 DEF Finalized
  <2>2. r \in Answers /\ r.out = "timeout"
    BY <2>1, ToldIs DEF Outs
  <2>3. QED
    BY <2>2, UnansweredIs DEF Typed
<1>2. CASE some # {}
  <2>1. r = worth(Min(some))
    BY <1>2 DEF Finalized
  <2>2. some \in SUBSET Nat
    OBVIOUS
  <2>3. Min(some) \in some
    <3>. HIDE DEF some
    <3>1. QED
      BY <1>2, <2>2, MinIsLeast
  <2>4. PICK i \in DOMAIN order : r = worth(i) /\ worth(i) # Unanswered
    BY <2>1, <2>3
  <2>5. order[i] \in Leg /\ ds[order[i]] \in Seq(Keys) /\ order[i] \in ToSet(order)
    BY DEF ToSet
  <2>6. /\ worth(i) \in Answers /\ worth(i).leg = order[i]
        /\ ds[order[i]] # <<>> /\ PieceOf(worth(i).digits, ds[order[i]])
    <3>1. \A l \in Leg, d \in Seq(Keys) :
             LET a == FinalizeDigits(l, d, o)
             IN a = Unanswered \/ (a \in Answers /\ a.leg = l /\ d # <<>> /\ PieceOf(a.digits, d))
      BY FinalizeDigitsIs
    <3>2. QED
      BY <2>4, <2>5, <3>1
  <2>. HIDE DEF worth, r
  <2>7. QED
    BY <2>4, <2>5, <2>6 DEF r
<1>3. QED
  BY <1>1, <1>2

\* Each leg was read once, or was not.
LEMMA OnePassIs ==
    ASSUME NEW order \in Seq(Leg), NEW o, NEW r, r.queue \in [Leg -> Seq(Event)],
           r.digits \in [Leg -> Seq(Keys)], r.from \in SUBSET Leg
    PROVE  LET n == OnePass(order, o, r)
               result(l) == ProcessEvent(l, r.digits[l], Head(r.queue[l]), o)
               taken(l) == /\ l \in ToSet(order) /\ r.queue[l] # <<>> /\ n.queue[l] = Tail(r.queue[l])
                           /\ n.digits[l] = result(l).digits
                           /\ IsDtmf(Head(r.queue[l])) => l \in n.from
                           /\ n.answer = Unanswered => result(l).answer = Unanswered
           IN /\ n.queue \in [Leg -> Seq(Event)] /\ n.digits \in [Leg -> Seq(Keys)] /\ n.answer \in Answers
              /\ n.from \in SUBSET Leg /\ r.from \subseteq n.from
              /\ \A l \in Leg : taken(l) \/ (n.queue[l] = r.queue[l] /\ n.digits[l] = r.digits[l])
              /\ n.answer # Unanswered =>
                    \E l \in ToSet(order) : r.queue[l] # <<>> /\ n.answer = result(l).answer
<1> DEFINE n == OnePass(order, o, r)
           result(l) == ProcessEvent(l, r.digits[l], Head(r.queue[l]), o)
           all == {i \in DOMAIN order : leg[order[i]] # "gone" /\ r.queue[order[i]] # <<>>}
           answers == {i \in all : result(order[i]).answer # Unanswered}
           read == {i \in all : \A j \in answers : i <= j}
           legsRead == {order[i] : i \in read}
           at(l) == CHOOSE i \in read : order[i] = l
<1>1. n = [queue |-> [l \in Leg |-> IF l \in legsRead THEN Tail(r.queue[l]) ELSE r.queue[l]],
           digits |-> [l \in Leg |-> IF l \in legsRead THEN result(order[at(l)]).digits ELSE r.digits[l]],
           answer |-> IF answers = {} THEN Unanswered ELSE result(order[Min(answers)]).answer,
           from |-> r.from \cup {l \in legsRead : IsDtmf(Head(r.queue[l]))}]
  BY DEF OnePass
<1>2. \A l \in legsRead : l \in ToSet(order) /\ l \in Leg /\ r.queue[l] # <<>> /\ order[at(l)] = l /\ at(l) \in all
  <2>1. \A i \in read : i \in DOMAIN order /\ i \in all /\ r.queue[order[i]] # <<>>
    OBVIOUS
  <2>2. \A l \in legsRead : at(l) \in read /\ order[at(l)] = l
    OBVIOUS
  <2>3. \A i \in DOMAIN order : order[i] \in Leg /\ order[i] \in ToSet(order)
    BY DEF ToSet
  <2>. HIDE DEF read, all, at
  <2>4. QED
    BY <2>1, <2>2, <2>3
<1>3. \A l \in Leg : r.queue[l] # <<>> => /\ Head(r.queue[l]) \in Event /\ Tail(r.queue[l]) \in Seq(Event)
                                            /\ result(l).digits \in Seq(Keys) /\ result(l).answer \in Answers
  <2>1. SUFFICES ASSUME NEW l \in Leg, r.queue[l] # <<>>
                 PROVE  /\ Head(r.queue[l]) \in Event /\ Tail(r.queue[l]) \in Seq(Event)
                        /\ result(l).digits \in Seq(Keys) /\ result(l).answer \in Answers
    OBVIOUS
  <2>2. Head(r.queue[l]) \in Event /\ Tail(r.queue[l]) \in Seq(Event) /\ r.digits[l] \in Seq(Keys)
    BY <2>1
  <2>3. QED
    BY <2>2, ProcessEventIs
<1>4. answers # {} => Min(answers) \in answers
  <2>1. answers \in SUBSET Nat
    OBVIOUS
  <2>. HIDE DEF answers
  <2>2. QED
    BY <2>1, MinIsLeast
<1>5. \A i \in answers : /\ i \in DOMAIN order /\ order[i] \in ToSet(order) /\ order[i] \in Leg /\ r.queue[order[i]] # <<>>
                         /\ result(order[i]).answer # Unanswered
  BY DEF ToSet
<1>6. \A i \in all : i \notin answers => result(order[i]).answer = Unanswered
  OBVIOUS
<1>. HIDE DEF n, result, all, answers, read, legsRead, at
<1>7. n.queue \in [Leg -> Seq(Event)] /\ n.digits \in [Leg -> Seq(Keys)]
  <2>1. \A l \in Leg : (IF l \in legsRead THEN Tail(r.queue[l]) ELSE r.queue[l]) \in Seq(Event)
    BY <1>2, <1>3
  <2>2. \A l \in Leg : (IF l \in legsRead THEN result(order[at(l)]).digits ELSE r.digits[l]) \in Seq(Keys)
    BY <1>2, <1>3
  <2>3. QED
    BY <1>1, <2>1, <2>2
<1>8. /\ n.answer = IF answers = {} THEN Unanswered ELSE result(order[Min(answers)]).answer
      /\ n.from = r.from \cup {l \in legsRead : IsDtmf(Head(r.queue[l]))}
  BY <1>1
<1>9. \A l \in Leg : /\ n.queue[l] = IF l \in legsRead THEN Tail(r.queue[l]) ELSE r.queue[l]
                     /\ n.digits[l] = IF l \in legsRead THEN result(order[at(l)]).digits ELSE r.digits[l]
  BY <1>1
<1>10. n.answer \in Answers
  BY <1>3, <1>4, <1>5, <1>8, UnansweredIs
<1>11. n.from \in SUBSET Leg /\ r.from \subseteq n.from
  BY <1>2, <1>8
<1>12. n.answer # Unanswered => \E l \in ToSet(order) : r.queue[l] # <<>> /\ n.answer = result(l).answer
  BY <1>4, <1>5, <1>8
<1>13. n.answer = Unanswered => answers = {}
  BY <1>4, <1>5, <1>8
<1>14. ASSUME NEW l \in Leg, l \in legsRead
       PROVE  /\ l \in ToSet(order) /\ r.queue[l] # <<>> /\ n.queue[l] = Tail(r.queue[l])
              /\ n.digits[l] = result(l).digits
              /\ IsDtmf(Head(r.queue[l])) => l \in n.from
              /\ n.answer = Unanswered => result(l).answer = Unanswered
  <2>1. l \in ToSet(order) /\ r.queue[l] # <<>> /\ order[at(l)] = l /\ at(l) \in all
    BY <1>2, <1>14
  <2>2. n.queue[l] = Tail(r.queue[l]) /\ n.digits[l] = result(l).digits
    BY <1>9, <1>14, <2>1
  <2>3. n.answer = Unanswered => result(l).answer = Unanswered
    BY <1>6, <1>13, <2>1
  <2>4. QED
    BY <1>8, <1>14, <2>1, <2>2, <2>3
<1>15. QED
  BY <1>7, <1>9, <1>10, <1>11, <1>12, <1>14 DEF n, result

-----------------------------------------------------------------------------
(* LegEvents: the steps of one wait.                                        *)

\* One wait steps: it goes on or is over, looked at what woke it, changed no
\* listener but its own, and what it took from a queue it took down.
StepOf(w) ==
    /\ leg' = leg /\ typed' = typed
    /\ \A v \in Wait \ {w} : /\ kind'[v] = kind[v] /\ phase'[v] = phase[v] /\ frame'[v] = frame[v]
                             /\ news'[v] = news[v] /\ answer'[v] = answer[v]
    /\ phase'[w] \in {"waiting", "over"} /\ news'[w] = NoNews
    /\ \A l \in Leg :
          /\ Len(queue'[l]) <= QueueLimit /\ (queue[l] = <<>> => queue'[l] = <<>>)
          /\ Reads(l) = {} /\ w \notin readers'[l] => Follows(queue'[l], <<>>, typed[l])
          /\ readers[l] \subseteq readers'[l] /\ readers'[l] \subseteq readers[l] \cup {w}
          /\ Handed(w, l) /\ IsDtmf(news[w].event) => w \in readers'[l]
          /\ IsInjective(listeners'[l]) /\ ToSet(listeners'[l]) \ {w} = ToSet(listeners[l]) \ {w}
          /\ ToSet(watchers'[l]) \ {w} \subseteq ToSet(watchers[l])
    /\ missed \subseteq missed' /\ missed' \subseteq missed \cup {w}

\* No digit is given back.
LEMMA StepReads ==
    ASSUME NEW w \in Wait, StepOf(w), NEW l \in Leg
    PROVE  Reads(l) \subseteq Reads(l)' /\ Reads(l)' \subseteq Reads(l) \cup {w}
<1>1. \A v \in Wait \ {w} : news'[v] = news[v]
  BY DEF StepOf
<1>2. /\ readers[l] \subseteq readers'[l] /\ readers'[l] \subseteq readers[l] \cup {w}
      /\ Handed(w, l) /\ IsDtmf(news[w].event) => w \in readers'[l]
  BY DEF StepOf
<1>3. ASSUME NEW v \in Reads(l)
      PROVE  v \in Reads(l)'
  <2>1. CASE v \in readers[l]
    BY <1>2, <2>1 DEF Reads
  <2>2. CASE v \in Wait /\ Handed(v, l) /\ IsDtmf(news[v].event) /\ v = w
    BY <1>2, <2>2 DEF Reads
  <2>3. CASE v \in Wait /\ Handed(v, l) /\ IsDtmf(news[v].event) /\ v # w
    BY <1>1, <2>3 DEF Reads, Handed
  <2>4. QED
    BY <2>1, <2>2, <2>3 DEF Reads
<1>4. ASSUME NEW v \in Reads(l)', v # w
      PROVE  v \in Reads(l)
  <2>1. CASE v \in readers'[l]
    BY <1>2, <1>4, <2>1 DEF Reads
  <2>2. CASE v \in Wait /\ Handed(v, l)' /\ IsDtmf(news'[v].event)
    BY <1>1, <1>4, <2>2 DEF Reads, Handed
  <2>3. QED
    BY <2>1, <2>2 DEF Reads
<1>5. QED
  BY <1>3, <1>4

LEMMA StepKeepsLegs ==
    ASSUME EvInv, NEW w \in Wait, StepOf(w), NEW l \in Leg
    PROVE  LegInv(l)'
<1>1. Reads(l)' = {} => Reads(l) = {} /\ w \notin readers'[l]
  BY StepReads DEF Reads
<1>2. /\ Len(queue'[l]) <= QueueLimit /\ IsInjective(listeners'[l]) /\ typed' = typed
      /\ Reads(l) = {} /\ w \notin readers'[l] => Follows(queue'[l], <<>>, typed[l])
  BY DEF StepOf
<1>3. QED
  BY <1>1, <1>2 DEF LegInv

LEMMA StepKeepsOthers ==
    ASSUME EvInv, NEW w \in Wait, StepOf(w), NEW v \in Wait \ {w}
    PROVE  WaitInv(v)'
<1>1. WaitInv(v)
  BY DEF EvInv
<1>2. /\ kind'[v] = kind[v] /\ phase'[v] = phase[v] /\ frame'[v] = frame[v]
      /\ news'[v] = news[v] /\ answer'[v] = answer[v]
      /\ leg' = leg /\ typed' = typed /\ phase'[w] # "woken"
      /\ v \in missed <=> v \in missed'
  BY DEF StepOf
<1>3. \A l \in Leg : /\ v \in readers'[l] <=> v \in readers[l]
                     /\ readers[l] \subseteq readers'[l]
                     /\ v \in ToSet(listeners'[l]) <=> v \in ToSet(listeners[l])
                     /\ v \in ToSet(watchers'[l]) => v \in ToSet(watchers[l])
                     /\ queue[l] = <<>> => queue'[l] = <<>>
  BY DEF StepOf
<1>4. \A l \in Leg : Reads(l) \subseteq Reads(l)'
  BY StepReads
<1>5. Phases(v)'
  BY <1>1, <1>2, <1>3 DEF WaitInv, Phases, Underway
<1>6. Listens(v)'
  BY <1>1, <1>2, <1>3 DEF WaitInv, Listens, Listening, Watching, Underway, LegsOf
<1>7. Unheard(v)'
  BY <1>1, <1>2, <1>3 DEF WaitInv, Unheard, Listening
<1>8. frame[v].legs \in Seq(Leg) /\ \A l \in LegsOf(v) : l \in Leg
  BY DEF EvInv, EvTypes, Frames, LegsOf, ToSet
<1>9. CallListens(v)' /\ CallIsAlive(v)'
  BY <1>1, <1>2, <1>3, <1>8 DEF WaitInv, CallListens, CallIsAlive, LegsOf, Listening
<1>10. Wanted(v)'
  <2>1. Wants(v, news[v].event)' <=> Wants(v, news[v].event)
    BY <1>2 DEF Wants
  <2>2. \A u \in Wait \ {v} : phase'[u] = "woken" => phase[u] = "woken"
    BY <1>2 DEF StepOf
  <2>3. QED
    BY <1>1, <1>2, <2>1, <2>2 DEF WaitInv, Wanted, LegsOf
<1>11. HoldsLast(v)'
  <2>1. SUFFICES ASSUME kind[v] = "call", Underway(v), v \notin missed, NEW l \in LegsOf(v)
                 PROVE  /\ queue'[l] = <<>>
                        /\ Reads(l)' \subseteq {v} => Follows(Due(v, l), frame[v].digits[l], typed[l])
    BY <1>2 DEF HoldsLast, Underway, LegsOf, Due, Handed
  <2>2. l \in Leg
    BY <1>8
  <2>3. queue[l] = <<>> /\ (Reads(l) \subseteq {v} => Follows(Due(v, l), frame[v].digits[l], typed[l]))
    BY <1>1, <2>1 DEF WaitInv, HoldsLast
  <2>4. QED
    BY <1>3, <1>4, <2>2, <2>3
<1>12. AnswersTyped(v)'
  BY <1>1, <1>2, <1>3 DEF WaitInv, AnswersTyped
<1>13. QED
  BY <1>5, <1>6, <1>7, <1>9, <1>10, <1>11, <1>12 DEF WaitInv

LEMMA OverKeepsWait ==
    ASSUME NEW w \in Wait, StepOf(w), phase'[w] = "over", frame'[w] = NoFrame, kind'[w] # "none",
           answer'[w] # Unanswered, AnswersTyped(w)',
           \A l \in Leg : w \notin ToSet(listeners'[l]) /\ w \notin ToSet(watchers'[l])
    PROVE  WaitInv(w)'
<1>1. news'[w] = NoNews /\ news'[w].what = "none"
  BY DEF StepOf, NoNews
<1>2. Phases(w)'
  BY <1>1 DEF Phases, Underway
<1>3. Listens(w)' /\ Unheard(w)' /\ CallListens(w)' /\ CallIsAlive(w)'
  BY <1>1 DEF Listens, Listening, Watching, Unheard, CallListens, CallIsAlive
<1>4. Wanted(w)' /\ HoldsLast(w)'
  BY <1>1 DEF Wanted, HoldsLast, Underway
<1>5. QED
  BY <1>2, <1>3, <1>4 DEF WaitInv

LEMMA GoOnKeepsWait ==
    ASSUME NEW w \in Wait, StepOf(w), phase'[w] = "waiting", kind'[w] # "none",
           frame'[w].legs # <<>>, IsInjective(frame'[w].legs), frame'[w].opts \in Options[kind'[w]],
           kind'[w] # "call" => Len(frame'[w].legs) = 1,
           answer'[w] # Unanswered => kind'[w] = "media" /\ answer'[w].out = "cancelled",
           \A l \in Leg : /\ w \in ToSet(listeners'[l]) => l \in ToSet(frame'[w].legs)
                          /\ w \in ToSet(watchers'[l]) => l \in ToSet(frame'[w].legs) /\ kind'[w] = "media",
           CallListens(w)', HoldsLast(w)'
    PROVE  WaitInv(w)'
<1>1. news'[w] = NoNews /\ news'[w].what = "none"
  BY DEF StepOf, NoNews
<1>2. frame'[w] # NoFrame
  BY DEF NoFrame
<1>3. Phases(w)'
  BY <1>1, <1>2 DEF Phases, Underway
<1>4. Listens(w)'
  BY DEF Listens, Listening, Watching, Underway, LegsOf
<1>5. Unheard(w)' /\ CallIsAlive(w)' /\ Wanted(w)'
  BY <1>1 DEF Unheard, CallIsAlive, Wanted
<1>6. AnswersTyped(w)'
  BY UnansweredIs DEF AnswersTyped
<1>7. QED
  BY <1>3, <1>4, <1>5, <1>6 DEF WaitInv

\* What the steps are made of.
LEMMA BecomeIs ==
    ASSUME EvTypes, NEW w \in Wait, NEW p \in {"waiting", "over"}, NEW f \in Frames, Become(w, p, f)
    PROVE  /\ phase' \in [Wait -> {"none", "waiting", "woken", "over"}]
           /\ frame' \in [Wait -> Frames] /\ news' \in [Wait -> News]
           /\ phase'[w] = p /\ frame'[w] = f /\ news'[w] = NoNews
           /\ \A v \in Wait \ {w} : phase'[v] = phase[v] /\ frame'[v] = frame[v] /\ news'[v] = news[v]
<1>1. NoNews \in News
  BY DEF News
<1>2. QED
  BY <1>1 DEF EvTypes, Become

LEMMA FramesAre ==
    /\ NoFrame \in Frames
    /\ \A l \in Leg, o \in AnyOptions : /\ On(l, o) \in Frames /\ On(l, o).legs = <<l>> /\ On(l, o).opts = o
                                        /\ <<l>> # <<>> /\ IsInjective(<<l>>) /\ Len(<<l>>) = 1
                                        /\ ToSet(<<l>>) = {l}
<1>1. NoDigits \in [Leg -> Seq(Keys)]
  BY DEF NoDigits
<1>2. <<>> \in AnyOptions
  BY DEF AnyOptions
<1>3. NoFrame \in Frames
  BY <1>1, <1>2 DEF NoFrame, Frames
<1>4. ASSUME NEW l \in Leg, NEW o \in AnyOptions
      PROVE  /\ On(l, o) \in Frames /\ On(l, o).legs = <<l>> /\ On(l, o).opts = o
             /\ <<l>> # <<>> /\ IsInjective(<<l>>) /\ Len(<<l>>) = 1
             /\ ToSet(<<l>>) = {l}
  <2>1. <<l>> \in Seq(Leg) /\ <<l>> # <<>> /\ Len(<<l>>) = 1
    OBVIOUS
  <2>2. IsInjective(<<l>>)
    BY DEF IsInjective
  <2>3. ToSet(<<l>>) = {l}
    BY DEF ToSet
  <2>4. On(l, o) \in Frames /\ On(l, o).legs = <<l>> /\ On(l, o).opts = o
    BY <1>1, <2>1 DEF On, Frames
  <2>5. QED
    BY <2>1, <2>2, <2>3, <2>4
<1>5. QED
  BY <1>3, <1>4

LEMMA OverIs ==
    ASSUME EvTypes, NEW w \in Wait, NEW a \in Answers, a # Unanswered, Over(w, a)
    PROVE  /\ phase' \in [Wait -> {"none", "waiting", "woken", "over"}]
           /\ frame' \in [Wait -> Frames] /\ news' \in [Wait -> News] /\ answer' \in [Wait -> Answers]
           /\ phase'[w] = "over" /\ frame'[w] = NoFrame /\ news'[w] = NoNews
           /\ answer'[w] = (IF answer[w] = Unanswered THEN a ELSE answer[w])
           /\ answer'[w] # Unanswered
           /\ \A v \in Wait \ {w} : /\ phase'[v] = phase[v] /\ frame'[v] = frame[v]
                                    /\ news'[v] = news[v] /\ answer'[v] = answer[v]
<1>1. Become(w, "over", NoFrame) /\ answer' = [answer EXCEPT ![w] = IF @ = Unanswered THEN a ELSE @]
  BY DEF Over
<1>2. answer \in [Wait -> Answers]
  BY DEF EvTypes
<1>3. /\ answer' \in [Wait -> Answers] /\ answer'[w] = (IF answer[w] = Unanswered THEN a ELSE answer[w])
      /\ answer'[w] # Unanswered /\ \A v \in Wait \ {w} : answer'[v] = answer[v]
  BY <1>1, <1>2
<1>4. QED
  BY <1>1, <1>3, BecomeIs, FramesAre

LEMMA GoOnIs ==
    ASSUME EvTypes, NEW w \in Wait, NEW f \in Frames, GoOn(w, f)
    PROVE  /\ phase' \in [Wait -> {"none", "waiting", "woken", "over"}]
           /\ frame' \in [Wait -> Frames] /\ news' \in [Wait -> News] /\ answer' \in [Wait -> Answers]
           /\ phase'[w] = "waiting" /\ frame'[w] = f /\ news'[w] = NoNews /\ answer' = answer
           /\ \A v \in Wait \ {w} : /\ phase'[v] = phase[v] /\ frame'[v] = frame[v] /\ news'[v] = news[v]
<1>1. Become(w, "waiting", f) /\ answer' = answer
  BY DEF GoOn
<1>2. QED
  BY <1>1, BecomeIs DEF EvTypes

\* ls is listeners or watchers.
LEMMA SilentIs ==
    ASSUME NEW w \in Wait, NEW ls \in [Leg -> Seq(Wait)]
    PROVE  /\ Silent(w, ls) \in [Leg -> Seq(Wait)]
           /\ \A l \in Leg : /\ ToSet(Silent(w, ls)[l]) = ToSet(ls[l]) \ {w}
                             /\ IsInjective(ls[l]) => IsInjective(Silent(w, ls)[l])
<1>1. Silent(w, ls) = [l \in Leg |-> Without(ls[l], w)]
  BY DEF Silent
<1>2. \A l \in Leg : /\ Without(ls[l], w) \in Seq(Wait) /\ ToSet(Without(ls[l], w)) = ToSet(ls[l]) \ {w}
                     /\ IsInjective(ls[l]) => IsInjective(Without(ls[l], w))
  BY WithoutIs
<1>3. QED
  BY <1>1, <1>2

LEMMA AppendedIs ==
    ASSUME NEW s \in Seq(Wait), NEW w \in Wait
    PROVE  /\ ToSet(Append(s, w)) = ToSet(s) \cup {w}
           /\ IsInjective(s) /\ w \notin ToSet(s) => IsInjective(Append(s, w))
<1> DEFINE p == Append(s, w)
<1>1. /\ Len(s) \in Nat /\ DOMAIN s = 1 .. Len(s) /\ DOMAIN p = 1 .. Len(s) + 1
      /\ p[Len(s) + 1] = w /\ \A i \in 1 .. Len(s) : p[i] = s[i]
  OBVIOUS
<1>. HIDE DEF p
<1>2. \A i \in 1 .. Len(s) + 1 : i = Len(s) + 1 \/ i \in 1 .. Len(s)
  BY <1>1
<1>3. \A x \in ToSet(p) : x \in ToSet(s) \cup {w}
  BY <1>1, <1>2 DEF ToSet
<1>4. \A x \in ToSet(s) \cup {w} : x \in ToSet(p)
  <2>1. Len(s) + 1 \in DOMAIN p /\ \A i \in DOMAIN s : i \in DOMAIN p
    BY <1>1
  <2>2. QED
    BY <1>1, <2>1 DEF ToSet
<1>5. ASSUME IsInjective(s), w \notin ToSet(s)
      PROVE  IsInjective(p)
  <2>1. \A i \in 1 .. Len(s) : s[i] # w
    BY <1>1, <1>5 DEF ToSet
  <2>2. SUFFICES ASSUME NEW i \in 1 .. Len(s) + 1, NEW j \in 1 .. Len(s) + 1, p[i] = p[j]
                 PROVE  i = j
    BY <1>1 DEF IsInjective
  <2>3. CASE i = Len(s) + 1
    BY <1>1, <1>2, <2>1, <2>2, <2>3
  <2>4. CASE j = Len(s) + 1
    BY <1>1, <1>2, <2>1, <2>2, <2>4
  <2>5. CASE i # Len(s) + 1 /\ j # Len(s) + 1
    BY <1>1, <1>2, <1>5, <2>2, <2>5 DEF IsInjective
  <2>6. QED
    BY <2>3, <2>4, <2>5
<1>6. QED
  BY <1>3, <1>4, <1>5 DEF p

LEMMA ListenOnIs ==
    ASSUME NEW w \in Wait, NEW ls \in [Leg -> Seq(Wait)], NEW S
    PROVE  /\ ListenOn(S, w, ls) \in [Leg -> Seq(Wait)]
           /\ \A l \in Leg : /\ ToSet(ListenOn(S, w, ls)[l]) = ToSet(ls[l]) \cup (IF l \in S THEN {w} ELSE {})
                             /\ IsInjective(ls[l]) /\ w \notin ToSet(ls[l]) => IsInjective(ListenOn(S, w, ls)[l])
<1>1. ListenOn(S, w, ls) = [l \in Leg |-> IF l \in S THEN Append(ls[l], w) ELSE ls[l]]
  BY DEF ListenOn
<1>2. \A l \in Leg : /\ Append(ls[l], w) \in Seq(Wait) /\ ToSet(Append(ls[l], w)) = ToSet(ls[l]) \cup {w}
                     /\ IsInjective(ls[l]) /\ w \notin ToSet(ls[l]) => IsInjective(Append(ls[l], w))
  BY AppendedIs
<1>3. QED
  BY <1>1, <1>2

LEMMA DrainedIs ==
    ASSUME EvTypes, NEW S
    PROVE  /\ Drained(S) \in [Leg -> Seq(Event)]
           /\ \A l \in Leg : /\ Len(Drained(S)[l]) <= Len(queue[l])
                             /\ queue[l] = <<>> => Drained(S)[l] = <<>>
                             /\ l \notin S => Drained(S)[l] = queue[l]
                             /\ l \in S => \A i \in 1 .. Len(Drained(S)[l]) : ~IsDtmf(Drained(S)[l][i])
<1> DEFINE K(l) == {i \in DOMAIN queue[l] : NotDtmf(queue[l][i])}
<1>1. Drained(S) = [l \in Leg |-> IF l \in S THEN Picked(queue[l], K(l)) ELSE queue[l]]
  BY DEF Drained
<1>2. \A l \in Leg : queue[l] \in Seq(Event) /\ Len(queue[l]) \in Nat
  BY DEF EvTypes
<1>3. ASSUME NEW l \in Leg
      PROVE  LET p == Picked(queue[l], K(l))
             IN /\ p \in Seq(Event) /\ Len(p) <= Len(queue[l])
                /\ queue[l] = <<>> => p = <<>>
                /\ \A i \in 1 .. Len(p) : ~IsDtmf(p[i])
  <2> DEFINE p == Picked(queue[l], K(l))
  <2>1. K(l) \in SUBSET DOMAIN queue[l] /\ \A i \in K(l) : ~IsDtmf(queue[l][i])
    BY DEF NotDtmf
  <2>. HIDE DEF K
  <2>2. /\ p \in Seq(Event) /\ Len(p) <= Len(queue[l])
        /\ \A k \in DOMAIN p : \E i \in K(l) : p[k] = queue[l][i]
    BY <1>2, <2>1, PickedIs
  <2>. HIDE DEF p
  <2>3. \A i \in 1 .. Len(p) : ~IsDtmf(p[i])
    BY <2>1, <2>2
  <2>4. queue[l] = <<>> => p = <<>>
    BY <2>2
  <2>5. QED
    BY <2>2, <2>3, <2>4 DEF p
<1>. HIDE DEF K
<1>4. \A l \in Leg : Drained(S)[l] = IF l \in S THEN Picked(queue[l], K(l)) ELSE queue[l]
  BY <1>1
<1>5. Drained(S) \in [Leg -> Seq(Event)]
  BY <1>1, <1>2, <1>3
<1>6. QED
  BY <1>2, <1>3, <1>4, <1>5

LEMMA DrainedByIs ==
    ASSUME EvTypes, NEW w \in Wait, NEW S, DrainedBy(w, S)
    PROVE  /\ readers' \in [Leg -> SUBSET Wait]
           /\ \A l \in Leg : readers[l] \subseteq readers'[l] /\ readers'[l] \subseteq readers[l] \cup {w}
BY DEF EvTypes, DrainedBy

-----------------------------------------------------------------------------
(* LegEvents: call.wait.                                                    *)

\* What w has read so far, r, and what it holds of each leg, agree with what
\* was typed.
ReaderOf(w, order, r) ==
    /\ r.queue \in [Leg -> Seq(Event)] /\ r.digits \in [Leg -> Seq(Keys)]
    /\ r.answer \in Answers /\ r.from \in SUBSET Leg
    /\ \A l \in Leg : /\ Len(r.queue[l]) <= QueueLimit /\ (queue[l] = <<>> => r.queue[l] = <<>>)
                      /\ Reads(l) = {} => Follows(r.queue[l], <<>>, typed[l])
    /\ Typed(r.answer.out) => r.answer.leg \in ToSet(order)
    /\ w \notin missed => \A l \in ToSet(order) : Reads(l) \subseteq {w} =>
          /\ r.answer = Unanswered => Follows(r.queue[l], r.digits[l], typed[l])
          /\ Typed(r.answer.out) /\ r.answer.leg = l => Occurs(r.answer.digits, typed[l])

LEMMA OnePassReads ==
    ASSUME EvTypes, NEW w \in Wait, NEW order \in Seq(Leg), NEW o, NEW r,
           ReaderOf(w, order, r), r.answer = Unanswered
    PROVE  ReaderOf(w, order, OnePass(order, o, r)) /\ r.from \subseteq OnePass(order, o, r).from
<1> DEFINE n == OnePass(order, o, r)
           result(l) == ProcessEvent(l, r.digits[l], Head(r.queue[l]), o)
<1>0. /\ r.queue \in [Leg -> Seq(Event)] /\ r.digits \in [Leg -> Seq(Keys)]
      /\ r.from \in SUBSET Leg
      /\ \A l \in Leg : /\ Len(r.queue[l]) <= QueueLimit /\ (queue[l] = <<>> => r.queue[l] = <<>>)
                        /\ Reads(l) = {} => Follows(r.queue[l], <<>>, typed[l])
      /\ w \notin missed => \A l \in ToSet(order) : Reads(l) \subseteq {w} =>
            Follows(r.queue[l], r.digits[l], typed[l])
  BY DEF ReaderOf
<1>1. /\ n.queue \in [Leg -> Seq(Event)] /\ n.digits \in [Leg -> Seq(Keys)] /\ n.answer \in Answers
      /\ n.from \in SUBSET Leg /\ r.from \subseteq n.from
      /\ \A l \in Leg : \/ /\ l \in ToSet(order) /\ r.queue[l] # <<>> /\ n.queue[l] = Tail(r.queue[l])
                           /\ n.digits[l] = result(l).digits
                           /\ n.answer = Unanswered => result(l).answer = Unanswered
                        \/ n.queue[l] = r.queue[l] /\ n.digits[l] = r.digits[l]
      /\ n.answer # Unanswered =>
            \E l \in ToSet(order) : r.queue[l] # <<>> /\ n.answer = result(l).answer
  <2> DEFINE taken(l) == /\ l \in ToSet(order) /\ r.queue[l] # <<>> /\ n.queue[l] = Tail(r.queue[l])
                         /\ n.digits[l] = result(l).digits
                         /\ IsDtmf(Head(r.queue[l])) => l \in n.from
                         /\ n.answer = Unanswered => result(l).answer = Unanswered
  <2>1. /\ n.queue \in [Leg -> Seq(Event)] /\ n.digits \in [Leg -> Seq(Keys)] /\ n.answer \in Answers
        /\ n.from \in SUBSET Leg /\ r.from \subseteq n.from
        /\ \A l \in Leg : taken(l) \/ (n.queue[l] = r.queue[l] /\ n.digits[l] = r.digits[l])
        /\ n.answer # Unanswered =>
              \E l \in ToSet(order) : r.queue[l] # <<>> /\ n.answer = result(l).answer
    BY <1>0, OnePassIs
  <2>. HIDE DEF n, result
  <2>2. QED
    BY <2>1
<1>2. \A l \in Leg : r.queue[l] \in Seq(Event) /\ r.digits[l] \in Seq(Keys) /\ typed[l] \in Seq(Keys)
                     /\ Len(r.queue[l]) \in Nat
  BY <1>0 DEF EvTypes
<1>3. \A l \in ToSet(order) : l \in Leg
  BY DEF ToSet
<1>4. ASSUME NEW l \in Leg, r.queue[l] # <<>>
      PROVE  /\ Typed(result(l).answer.out) => result(l).answer.leg = l
             /\ Follows(r.queue[l], r.digits[l], typed[l]) =>
                  /\ result(l).answer = Unanswered => Follows(Tail(r.queue[l]), result(l).digits, typed[l])
                  /\ Typed(result(l).answer.out) => Occurs(result(l).answer.digits, typed[l])
  <2>1. Head(r.queue[l]) \in Event
    BY <1>2, <1>4
  <2>2. QED
    BY <1>2, <1>4, <2>1, ProcessEventIs
<1>. HIDE DEF n, result
<1>5. ASSUME NEW l \in Leg
      PROVE  /\ Len(n.queue[l]) <= QueueLimit /\ (queue[l] = <<>> => n.queue[l] = <<>>)
             /\ Reads(l) = {} => Follows(n.queue[l], <<>>, typed[l])
  <2>1. CASE n.queue[l] = r.queue[l]
    BY <1>0, <2>1
  <2>2. CASE r.queue[l] # <<>> /\ n.queue[l] = Tail(r.queue[l])
    <3>0. QueueLimit \in Nat
      BY LegEventsAssumption DEF LegEventsAssumption
    <3>1. Len(n.queue[l]) <= QueueLimit
      BY <1>0, <1>2, <2>2, <3>0
    <3>2. Reads(l) = {} => Follows(n.queue[l], <<>>, typed[l])
      BY <1>0, <1>2, <2>2, FollowsLess
    <3>3. QED
      BY <1>0, <2>2, <3>1, <3>2
  <2>3. QED
    BY <1>1, <2>1, <2>2
<1>6. Typed(n.answer.out) => n.answer # Unanswered
  BY UnansweredIs DEF Typed
<1>7. Typed(n.answer.out) => n.answer.leg \in ToSet(order)
  BY <1>1, <1>3, <1>4, <1>6
<1>8. ASSUME w \notin missed, NEW l \in ToSet(order), Reads(l) \subseteq {w}
      PROVE  /\ n.answer = Unanswered => Follows(n.queue[l], n.digits[l], typed[l])
             /\ Typed(n.answer.out) /\ n.answer.leg = l => Occurs(n.answer.digits, typed[l])
  <2>1. l \in Leg /\ Follows(r.queue[l], r.digits[l], typed[l])
    BY <1>0, <1>3, <1>8
  <2>2. n.answer = Unanswered => Follows(n.queue[l], n.digits[l], typed[l])
    BY <1>1, <1>4, <2>1
  <2>3. Typed(n.answer.out) /\ n.answer.leg = l => Occurs(n.answer.digits, typed[l])
    <3>1. SUFFICES ASSUME Typed(n.answer.out), n.answer.leg = l
                   PROVE  Occurs(n.answer.digits, typed[l])
      OBVIOUS
    <3>2. PICK m \in ToSet(order) : r.queue[m] # <<>> /\ n.answer = result(m).answer
      BY <1>1, <1>6, <3>1
    <3>3. m = l
      BY <1>3, <1>4, <3>1, <3>2
    <3>4. QED
      BY <1>4, <2>1, <3>1, <3>2, <3>3
  <2>4. QED
    BY <2>2, <2>3
<1>9. ReaderOf(w, order, n) /\ r.from \subseteq n.from
  BY <1>1, <1>5, <1>7, <1>8 DEF ReaderOf
<1>10. QED
  BY <1>9 DEF n

\* Who takes a digit is the only one who is woken.
LEMMA OnlyReader ==
    ASSUME EvInv, NEW w \in Wait, Settled \/ phase[w] = "woken", NEW l \in Leg
    PROVE  Reads(l) \subseteq readers[l] \cup {w}
<1>1. SUFFICES ASSUME NEW v \in Wait, Handed(v, l), IsDtmf(news[v].event), v # w
               PROVE  FALSE
  BY DEF Reads
<1>2. WaitInv(v) /\ WaitInv(w)
  BY DEF EvInv
<1>3. news[v] # NoNews
  BY <1>1 DEF Handed, NoNews
<1>4. phase[v] = "woken"
  BY <1>2, <1>3 DEF WaitInv, Phases
<1>5. phase[w] # "woken"
  BY <1>1, <1>2 DEF WaitInv, Wanted, Handed
<1>6. QED
  BY <1>4, <1>5 DEF Settled

\* The rest of a call.wait, of which ls are the listeners without it.
LEMMA CallGoesOnKeeps ==
    ASSUME EvInv, NEW w \in Wait, NEW order \in Seq(Leg), order # <<>>, IsInjective(order),
           NEW o \in CallOptions, NEW r, NEW ls \in [Leg -> Seq(Wait)], ReaderOf(w, order, r),
           \A l \in Leg : IsInjective(ls[l]) /\ ToSet(ls[l]) = ToSet(listeners[l]) \ {w},
           \A l \in Leg : Handed(w, l) /\ IsDtmf(news[w].event) => l \in r.from,
           \A l \in Leg : Reads(l) \subseteq readers[l] \cup {w} /\ w \notin ToSet(watchers[l]),
           answer[w] = Unanswered,
           r.answer = Unanswered => \A l \in ToSet(order) : leg[l] = "live",
           kind' \in [Wait -> {"none", "call", "media", "dial", "agent"}], kind'[w] = "call",
           \A v \in Wait \ {w} : kind'[v] = kind[v],
           UNCHANGED <<legVars, watchers>>,
           CallGoesOn(w, order, o, r, ls)
    PROVE  EvInv'
<1> DEFINE n == IF r.answer # Unanswered THEN r ELSE OnePass(order, o, r)
           final == Finalized(order, o, n.digits)
           f == [legs |-> order, opts |-> o, digits |-> n.digits]
<1>0. EvTypes /\ WaitInv(w)
  BY DEF EvInv
<1>1. ReaderOf(w, order, n) /\ r.from \subseteq n.from
  BY <1>0, OnePassReads
<1>2. n.answer = Unanswered => \A l \in ToSet(order) : leg[l] = "live"
  OBVIOUS
<1>3. /\ HasRead(w, n)
      /\ \/ /\ n.answer # Unanswered
            /\ Over(w, n.answer)
            /\ listeners' = ls /\ UNCHANGED missed
         \/ /\ n.answer = Unanswered
            /\ Over(w, final)
            /\ listeners' = ls /\ UNCHANGED missed
         \/ /\ n.answer = Unanswered
            /\ GoOn(w, f)
            /\ listeners' = ListenOn(ToSet(order), w, ls)
            /\ missed' = IF \E l \in ToSet(order) : n.queue[l] # <<>>
                         THEN missed \cup {w} ELSE missed
  BY DEF CallGoesOn
<1>. HIDE DEF n
<1>4. /\ n.queue \in [Leg -> Seq(Event)] /\ n.digits \in [Leg -> Seq(Keys)]
      /\ n.answer \in Answers /\ n.from \in SUBSET Leg
      /\ \A l \in Leg : /\ Len(n.queue[l]) <= QueueLimit /\ (queue[l] = <<>> => n.queue[l] = <<>>)
                        /\ Reads(l) = {} => Follows(n.queue[l], <<>>, typed[l])
  BY <1>1 DEF ReaderOf
<1>5. leg' = leg /\ media' = media /\ published' = published /\ typed' = typed /\ watchers' = watchers
  BY DEF legVars
<1>6. \A l \in ToSet(order) : l \in Leg
  BY DEF ToSet
<1>7. /\ queue' = n.queue /\ readers' \in [Leg -> SUBSET Wait]
      /\ \A l \in Leg : /\ readers[l] \subseteq readers'[l] /\ readers'[l] \subseteq readers[l] \cup {w}
                        /\ l \in n.from => w \in readers'[l]
  <2>1. /\ queue' = n.queue /\ readers \in [Leg -> SUBSET Wait]
        /\ readers' = [l \in Leg |-> IF l \in n.from THEN readers[l] \cup {w} ELSE readers[l]]
    BY <1>0, <1>3 DEF HasRead, EvTypes
  <2>2. QED
    BY <2>1
<1>8. \A l \in Leg : Handed(w, l) /\ IsDtmf(news[w].event) => w \in readers'[l]
  BY <1>1, <1>7
\* It is over.
<1>9. ASSUME NEW a \in Answers, a # Unanswered, Over(w, a), listeners' = ls, missed' = missed,
             Typed(a.out) => /\ a.leg \in ToSet(order)
                             /\ w \notin missed /\ Reads(a.leg) \subseteq {w} => Occurs(a.digits, typed[a.leg])
      PROVE  EvInv'
  <2>1. /\ phase' \in [Wait -> {"none", "waiting", "woken", "over"}]
        /\ frame' \in [Wait -> Frames] /\ news' \in [Wait -> News] /\ answer' \in [Wait -> Answers]
        /\ phase'[w] = "over" /\ frame'[w] = NoFrame /\ news'[w] = NoNews
        /\ answer'[w] = a
        /\ \A v \in Wait \ {w} : /\ phase'[v] = phase[v] /\ frame'[v] = frame[v]
                                 /\ news'[v] = news[v] /\ answer'[v] = answer[v]
    <3>1. /\ phase' \in [Wait -> {"none", "waiting", "woken", "over"}]
          /\ frame' \in [Wait -> Frames] /\ news' \in [Wait -> News] /\ answer' \in [Wait -> Answers]
          /\ phase'[w] = "over" /\ frame'[w] = NoFrame /\ news'[w] = NoNews
          /\ answer'[w] = (IF answer[w] = Unanswered THEN a ELSE answer[w])
          /\ answer'[w] # Unanswered
          /\ \A v \in Wait \ {w} : /\ phase'[v] = phase[v] /\ frame'[v] = frame[v]
                                   /\ news'[v] = news[v] /\ answer'[v] = answer[v]
      BY <1>0, <1>9, OverIs
    <3>2. QED
      BY <3>1
  <2>2. StepOf(w)
    <3>1. \A l \in Leg :
             /\ Len(queue'[l]) <= QueueLimit /\ (queue[l] = <<>> => queue'[l] = <<>>)
             /\ Reads(l) = {} /\ w \notin readers'[l] => Follows(queue'[l], <<>>, typed[l])
             /\ readers[l] \subseteq readers'[l] /\ readers'[l] \subseteq readers[l] \cup {w}
             /\ Handed(w, l) /\ IsDtmf(news[w].event) => w \in readers'[l]
      BY <1>4, <1>7, <1>8
    <3>2. \A l \in Leg :
             /\ IsInjective(listeners'[l]) /\ ToSet(listeners'[l]) \ {w} = ToSet(listeners[l]) \ {w}
             /\ ToSet(watchers'[l]) \ {w} \subseteq ToSet(watchers[l])
      BY <1>5, <1>9
    <3>3. QED
      BY <1>5, <1>9, <2>1, <3>1, <3>2 DEF StepOf
  <2>3. EvTypes'
    <3>1. /\ leg' \in [Leg -> {"live", "ended", "gone"}] /\ media' \in [Leg -> {"playing", "over"}]
          /\ watchers' \in [Leg -> Seq(Wait)] /\ typed' \in [Leg -> Seq(Keys)]
          /\ published' \in [dtmf : 0 .. MaxDtmf, interrupt : 0 .. MaxInterrupts]
      BY <1>0, <1>5 DEF EvTypes
    <3>2. queue' \in [Leg -> Seq(Event)] /\ readers' \in [Leg -> SUBSET Wait]
      BY <1>4, <1>7
    <3>3. listeners' \in [Leg -> Seq(Wait)] /\ missed' \subseteq Wait
      BY <1>0, <1>9 DEF EvTypes
    <3>4. QED
      BY <2>1, <3>1, <3>2, <3>3 DEF EvTypes
  <2>4. AnswersTyped(w)'
    <3>1. Typed(a.out) => a.leg \in Leg
      BY <1>6, <1>9
    <3>2. ASSUME Typed(a.out), readers'[a.leg] \subseteq {w}, w \notin missed
          PROVE  Occurs(a.digits, typed[a.leg])
      BY <1>7, <1>9, <3>1, <3>2
    <3>3. QED
      BY <1>5, <1>9, <2>1, <3>1, <3>2 DEF AnswersTyped, Typed
  <2>5. WaitInv(w)'
    <3>1. \A l \in Leg : w \notin ToSet(listeners'[l]) /\ w \notin ToSet(watchers'[l])
      BY <1>5, <1>9
    <3>2. QED
      BY <1>9, <2>1, <2>2, <2>4, <3>1, OverKeepsWait
  <2>6. QED
    BY <2>2, <2>3, <2>5, StepKeepsLegs, StepKeepsOthers DEF EvInv
<1>10. CASE n.answer # Unanswered /\ Over(w, n.answer) /\ listeners' = ls /\ UNCHANGED missed
  <2>1. Typed(n.answer.out) =>
           /\ n.answer.leg \in ToSet(order)
           /\ w \notin missed /\ Reads(n.answer.leg) \subseteq {w} => Occurs(n.answer.digits, typed[n.answer.leg])
    BY <1>1 DEF ReaderOf
  <2>2. QED
    BY <1>4, <1>9, <1>10, <2>1
<1>11. CASE n.answer = Unanswered /\ Over(w, final) /\ listeners' = ls /\ UNCHANGED missed
  <2>1. /\ final \in Answers /\ final # Unanswered
        /\ Typed(final.out) => /\ final.leg \in ToSet(order) /\ n.digits[final.leg] # <<>>
                               /\ PieceOf(final.digits, n.digits[final.leg])
    BY <1>4, FinalizedIs
  <2>. HIDE DEF final
  <2>2. ASSUME Typed(final.out), w \notin missed, Reads(final.leg) \subseteq {w}
        PROVE  Occurs(final.digits, typed[final.leg])
    <3>1. final.leg \in Leg /\ final.leg \in ToSet(order)
      BY <1>6, <2>1, <2>2
    <3>2. Follows(n.queue[final.leg], n.digits[final.leg], typed[final.leg])
      BY <1>1, <1>11, <2>2, <3>1 DEF ReaderOf
    <3>3. n.queue[final.leg] \in Seq(Event) /\ n.digits[final.leg] \in Seq(Keys) /\ typed[final.leg] \in Seq(Keys)
      BY <1>0, <1>4, <3>1 DEF EvTypes
    <3>4. QED
      BY <2>1, <2>2, <3>2, <3>3, HeldOccurs
  <2>3. QED
    BY <1>9, <1>11, <2>1, <2>2
\* It listens.
<1>12. CASE /\ n.answer = Unanswered
            /\ GoOn(w, f)
            /\ listeners' = ListenOn(ToSet(order), w, ls)
            /\ missed' = IF \E l \in ToSet(order) : n.queue[l] # <<>>
                         THEN missed \cup {w} ELSE missed
  <2>1. f \in Frames /\ f.legs = order /\ f.opts = o /\ f.digits = n.digits
    BY <1>4 DEF Frames, AnyOptions
  <2>. HIDE DEF f
  <2>2. /\ phase' \in [Wait -> {"none", "waiting", "woken", "over"}]
        /\ frame' \in [Wait -> Frames] /\ news' \in [Wait -> News] /\ answer' \in [Wait -> Answers]
        /\ phase'[w] = "waiting" /\ frame'[w] = f /\ news'[w] = NoNews /\ answer' = answer
        /\ \A v \in Wait \ {w} : phase'[v] = phase[v] /\ frame'[v] = frame[v] /\ news'[v] = news[v]
    BY <1>0, <1>12, <2>1, GoOnIs
  <2>3. /\ listeners' \in [Leg -> Seq(Wait)]
        /\ \A l \in Leg : /\ ToSet(listeners'[l]) = ToSet(ls[l]) \cup (IF l \in ToSet(order) THEN {w} ELSE {})
                          /\ IsInjective(listeners'[l])
    <3> DEFINE S == ToSet(order)
    <3>0. listeners' = ListenOn(S, w, ls)
      BY <1>12
    <3>. HIDE DEF S
    <3>1. /\ ListenOn(S, w, ls) \in [Leg -> Seq(Wait)]
          /\ \A l \in Leg : /\ ToSet(ListenOn(S, w, ls)[l]) = ToSet(ls[l]) \cup (IF l \in S THEN {w} ELSE {})
                            /\ IsInjective(ls[l]) /\ w \notin ToSet(ls[l]) => IsInjective(ListenOn(S, w, ls)[l])
      BY ListenOnIs
    <3>2. \A l \in Leg : w \notin ToSet(ls[l]) /\ IsInjective(ls[l])
      OBVIOUS
    <3>3. QED
      BY <3>0, <3>1, <3>2 DEF S
  <2>4. missed \subseteq missed' /\ missed' \subseteq missed \cup {w} /\ missed' \subseteq Wait
    BY <1>0, <1>12 DEF EvTypes
  <2>5. StepOf(w)
    <3>1. \A l \in Leg : ToSet(listeners'[l]) \ {w} = ToSet(listeners[l]) \ {w}
      BY <2>3
    <3>2. \A l \in Leg :
             /\ Len(queue'[l]) <= QueueLimit /\ (queue[l] = <<>> => queue'[l] = <<>>)
             /\ Reads(l) = {} /\ w \notin readers'[l] => Follows(queue'[l], <<>>, typed[l])
             /\ readers[l] \subseteq readers'[l] /\ readers'[l] \subseteq readers[l] \cup {w}
             /\ Handed(w, l) /\ IsDtmf(news[w].event) => w \in readers'[l]
      BY <1>4, <1>7, <1>8
    <3>3. \A l \in Leg : IsInjective(listeners'[l]) /\ ToSet(watchers'[l]) \ {w} \subseteq ToSet(watchers[l])
      BY <1>5, <2>3
    <3>4. QED
      BY <1>5, <2>2, <2>4, <3>1, <3>2, <3>3 DEF StepOf
  <2>6. EvTypes'
    <3>1. /\ leg' \in [Leg -> {"live", "ended", "gone"}] /\ media' \in [Leg -> {"playing", "over"}]
          /\ watchers' \in [Leg -> Seq(Wait)] /\ typed' \in [Leg -> Seq(Keys)]
          /\ published' \in [dtmf : 0 .. MaxDtmf, interrupt : 0 .. MaxInterrupts]
      BY <1>0, <1>5 DEF EvTypes
    <3>2. queue' \in [Leg -> Seq(Event)] /\ readers' \in [Leg -> SUBSET Wait]
      BY <1>4, <1>7
    <3>3. answer' \in [Wait -> Answers]
      BY <1>0, <2>2 DEF EvTypes
    <3>4. QED
      BY <2>2, <2>3, <2>4, <3>1, <3>2, <3>3 DEF EvTypes
  <2>7. CallListens(w)'
    <3>1. LegsOf(w)' = ToSet(order)
      BY <2>1, <2>2 DEF LegsOf
    <3>2. \A l \in ToSet(order) : leg'[l] = "live" /\ w \in ToSet(listeners'[l])
      BY <1>2, <1>5, <1>6, <1>12, <2>3
    <3>3. QED
      BY <3>1, <3>2 DEF CallListens, Listening
  <2>8. HoldsLast(w)'
    <3>1. SUFFICES ASSUME w \notin missed', NEW l \in ToSet(order)
                   PROVE  /\ queue'[l] = <<>>
                          /\ Reads(l)' \subseteq {w} => Follows(<<>>, n.digits[l], typed[l])
      <4>1. \A m \in Leg : Due(w, m)' = <<>>
        BY <2>2 DEF Due, Handed, NoNews
      <4>2. QED
        BY <1>5, <1>6, <2>1, <2>2, <4>1 DEF HoldsLast, LegsOf
    <3>2. l \in Leg /\ n.queue[l] = <<>> /\ w \notin missed
      BY <1>6, <1>12, <2>4, <3>1
    <3>3. Reads(l)' \subseteq {w} => Reads(l) \subseteq {w}
      BY <2>5, <3>2, StepReads
    <3>4. Reads(l) \subseteq {w} => Follows(n.queue[l], n.digits[l], typed[l])
      BY <1>1, <1>12, <3>1, <3>2 DEF ReaderOf
    <3>5. QED
      BY <1>7, <3>2, <3>3, <3>4
  <2>9. WaitInv(w)'
    <3>1. frame'[w].legs = order /\ frame'[w].opts = o /\ o \in Options[kind'[w]]
      BY <2>1, <2>2 DEF Options
    <3>2. \A l \in Leg : /\ w \in ToSet(listeners'[l]) => l \in ToSet(frame'[w].legs)
                         /\ w \notin ToSet(watchers'[l])
      BY <1>5, <2>3, <3>1
    <3>3. QED
      BY <2>2, <2>5, <2>7, <2>8, <3>1, <3>2, GoOnKeepsWait
  <2>10. QED
    BY <2>5, <2>6, <2>9, StepKeepsLegs, StepKeepsOthers DEF EvInv
<1>13. QED
  BY <1>3, <1>10, <1>11, <1>12

\* A wait that was not asked for has no part in anything.
LEMMA AskIs ==
    ASSUME EvInv, NEW w \in Wait, NEW k \in {"call", "media", "dial", "agent"}, Ask(w, k)
    PROVE  /\ Settled /\ phase[w] = "none" /\ answer[w] = Unanswered
           /\ kind' \in [Wait -> {"none", "call", "media", "dial", "agent"}] /\ kind'[w] = k
           /\ \A v \in Wait \ {w} : kind'[v] = kind[v]
           /\ \A l \in Leg : /\ ~Handed(w, l) /\ w \notin readers[l] /\ w \notin Reads(l)
                             /\ w \notin ToSet(listeners[l]) /\ w \notin ToSet(watchers[l])
<1>1. WaitInv(w) /\ EvTypes
  BY DEF EvInv
<1>2. Settled /\ phase[w] = "none" /\ kind' = [kind EXCEPT ![w] = k]
  BY DEF Ask
<1>3. answer[w] = Unanswered /\ news[w] = NoNews /\ \A l \in Leg : w \notin readers[l]
  BY <1>1, <1>2 DEF WaitInv, Phases
<1>4. \A l \in Leg : ~Handed(w, l)
  BY <1>3 DEF Handed, NoNews
<1>5. \A l \in Leg : w \notin ToSet(listeners[l]) /\ w \notin ToSet(watchers[l])
  BY <1>1, <1>2 DEF WaitInv, Listens, Listening, Watching, Underway
<1>6. QED
  BY <1>1, <1>2, <1>3, <1>4, <1>5 DEF EvTypes, Reads

LEMMA CallWaitKeeps ==
    ASSUME EvInv, NEW w \in Wait, NEW order \in Orders, NEW o \in CallOptions, CallWait(w, order, o)
    PROVE  EvInv'
<1> DEFINE S == {l \in ToSet(order) : leg[l] # "gone"}
           kept == IF o.clear THEN Drained(S) ELSE queue
           first == OnePass(order, o, Reading(kept))
           past == {i \in DOMAIN order : leg[order[i]] # "live"}
           told == Answer(order[Min(past)], "ended", <<>>)
           r == IF first.answer = Unanswered /\ past # {} THEN [first EXCEPT !.answer = told] ELSE first
<1>1. Ask(w, "call") /\ CallGoesOn(w, order, o, r, listeners) /\ UNCHANGED <<legVars, watchers>>
  BY DEF CallWait
<1>2. EvTypes /\ (\A l \in Leg : LegInv(l)) /\ order \in Seq(Leg) /\ order # <<>> /\ IsInjective(order)
  BY LegEventsAssumption DEF EvInv, LegEventsAssumption
<1>3. /\ Settled /\ phase[w] = "none" /\ answer[w] = Unanswered
      /\ kind' \in [Wait -> {"none", "call", "media", "dial", "agent"}] /\ kind'[w] = "call"
      /\ \A v \in Wait \ {w} : kind'[v] = kind[v]
      /\ \A l \in Leg : /\ ~Handed(w, l) /\ w \notin readers[l] /\ w \notin Reads(l)
                        /\ w \notin ToSet(listeners[l]) /\ w \notin ToSet(watchers[l])
  BY <1>1, AskIs
<1>4. /\ kept \in [Leg -> Seq(Event)]
      /\ \A l \in Leg : /\ Len(kept[l]) <= QueueLimit /\ (queue[l] = <<>> => kept[l] = <<>>)
                        /\ Reads(l) = {} => Follows(kept[l], <<>>, typed[l])
  <2>1. CASE ~o.clear
    BY <1>2, <2>1 DEF LegInv, EvTypes
  <2>2. CASE o.clear
    <3>. HIDE DEF S
    <3>1. kept = Drained(S)
      BY <2>2
    <3>2. /\ Drained(S) \in [Leg -> Seq(Event)]
          /\ \A l \in Leg : /\ Len(Drained(S)[l]) <= Len(queue[l])
                            /\ queue[l] = <<>> => Drained(S)[l] = <<>>
                            /\ l \notin S => Drained(S)[l] = queue[l]
                            /\ l \in S => \A i \in 1 .. Len(Drained(S)[l]) : ~IsDtmf(Drained(S)[l][i])
      BY <1>2, DrainedIs
    <3>. HIDE DEF kept
    <3>3. \A l \in Leg : /\ Len(queue[l]) <= QueueLimit /\ Len(queue[l]) \in Nat
                         /\ kept[l] \in Seq(Event) /\ Len(kept[l]) \in Nat
                         /\ typed[l] \in Seq(Keys)
      BY <1>2, <3>1, <3>2 DEF LegInv, EvTypes
    <3>4. QueueLimit \in Nat
      BY LegEventsAssumption DEF LegEventsAssumption
    <3>5. ASSUME NEW l \in Leg, Reads(l) = {}
          PROVE  Follows(kept[l], <<>>, typed[l])
      <4>1. CASE l \in S
        BY <3>1, <3>2, <3>3, <4>1, NothingFollows
      <4>2. CASE l \notin S
        BY <1>2, <3>1, <3>2, <3>5, <4>2 DEF LegInv
      <4>3. QED
        BY <4>1, <4>2
    <3>6. \A l \in Leg : Len(kept[l]) <= QueueLimit
      BY <3>1, <3>2, <3>3, <3>4
    <3>7. QED
      BY <3>1, <3>2, <3>5, <3>6
  <2>3. QED
    BY <2>1, <2>2
<1>. HIDE DEF kept
<1>5. \A l \in ToSet(order) : l \in Leg
  BY <1>2 DEF ToSet
<1>6. ReaderOf(w, order, Reading(kept)) /\ Reading(kept).answer = Unanswered
  <2>1. /\ Reading(kept).queue = kept /\ Reading(kept).digits = NoDigits
        /\ Reading(kept).answer = Unanswered /\ Reading(kept).from = {}
    BY DEF Reading
  <2>2. NoDigits \in [Leg -> Seq(Keys)] /\ \A l \in Leg : NoDigits[l] = <<>>
    BY DEF NoDigits
  <2>3. Unanswered \in Answers /\ ~Typed(Unanswered.out)
    BY UnansweredIs DEF Typed
  <2>4. \A l \in ToSet(order) : Reads(l) \subseteq {w} => Reads(l) = {}
    BY <1>3, <1>5
  <2>5. QED
    BY <1>4, <1>5, <2>1, <2>2, <2>3, <2>4 DEF ReaderOf
<1>7. ReaderOf(w, order, first)
  BY <1>2, <1>6, OnePassReads
<1>8. \E q, d, a, s : first = [queue |-> q, digits |-> d, answer |-> a, from |-> s]
  BY DEF OnePass
<1>. HIDE DEF first
<1>9. past # {} => /\ told \in Answers /\ ~Typed(told.out) /\ told # Unanswered
  <2>1. SUFFICES ASSUME past # {}
                 PROVE  told \in Answers /\ ~Typed(told.out) /\ told # Unanswered
    OBVIOUS
  <2>2. past \in SUBSET Nat /\ \A i \in past : order[i] \in Leg
    BY <1>2
  <2>3. order[Min(past)] \in Leg
    <3>. HIDE DEF past
    <3>1. QED
      BY <2>1, <2>2, MinIsLeast
  <2> DEFINE none == <<>>
             l == order[Min(past)]
  <2>4. none \in Seq(Keys) /\ l \in Leg /\ "ended" \in Outs
    BY <2>3 DEF Outs
  <2>. HIDE DEF none, l, told, past
  <2>5. Answer(l, "ended", none) \in Answers /\ Answer(l, "ended", none).out = "ended"
    <3>1. \A m \in Leg : m \in Leg \cup {Nobody}
      OBVIOUS
    <3>2. \A m \in Leg : Answer(m, "ended", none) \in Answers /\ Answer(m, "ended", none).out = "ended"
      BY <2>4, <3>1, AnswerIs
    <3>3. QED
      BY <2>4, <3>2
  <2>6. told = Answer(l, "ended", none)
    BY DEF none, l, told, past
  <2>7. QED
    BY <2>5, <2>6, UnansweredIs DEF Typed
<1>10. past = {} => \A l \in ToSet(order) : leg[l] = "live"
  BY DEF ToSet
<1>. HIDE DEF told, past
<1>11. ReaderOf(w, order, r) /\ (r.answer = Unanswered => \A l \in ToSet(order) : leg[l] = "live")
  <2>1. CASE first.answer = Unanswered /\ past # {}
    <3>1. r = [first EXCEPT !.answer = told]
      BY <2>1
    <3>2. r.queue = first.queue /\ r.digits = first.digits /\ r.answer = told /\ r.from = first.from
      BY <1>8, <3>1
    <3>. HIDE DEF r
    <3>3. QED
      BY <1>7, <1>9, <2>1, <3>2 DEF ReaderOf
  <2>2. CASE ~(first.answer = Unanswered /\ past # {})
    BY <1>7, <1>10, <2>2
  <2>3. QED
    BY <2>1, <2>2
<1>. HIDE DEF r
<1>12. \A l \in Leg : IsInjective(listeners[l]) /\ ToSet(listeners[l]) = ToSet(listeners[l]) \ {w}
  BY <1>2, <1>3 DEF LegInv
<1>13. \A l \in Leg : Reads(l) \subseteq readers[l] \cup {w} /\ w \notin ToSet(watchers[l])
  BY <1>3, OnlyReader
<1>14. listeners \in [Leg -> Seq(Wait)]
  BY <1>2 DEF EvTypes
<1>15. QED
  BY <1>1, <1>2, <1>3, <1>11, <1>12, <1>13, <1>14, CallGoesOnKeeps

LEMMA CallResumesKeeps ==
    ASSUME EvInv, NEW w \in Wait, CallResumes(w)
    PROVE  EvInv'
<1> DEFINE l == news[w].leg
           e == news[w].event
           f == frame[w]
           result == ProcessEvent(l, f.digits[l], e, f.opts)
           r == [queue |-> queue, digits |-> [f.digits EXCEPT ![l] = result.digits],
                 answer |-> result.answer, from |-> IF IsDtmf(e) THEN {l} ELSE {}]
<1>1. /\ phase[w] = "woken" /\ kind[w] = "call" /\ news[w].what = "event"
      /\ CallGoesOn(w, f.legs, f.opts, r, Silent(w, listeners))
      /\ UNCHANGED <<legVars, watchers, kind>>
  BY DEF CallResumes, Woken
<1>2. EvTypes /\ WaitInv(w) /\ \A m \in Leg : LegInv(m)
  BY DEF EvInv
<1>3. /\ news[w] \in News /\ f \in Frames
      /\ f.digits \in [Leg -> Seq(Keys)] /\ f.legs \in Seq(Leg) /\ Underway(w)
  BY <1>1, <1>2 DEF EvTypes, Frames, Underway
<1>4. l \in Leg /\ e \in Event
  BY <1>1, <1>3 DEF News, NoNews
<1>5. /\ f.legs # <<>> /\ IsInjective(f.legs) /\ f.opts \in CallOptions /\ answer[w] = Unanswered
      /\ l \in ToSet(f.legs)
  BY <1>1, <1>2, <1>3 DEF WaitInv, Phases, Options, Wanted, LegsOf
<1>6. e # Ended => \A m \in ToSet(f.legs) : leg[m] = "live"
  BY <1>1, <1>2 DEF WaitInv, CallIsAlive, LegsOf
<1>7. w \notin missed => \A m \in ToSet(f.legs) :
           queue[m] = <<>> /\ (Reads(m) \subseteq {w} => Follows(Due(w, m), f.digits[m], typed[m]))
  BY <1>1, <1>2, <1>3 DEF WaitInv, HoldsLast, LegsOf
<1>8. \A m \in Leg : w \notin ToSet(watchers[m])
  BY <1>1, <1>2 DEF WaitInv, Listens, Watching
<1>9. /\ result.digits \in Seq(Keys) /\ result.answer \in Answers
      /\ Typed(result.answer.out) => result.answer.leg = l
      /\ e = Ended => result.answer # Unanswered
      /\ \A q \in Seq(Event), t \in Seq(Keys) : q # <<>> /\ Head(q) = e /\ Follows(q, f.digits[l], t) =>
            /\ result.answer = Unanswered => Follows(Tail(q), result.digits, t)
            /\ Typed(result.answer.out) => Occurs(result.answer.digits, t)
  <2>1. f.digits[l] \in Seq(Keys)
    BY <1>3, <1>4
  <2>. HIDE DEF l, e, f
  <2>2. QED
    BY <1>4, <2>1, ProcessEventIs
<1>. HIDE DEF result
<1>10. \A m \in Leg : Handed(w, m) <=> m = l
  BY <1>1 DEF Handed
<1>11. /\ r.queue = queue /\ r.answer = result.answer /\ r.from = (IF IsDtmf(e) THEN {l} ELSE {})
       /\ r.digits \in [Leg -> Seq(Keys)] /\ r.digits[l] = result.digits
       /\ \A m \in Leg : m # l => r.digits[m] = f.digits[m]
  BY <1>3, <1>4, <1>9
<1>. HIDE DEF r
<1>12. ReaderOf(w, f.legs, r)
  <2>1. \A m \in Leg : /\ Len(queue[m]) <= QueueLimit
                       /\ Reads(m) = {} => Follows(queue[m], <<>>, typed[m])
    BY <1>2 DEF LegInv
  <2>2. ASSUME w \notin missed, NEW m \in ToSet(f.legs), Reads(m) \subseteq {w}
        PROVE  /\ r.answer = Unanswered => Follows(r.queue[m], r.digits[m], typed[m])
               /\ Typed(r.answer.out) /\ r.answer.leg = m => Occurs(r.answer.digits, typed[m])
    <3>0. m \in Leg
      BY <1>3 DEF ToSet
    <3>1. queue[m] = <<>> /\ Follows(Due(w, m), f.digits[m], typed[m]) /\ typed[m] \in Seq(Keys)
      BY <1>2, <1>7, <2>2, <3>0 DEF EvTypes
    <3>2. CASE m = l
      <4> DEFINE q == <<e>>
      <4>1. Due(w, m) = q
        BY <1>10, <3>0, <3>2 DEF Due
      <4>2. q \in Seq(Event) /\ q # <<>> /\ Head(q) = e /\ Tail(q) = <<>>
        BY <1>4
      <4>. HIDE DEF q
      <4>3. /\ result.answer = Unanswered => Follows(<<>>, result.digits, typed[m])
            /\ Typed(result.answer.out) => Occurs(result.answer.digits, typed[m])
        BY <1>9, <3>1, <3>2, <4>1, <4>2
      <4>4. QED
        BY <1>11, <3>1, <3>2, <4>3
    <3>3. CASE m # l
      <4>1. Due(w, m) = <<>>
        BY <1>10, <3>0, <3>3 DEF Due
      <4>2. QED
        BY <1>9, <1>11, <3>0, <3>1, <3>3, <4>1
    <3>4. QED
      BY <3>2, <3>3
  <2>3. Typed(r.answer.out) => r.answer.leg \in ToSet(f.legs)
    BY <1>5, <1>9, <1>11
  <2>4. r.from \in SUBSET Leg /\ r.answer \in Answers /\ r.queue \in [Leg -> Seq(Event)]
    BY <1>2, <1>4, <1>9, <1>11 DEF EvTypes
  <2>5. QED
    BY <1>11, <2>1, <2>2, <2>3, <2>4 DEF ReaderOf
<1>13. /\ Silent(w, listeners) \in [Leg -> Seq(Wait)]
       /\ \A m \in Leg : /\ IsInjective(Silent(w, listeners)[m])
                         /\ ToSet(Silent(w, listeners)[m]) = ToSet(listeners[m]) \ {w}
  BY <1>2, SilentIs DEF LegInv, EvTypes
<1>14. \A m \in Leg : Reads(m) \subseteq readers[m] \cup {w} /\ w \notin ToSet(watchers[m])
  BY <1>1, <1>8, OnlyReader
<1>15. \A m \in Leg : Handed(w, m) /\ IsDtmf(news[w].event) => m \in r.from
  BY <1>10, <1>11
<1>16. r.answer = Unanswered => \A m \in ToSet(f.legs) : leg[m] = "live"
  BY <1>6, <1>9, <1>11
<1>17. /\ kind' \in [Wait -> {"none", "call", "media", "dial", "agent"}] /\ kind'[w] = "call"
       /\ \A v \in Wait \ {w} : kind'[v] = kind[v]
       /\ UNCHANGED <<legVars, watchers>>
  BY <1>1, <1>2 DEF EvTypes
<1>. HIDE DEF l, e
<1> DEFINE ls == Silent(w, listeners)
           order == f.legs
           o == f.opts
<1>18. CallGoesOn(w, order, o, r, ls)
  BY <1>1
<1>. HIDE DEF ls, order, o
<1>19. /\ ls \in [Leg -> Seq(Wait)] /\ \A m \in Leg : IsInjective(ls[m]) /\ ToSet(ls[m]) = ToSet(listeners[m]) \ {w}
       /\ order \in Seq(Leg) /\ order # <<>> /\ IsInjective(order) /\ o \in CallOptions
       /\ ReaderOf(w, order, r) /\ (r.answer = Unanswered => \A m \in ToSet(order) : leg[m] = "live")
  <2>1. /\ order \in Seq(Leg) /\ order # <<>> /\ IsInjective(order) /\ o \in CallOptions
    BY <1>3, <1>5 DEF order, o
  <2>2. ls \in [Leg -> Seq(Wait)] /\ \A m \in Leg : IsInjective(ls[m]) /\ ToSet(ls[m]) = ToSet(listeners[m]) \ {w}
    BY <1>13 DEF ls
  <2>3. ReaderOf(w, order, r) /\ (r.answer = Unanswered => \A m \in ToSet(order) : leg[m] = "live")
    BY <1>12, <1>16 DEF order
  <2>4. QED
    BY <2>1, <2>2, <2>3
<1>20. QED
  BY <1>5, <1>14, <1>15, <1>17, <1>18, <1>19, CallGoesOnKeeps, SMTT(30)

-----------------------------------------------------------------------------
(* LegEvents: the steps of the other waits.                                 *)

\* What w does to the queues and what it takes down.
QueuesStep(w) ==
    /\ queue' \in [Leg -> Seq(Event)] /\ readers' \in [Leg -> SUBSET Wait]
    /\ \A l \in Leg :
          /\ Len(queue'[l]) <= QueueLimit /\ (queue[l] = <<>> => queue'[l] = <<>>)
          /\ Reads(l) = {} /\ w \notin readers'[l] => Follows(queue'[l], <<>>, typed[l])
          /\ readers[l] \subseteq readers'[l] /\ readers'[l] \subseteq readers[l] \cup {w}
          /\ Handed(w, l) /\ IsDtmf(news[w].event) => w \in readers'[l]

\* It leaves them alone, or drops the digits of some.
LEMMA QueuesAre ==
    ASSUME EvInv, NEW w \in Wait, queue' = queue \/ \E S : queue' = Drained(S),
           readers' \in [Leg -> SUBSET Wait],
           \A l \in Leg : /\ readers[l] \subseteq readers'[l] /\ readers'[l] \subseteq readers[l] \cup {w}
                          /\ Handed(w, l) /\ IsDtmf(news[w].event) => w \in readers'[l]
    PROVE  QueuesStep(w)
<1>0. /\ EvTypes /\ QueueLimit \in Nat
      /\ \A l \in Leg : /\ Len(queue[l]) <= QueueLimit /\ Len(queue[l]) \in Nat /\ typed[l] \in Seq(Keys)
                        /\ Reads(l) = {} => Follows(queue[l], <<>>, typed[l])
  BY LegEventsAssumption DEF EvInv, LegInv, EvTypes, LegEventsAssumption
<1>1. CASE queue' = queue
  BY <1>0, <1>1 DEF QueuesStep, EvTypes
<1>2. ASSUME NEW S, queue' = Drained(S)
      PROVE  QueuesStep(w)
  <2>1. /\ queue' \in [Leg -> Seq(Event)]
        /\ \A l \in Leg : /\ Len(queue'[l]) <= Len(queue[l])
                          /\ queue[l] = <<>> => queue'[l] = <<>>
                          /\ l \notin S => queue'[l] = queue[l]
                          /\ l \in S => \A i \in 1 .. Len(queue'[l]) : ~IsDtmf(queue'[l][i])
    BY <1>0, <1>2, DrainedIs
  <2>2. \A l \in Leg : queue'[l] \in Seq(Event) /\ Len(queue'[l]) \in Nat
    BY <2>1
  <2>3. ASSUME NEW l \in Leg, Reads(l) = {}
        PROVE  Follows(queue'[l], <<>>, typed[l])
    <3>1. CASE l \in S
      BY <1>0, <2>1, <2>2, <3>1, NothingFollows
    <3>2. CASE l \notin S
      BY <1>0, <2>1, <2>3, <3>2
    <3>3. QED
      BY <3>1, <3>2
  <2>4. \A l \in Leg : Len(queue'[l]) <= QueueLimit
    BY <1>0, <2>1, <2>2
  <2>5. QED
    BY <2>1, <2>3, <2>4 DEF QueuesStep
<1>3. QED
  BY <1>1, <1>2

\* What every step of w leaves alone.
Around(w) ==
    /\ UNCHANGED legVars /\ missed' = missed
    /\ kind' \in [Wait -> {"none", "call", "media", "dial", "agent"}] /\ kind'[w] # "none"
    /\ \A v \in Wait \ {w} : kind'[v] = kind[v]
    /\ listeners' \in [Leg -> Seq(Wait)] /\ watchers' \in [Leg -> Seq(Wait)]
    /\ \A l \in Leg : /\ IsInjective(listeners'[l]) /\ ToSet(listeners'[l]) \ {w} = ToSet(listeners[l]) \ {w}
                      /\ ToSet(watchers'[l]) \ {w} \subseteq ToSet(watchers[l])

LEMMA OverKeeps ==
    ASSUME EvInv, NEW w \in Wait, NEW a \in Answers, a # Unanswered, Over(w, a),
           QueuesStep(w), Around(w), AnswersTyped(w)',
           \A l \in Leg : w \notin ToSet(listeners'[l]) /\ w \notin ToSet(watchers'[l])
    PROVE  EvInv'
<1>0. EvTypes
  BY DEF EvInv
<1>1. /\ phase' \in [Wait -> {"none", "waiting", "woken", "over"}]
      /\ frame' \in [Wait -> Frames] /\ news' \in [Wait -> News] /\ answer' \in [Wait -> Answers]
      /\ phase'[w] = "over" /\ frame'[w] = NoFrame /\ news'[w] = NoNews /\ answer'[w] # Unanswered
      /\ \A v \in Wait \ {w} : /\ phase'[v] = phase[v] /\ frame'[v] = frame[v]
                               /\ news'[v] = news[v] /\ answer'[v] = answer[v]
  BY <1>0, OverIs
<1>2. leg' = leg /\ media' = media /\ published' = published /\ typed' = typed
  BY DEF Around, legVars
<1>3. StepOf(w)
  BY <1>1, <1>2 DEF StepOf, Around, QueuesStep
<1>4. EvTypes'
  BY <1>0, <1>1, <1>2 DEF EvTypes, Around, QueuesStep
<1>5. kind'[w] # "none"
  BY DEF Around
<1>6. WaitInv(w)'
  BY <1>1, <1>3, <1>5, OverKeepsWait
<1>7. QED
  BY <1>3, <1>4, <1>6, StepKeepsLegs, StepKeepsOthers DEF EvInv

LEMMA GoOnKeeps ==
    ASSUME EvInv, NEW w \in Wait, NEW f \in Frames, NEW l \in Leg, f.legs = <<l>>, f.opts \in Options[kind'[w]],
           GoOn(w, f), QueuesStep(w), Around(w), kind'[w] # "call",
           answer[w] # Unanswered => kind'[w] = "media" /\ answer[w].out = "cancelled",
           \A m \in Leg : /\ w \in ToSet(listeners'[m]) => m = l
                          /\ w \in ToSet(watchers'[m]) => m = l /\ kind'[w] = "media"
    PROVE  EvInv'
<1>0. EvTypes
  BY DEF EvInv
<1>1. /\ phase' \in [Wait -> {"none", "waiting", "woken", "over"}]
      /\ frame' \in [Wait -> Frames] /\ news' \in [Wait -> News] /\ answer' \in [Wait -> Answers]
      /\ phase'[w] = "waiting" /\ frame'[w] = f /\ news'[w] = NoNews /\ answer' = answer
      /\ \A v \in Wait \ {w} : phase'[v] = phase[v] /\ frame'[v] = frame[v] /\ news'[v] = news[v]
  BY <1>0, GoOnIs
<1>2. leg' = leg /\ media' = media /\ published' = published /\ typed' = typed
  BY DEF Around, legVars
<1>3. StepOf(w)
  BY <1>1, <1>2 DEF StepOf, Around, QueuesStep
<1>4. EvTypes'
  BY <1>0, <1>1, <1>2 DEF EvTypes, Around, QueuesStep
<1>5. kind'[w] # "none"
  BY DEF Around
<1>6. CallListens(w)' /\ HoldsLast(w)'
  BY DEF CallListens, HoldsLast
<1>7. f.legs # <<>> /\ IsInjective(f.legs) /\ Len(f.legs) = 1 /\ ToSet(f.legs) = {l}
  <2>1. IsInjective(<<l>>)
    BY DEF IsInjective
  <2>2. ToSet(<<l>>) = {l}
    BY DEF ToSet
  <2>3. <<l>> # <<>> /\ Len(<<l>>) = 1
    OBVIOUS
  <2>4. QED
    BY <2>1, <2>2, <2>3
<1>8. WaitInv(w)'
  BY <1>1, <1>3, <1>5, <1>6, <1>7, GoOnKeepsWait
<1>9. QED
  BY <1>3, <1>4, <1>8, StepKeepsLegs, StepKeepsOthers DEF EvInv

\* A wait under way.
LEMMA UnderwayIs ==
    ASSUME EvInv, NEW w \in Wait, Underway(w)
    PROVE  /\ EvTypes /\ frame[w] \in Frames /\ frame[w].legs \in Seq(Leg) /\ frame[w].legs # <<>>
           /\ frame[w].opts \in Options[kind[w]] /\ kind[w] \in {"call", "media", "dial", "agent"}
           /\ kind[w] # "call" => /\ TheLeg(w) \in Leg /\ LegsOf(w) = {TheLeg(w)}
                                  /\ frame[w].legs = <<TheLeg(w)>>
           /\ phase[w] = "waiting" => news[w] = NoNews /\ \A l \in Leg : ~Handed(w, l)
           /\ answer[w] # Unanswered => kind[w] = "media" /\ answer[w].out = "cancelled"
           /\ \A l \in Leg : /\ Listening(w, l) \/ Watching(w, l) => l \in LegsOf(w)
                             /\ Watching(w, l) => kind[w] = "media"
           /\ \A l \in Leg : Handed(w, l) => l \in LegsOf(w)
<1>1. EvTypes /\ WaitInv(w)
  BY DEF EvInv
<1>2. /\ frame[w] \in Frames /\ frame[w].legs \in Seq(Leg) /\ frame[w].legs # <<>>
      /\ frame[w].opts \in Options[kind[w]] /\ kind[w] \in {"call", "media", "dial", "agent"}
      /\ kind[w] # "call" => Len(frame[w].legs) = 1
      /\ answer[w] # Unanswered => kind[w] = "media" /\ answer[w].out = "cancelled"
  BY <1>1 DEF EvTypes, WaitInv, Phases, Frames, Underway
<1>3. ASSUME kind[w] # "call"
      PROVE  TheLeg(w) \in Leg /\ LegsOf(w) = {TheLeg(w)} /\ frame[w].legs = <<TheLeg(w)>>
  <2>1. frame[w].legs \in Seq(Leg) /\ Len(frame[w].legs) = 1
    BY <1>2, <1>3
  <2>2. TheLeg(w) = frame[w].legs[1] /\ TheLeg(w) \in Leg
    BY <2>1 DEF TheLeg
  <2>3. LegsOf(w) = {TheLeg(w)}
    BY <2>1, <2>2 DEF LegsOf, ToSet
  <2>4. frame[w].legs = <<TheLeg(w)>>
    BY <2>1, <2>2
  <2>5. QED
    BY <2>2, <2>3, <2>4
<1>4. phase[w] = "waiting" => news[w] = NoNews /\ \A l \in Leg : ~Handed(w, l)
  BY <1>1 DEF WaitInv, Phases, Handed, NoNews
<1>5. \A l \in Leg : /\ Listening(w, l) \/ Watching(w, l) => l \in LegsOf(w)
                     /\ Watching(w, l) => kind[w] = "media"
  BY <1>1 DEF WaitInv, Listens
<1>6. \A l \in Leg : Handed(w, l) => l \in LegsOf(w)
  BY <1>1 DEF WaitInv, Wanted, Handed
<1>7. QED
  BY <1>1, <1>2, <1>3, <1>4, <1>5, <1>6

\* w takes its listeners back.
LEMMA SilencedIs ==
    ASSUME EvInv, NEW w \in Wait
    PROVE  /\ Silent(w, listeners) \in [Leg -> Seq(Wait)] /\ Silent(w, watchers) \in [Leg -> Seq(Wait)]
           /\ \A l \in Leg : /\ IsInjective(Silent(w, listeners)[l])
                             /\ ToSet(Silent(w, listeners)[l]) = ToSet(listeners[l]) \ {w}
                             /\ ToSet(Silent(w, watchers)[l]) = ToSet(watchers[l]) \ {w}
<1>1. /\ listeners \in [Leg -> Seq(Wait)] /\ watchers \in [Leg -> Seq(Wait)]
      /\ \A l \in Leg : IsInjective(listeners[l])
  BY DEF EvInv, EvTypes, LegInv
<1>2. QED
  BY <1>1, SilentIs

LEMMA Unlistened ==
    ASSUME EvInv, NEW w \in Wait, listeners' = Silent(w, listeners)
    PROVE  \A l \in Leg : w \notin ToSet(listeners'[l])
<1>1. \A l \in Leg : ToSet(Silent(w, listeners)[l]) = ToSet(listeners[l]) \ {w}
  BY SilencedIs
<1>2. QED
  BY <1>1

\* Nobody but w is touched.
LEMMA AroundIs ==
    ASSUME EvInv, NEW w \in Wait, UNCHANGED legVars, missed' = missed,
           (kind' = kind /\ kind[w] # "none") \/ \E k \in {"call", "media", "dial", "agent"} : Ask(w, k),
           listeners' \in [Leg -> Seq(Wait)], watchers' \in [Leg -> Seq(Wait)],
           \A l \in Leg : /\ IsInjective(listeners'[l]) /\ ToSet(listeners'[l]) \ {w} = ToSet(listeners[l]) \ {w}
                          /\ ToSet(watchers'[l]) \ {w} \subseteq ToSet(watchers[l])
    PROVE  Around(w)
<1>1. CASE kind' = kind /\ kind[w] # "none"
  BY <1>1 DEF Around, EvInv, EvTypes
<1>2. ASSUME NEW k \in {"call", "media", "dial", "agent"}, Ask(w, k)
      PROVE  Around(w)
  <2>1. /\ kind' \in [Wait -> {"none", "call", "media", "dial", "agent"}] /\ kind'[w] = k
        /\ \A v \in Wait \ {w} : kind'[v] = kind[v]
    BY <1>2, AskIs
  <2>2. QED
    BY <2>1 DEF Around
<1>3. QED
  BY <1>1, <1>2

LEMMA SameIs ==
    ASSUME EvInv
    PROVE  /\ listeners \in [Leg -> Seq(Wait)] /\ watchers \in [Leg -> Seq(Wait)] /\ EvTypes
           /\ readers \in [Leg -> SUBSET Wait]
           /\ \A l \in Leg : IsInjective(listeners[l])
BY DEF EvInv, EvTypes, LegInv

LEMMA CallRejectedKeeps ==
    ASSUME EvInv, NEW w \in Wait, CallRejected(w)
    PROVE  EvInv'
<1>1. /\ phase[w] = "woken" /\ kind[w] = "call" /\ news[w].what = "leg_finalized"
      /\ listeners' = Silent(w, listeners) /\ Over(w, Told("leg_finalized"))
      /\ UNCHANGED <<legVars, watchers, kind, queue, readers, missed>>
  BY DEF CallRejected, Woken
<1>2. /\ EvTypes /\ answer[w] = Unanswered /\ \A l \in Leg : ~Handed(w, l) /\ ~Watching(w, l)
  BY <1>1, UnderwayIs DEF Underway, Handed
<1>3. QueuesStep(w)
  BY <1>1, <1>2, QueuesAre, SameIs
<1>4. Around(w)
  BY <1>1, SilencedIs, SameIs, AroundIs
<1>5. Told("leg_finalized") \in Answers /\ Told("leg_finalized").out = "leg_finalized"
  BY ToldIs DEF Outs
<1>6. answer'[w] = Told("leg_finalized") /\ Told("leg_finalized") # Unanswered
  BY <1>1, <1>2, <1>5, OverIs, UnansweredIs
<1>7. AnswersTyped(w)'
  BY <1>5, <1>6 DEF AnswersTyped
<1>8. \A l \in Leg : w \notin ToSet(listeners'[l]) /\ w \notin ToSet(watchers'[l])
  <2>1. \A l \in Leg : w \notin ToSet(watchers'[l])
    BY <1>1, <1>2 DEF Watching
  <2>2. \A l \in Leg : w \notin ToSet(listeners'[l])
    BY <1>1, Unlistened
  <2>3. QED
    BY <2>1, <2>2
<1>9. QED
  BY <1>1, <1>3, <1>4, <1>5, <1>6, <1>7, <1>8, OverKeeps

LEMMA CallTimesOutKeeps ==
    ASSUME EvInv, NEW w \in Wait, CallTimesOut(w)
    PROVE  EvInv'
<1> DEFINE a == Finalized(frame[w].legs, frame[w].opts, frame[w].digits)
<1>1. /\ Settled /\ phase[w] = "waiting" /\ kind[w] = "call"
      /\ listeners' = Silent(w, listeners) /\ Over(w, a)
      /\ UNCHANGED <<legVars, watchers, kind, queue, readers, missed>>
  BY DEF CallTimesOut, Waiting
<1>2. /\ EvTypes /\ WaitInv(w) /\ answer[w] = Unanswered /\ \A l \in Leg : ~Handed(w, l) /\ ~Watching(w, l)
      /\ frame[w].legs \in Seq(Leg) /\ frame[w].digits \in [Leg -> Seq(Keys)]
  BY <1>1, UnderwayIs DEF Underway, EvInv, Frames
<1>3. QueuesStep(w)
  BY <1>1, <1>2, QueuesAre, SameIs
<1>4. Around(w)
  BY <1>1, SilencedIs, SameIs, AroundIs
<1>5. /\ a \in Answers /\ a # Unanswered
      /\ Typed(a.out) => /\ a.leg \in ToSet(frame[w].legs) /\ frame[w].digits[a.leg] # <<>>
                         /\ PieceOf(a.digits, frame[w].digits[a.leg])
  BY <1>2, FinalizedIs
<1>. HIDE DEF a
<1>6. answer'[w] = a
  BY <1>1, <1>2, <1>5, OverIs
<1>7. AnswersTyped(w)'
  <2>1. \A l \in LegsOf(w) : l \in Leg
    BY <1>2 DEF LegsOf, ToSet
  <2>2. ASSUME Typed(a.out), readers[a.leg] \subseteq {w}, w \notin missed
        PROVE  Occurs(a.digits, typed[a.leg])
    <3>1. a.leg \in LegsOf(w) /\ a.leg \in Leg
      BY <1>5, <2>1, <2>2 DEF LegsOf
    <3>2. Reads(a.leg) \subseteq {w}
      BY <1>1, <2>2, <3>1, OnlyReader
    <3>3. queue[a.leg] = <<>> /\ Follows(<<>>, frame[w].digits[a.leg], typed[a.leg])
      BY <1>1, <1>2, <2>2, <3>1, <3>2 DEF WaitInv, HoldsLast, Underway, Due
    <3>4. <<>> \in Seq(Event) /\ frame[w].digits[a.leg] \in Seq(Keys) /\ typed[a.leg] \in Seq(Keys)
      BY <1>2, <3>1 DEF EvTypes
    <3>5. QED
      BY <1>5, <2>2, <3>3, <3>4, HeldOccurs
  <2>3. Typed(a.out) => a.leg \in Leg
    BY <1>5, <2>1 DEF LegsOf
  <2>4. typed' = typed
    BY <1>1 DEF legVars
  <2>5. QED
    BY <1>1, <1>6, <2>2, <2>3, <2>4 DEF AnswersTyped, Typed
<1>8. \A l \in Leg : w \notin ToSet(listeners'[l]) /\ w \notin ToSet(watchers'[l])
  <2>1. \A l \in Leg : w \notin ToSet(watchers'[l])
    BY <1>1, <1>2 DEF Watching
  <2>2. \A l \in Leg : w \notin ToSet(listeners'[l])
    BY <1>1, Unlistened
  <2>3. QED
    BY <2>1, <2>2
<1>9. QED
  BY <1>1, <1>3, <1>4, <1>5, <1>7, <1>8, OverKeeps

\* Only a call.wait reports digits.
LEMMA OtherIsOver ==
    ASSUME EvInv, NEW w \in Wait, NEW out \in Outs \ {"none"}, Over(w, Told(out)), kind'[w] # "call",
           QueuesStep(w), Around(w),
           \A l \in Leg : w \notin ToSet(listeners'[l]) /\ w \notin ToSet(watchers'[l])
    PROVE  EvInv'
<1>1. Told(out) \in Answers /\ Told(out) # Unanswered
  BY ToldIs, UnansweredIs
<1>2. AnswersTyped(w)'
  BY DEF AnswersTyped
<1>3. QED
  BY <1>1, <1>2, OverKeeps

LEMMA WatchKeeps ==
    ASSUME EvInv, NEW w \in Wait, NEW l \in Leg, NEW o \in MediaOptions, NEW ws \in [Leg -> Seq(Wait)],
           \A m \in Leg : ToSet(ws[m]) = ToSet(watchers[m]) \ {w} /\ w \notin ToSet(listeners[m]),
           Watch(w, l, o, listeners, ws), UNCHANGED legVars, missed' = missed,
           (kind' = kind /\ kind[w] = "media") \/ Ask(w, "media"), kind'[w] = "media",
           answer[w] # Unanswered => answer[w].out = "cancelled",
           readers' \in [Leg -> SUBSET Wait],
           \A m \in Leg : /\ readers[m] \subseteq readers'[m] /\ readers'[m] \subseteq readers[m] \cup {w}
                          /\ Handed(w, m) /\ IsDtmf(news[w].event) => w \in readers'[m]
    PROVE  EvInv'
<1> DEFINE S == IF o.drain THEN {l} ELSE {}
<1>1. /\ queue' = Drained(S)
      /\ \/ /\ GoOn(w, On(l, o))
            /\ listeners' = ListenOn(S, w, listeners) /\ watchers' = ListenOn({l}, w, ws)
         \/ /\ o.timed
            /\ Over(w, Told("timeout"))
            /\ listeners' = listeners /\ watchers' = ws
  BY DEF Watch
<1>2. S \subseteq {l}
  OBVIOUS
<1>. HIDE DEF S
<1>3. QueuesStep(w)
  BY <1>1, QueuesAre
<1>4. CASE GoOn(w, On(l, o)) /\ listeners' = ListenOn(S, w, listeners) /\ watchers' = ListenOn({l}, w, ws)
  <2>1. /\ listeners' \in [Leg -> Seq(Wait)]
        /\ \A m \in Leg : /\ ToSet(listeners'[m]) = ToSet(listeners[m]) \cup (IF m \in S THEN {w} ELSE {})
                          /\ IsInjective(listeners'[m])
    <3>1. /\ ListenOn(S, w, listeners) \in [Leg -> Seq(Wait)]
          /\ \A m \in Leg : /\ ToSet(ListenOn(S, w, listeners)[m]) = ToSet(listeners[m]) \cup (IF m \in S THEN {w} ELSE {})
                            /\ IsInjective(listeners[m]) /\ w \notin ToSet(listeners[m])
                                  => IsInjective(ListenOn(S, w, listeners)[m])
      BY SameIs, ListenOnIs
    <3>2. QED
      BY <1>4, <3>1, SameIs
  <2>2. /\ watchers' \in [Leg -> Seq(Wait)]
        /\ \A m \in Leg : ToSet(watchers'[m]) = ToSet(ws[m]) \cup (IF m \in {l} THEN {w} ELSE {})
    <3> DEFINE R == {l}
    <3>0. watchers' = ListenOn(R, w, ws)
      BY <1>4
    <3>. HIDE DEF R
    <3>1. /\ ListenOn(R, w, ws) \in [Leg -> Seq(Wait)]
          /\ \A m \in Leg : /\ ToSet(ListenOn(R, w, ws)[m]) = ToSet(ws[m]) \cup (IF m \in R THEN {w} ELSE {})
                            /\ IsInjective(ws[m]) /\ w \notin ToSet(ws[m]) => IsInjective(ListenOn(R, w, ws)[m])
      BY ListenOnIs
    <3>2. QED
      BY <3>0, <3>1 DEF R
  <2>3. \A m \in Leg : /\ ToSet(listeners'[m]) \ {w} = ToSet(listeners[m]) \ {w}
                       /\ ToSet(watchers'[m]) \ {w} \subseteq ToSet(watchers[m])
                       /\ w \in ToSet(listeners'[m]) => m = l
                       /\ w \in ToSet(watchers'[m]) => m = l
    BY <1>2, <2>1, <2>2
  <2>4. Around(w)
    BY <2>1, <2>2, <2>3, AroundIs
  <2>5. o \in AnyOptions /\ o \in Options[kind'[w]]
    BY DEF AnyOptions, Options
  <2>6. On(l, o) \in Frames /\ On(l, o).legs = <<l>> /\ On(l, o).opts = o
    BY <2>5, FramesAre
  <2> DEFINE f == On(l, o)
  <2>. HIDE DEF f
  <2>7. f \in Frames /\ f.legs = <<l>> /\ f.opts \in Options[kind'[w]] /\ GoOn(w, f)
    BY <1>4, <2>5, <2>6 DEF f
  <2>8. QED
    BY <1>3, <2>3, <2>4, <2>7, GoOnKeeps
<1>5. CASE Over(w, Told("timeout")) /\ listeners' = listeners /\ watchers' = ws
  <2>1. \A m \in Leg : w \notin ToSet(listeners'[m]) /\ w \notin ToSet(watchers'[m])
    BY <1>5
  <2>2. Around(w)
    BY <1>5, SameIs, AroundIs
  <2>3. "timeout" \in Outs \ {"none"}
    BY DEF Outs
  <2>4. QED
    BY <1>3, <1>5, <2>1, <2>2, <2>3, OtherIsOver
<1>6. QED
  BY <1>1, <1>4, <1>5

LEMMA MediaWaitKeeps ==
    ASSUME EvInv, NEW w \in Wait, NEW l \in Main, NEW o \in MediaOptions, MediaWait(w, l, o)
    PROVE  EvInv'
<1>0. l \in Leg
  BY LegEventsAssumption DEF LegEventsAssumption
<1>1. /\ Ask(w, "media") /\ UNCHANGED legVars /\ missed' = missed
  BY DEF MediaWait
<1>2. /\ kind'[w] = "media" /\ answer[w] = Unanswered
      /\ \A m \in Leg : /\ ~Handed(w, m) /\ w \notin ToSet(listeners[m]) /\ w \notin ToSet(watchers[m])
  BY <1>1, AskIs
<1>3. CASE Over(w, Told("media")) /\ UNCHANGED <<queue, listeners, watchers, readers>>
  <2>1. QueuesStep(w)
    BY <1>2, <1>3, QueuesAre, SameIs
  <2>2. Around(w)
    BY <1>1, <1>3, SameIs, AroundIs
  <2>3. "media" \in Outs \ {"none"}
    BY DEF Outs
  <2>4. QED
    BY <1>2, <1>3, <2>1, <2>2, <2>3, OtherIsOver
<1>4. CASE Watch(w, l, o, listeners, watchers) /\ DrainedBy(w, IF o.drain THEN {l} ELSE {})
  <2>1. /\ readers' \in [Leg -> SUBSET Wait]
        /\ \A m \in Leg : readers[m] \subseteq readers'[m] /\ readers'[m] \subseteq readers[m] \cup {w}
    <3> DEFINE S == IF o.drain THEN {l} ELSE {}
    <3>1. DrainedBy(w, S)
      BY <1>4
    <3>. HIDE DEF S
    <3>2. QED
      BY <3>1, DrainedByIs, SameIs
  <2>2. watchers \in [Leg -> Seq(Wait)] /\ \A m \in Leg : ToSet(watchers[m]) = ToSet(watchers[m]) \ {w}
    BY <1>2, SameIs
  <2>3. QED
    BY <1>0, <1>1, <1>2, <1>4, <2>1, <2>2, WatchKeeps
<1>5. QED
  BY <1>3, <1>4 DEF MediaWait

LEMMA MediaDrainsKeeps ==
    ASSUME EvInv, NEW w \in Wait, MediaDrains(w)
    PROVE  EvInv'
<1> DEFINE l == TheLeg(w)
           o == frame[w].opts
           ws == Silent(w, watchers)
<1>1. /\ phase[w] = "woken" /\ kind[w] = "media" /\ news[w].what = "event"
      /\ Watch(w, l, o, listeners, ws) /\ readers' = [readers EXCEPT ![l] = @ \cup {w}]
      /\ UNCHANGED legVars /\ kind' = kind /\ missed' = missed
  BY DEF MediaDrains, Woken
<1>2. Underway(w) /\ WaitInv(w)
  BY <1>1 DEF Underway, EvInv
<1>3. /\ l \in Leg /\ LegsOf(w) = {l} /\ o \in MediaOptions
      /\ answer[w] # Unanswered => answer[w].out = "cancelled"
      /\ \A m \in Leg : Handed(w, m) => m = l
  BY <1>1, <1>2, UnderwayIs DEF Options
<1>4. \A m \in Leg : w \notin ToSet(listeners[m])
  BY <1>1, <1>2 DEF WaitInv, Unheard, Listening
<1>5. ws \in [Leg -> Seq(Wait)] /\ \A m \in Leg : ToSet(ws[m]) = ToSet(watchers[m]) \ {w}
  BY SilencedIs
<1>. HIDE DEF l, o, ws
<1>6. /\ readers' \in [Leg -> SUBSET Wait]
      /\ \A m \in Leg : /\ readers[m] \subseteq readers'[m] /\ readers'[m] \subseteq readers[m] \cup {w}
                        /\ m = l => w \in readers'[m]
  BY <1>1, <1>3, SameIs
<1>7. QED
  BY <1>1, <1>3, <1>4, <1>5, <1>6, WatchKeeps

LEMMA UnwatchedIs ==
    ASSUME EvInv, NEW w \in Wait, Unwatched(w), UNCHANGED legVars, missed' = missed, kind' = kind, kind[w] # "none"
    PROVE  Around(w) /\ \A l \in Leg : w \notin ToSet(listeners'[l]) /\ w \notin ToSet(watchers'[l])
<1>1. listeners' = Silent(w, listeners) /\ watchers' = Silent(w, watchers)
  BY DEF Unwatched
<1>2. /\ listeners' \in [Leg -> Seq(Wait)] /\ watchers' \in [Leg -> Seq(Wait)]
      /\ \A l \in Leg : /\ IsInjective(listeners'[l]) /\ ToSet(listeners'[l]) = ToSet(listeners[l]) \ {w}
                        /\ ToSet(watchers'[l]) = ToSet(watchers[l]) \ {w}
  BY <1>1, SilencedIs
<1>3. QED
  BY <1>2, AroundIs

LEMMA MediaResumesKeeps ==
    ASSUME EvInv, NEW w \in Wait, MediaResumes(w)
    PROVE  EvInv'
<1>1. /\ phase[w] = "woken" /\ kind[w] = "media" /\ news[w].what # "event"
      /\ Unwatched(w) /\ Over(w, Told(news[w].what))
      /\ UNCHANGED legVars /\ kind' = kind /\ missed' = missed /\ queue' = queue /\ readers' = readers
  BY DEF MediaResumes, Woken
<1>2. news[w] \in News /\ news[w] # NoNews
  BY <1>1 DEF EvInv, EvTypes, WaitInv, Phases
<1>3. news[w].what \in Outs \ {"none"} /\ \A l \in Leg : ~Handed(w, l)
  BY <1>1, <1>2 DEF News, Outs, Handed
<1>4. QueuesStep(w)
  BY <1>1, <1>3, QueuesAre, SameIs
<1>5. QED
  BY <1>1, <1>3, <1>4, UnwatchedIs, OtherIsOver

LEMMA MediaTimesOutKeeps ==
    ASSUME EvInv, NEW w \in Wait, MediaTimesOut(w)
    PROVE  EvInv'
<1>1. /\ phase[w] = "waiting" /\ kind[w] = "media"
      /\ Unwatched(w) /\ Over(w, Told("timeout"))
      /\ UNCHANGED legVars /\ kind' = kind /\ missed' = missed /\ queue' = queue /\ readers' = readers
  BY DEF MediaTimesOut, Waiting
<1>2. \A l \in Leg : ~Handed(w, l)
  BY <1>1, UnderwayIs DEF Underway
<1>3. "timeout" \in Outs \ {"none"}
  BY DEF Outs
<1>4. QueuesStep(w)
  BY <1>1, <1>2, QueuesAre, SameIs
<1>5. QED
  BY <1>1, <1>3, <1>4, UnwatchedIs, OtherIsOver

LEMMA DialListensKeeps ==
    ASSUME EvInv, NEW w \in Wait, NEW l \in Leg, NEW o \in [onDtmf : BOOLEAN],
           \A m \in Leg : w \notin ToSet(listeners[m]) /\ w \notin ToSet(watchers[m]),
           DialListens(w, l, o), UNCHANGED legVars, watchers' = watchers, missed' = missed,
           (kind' = kind /\ kind[w] = "dial") \/ Ask(w, "dial"), kind'[w] = "dial", answer[w] = Unanswered,
           readers' \in [Leg -> SUBSET Wait],
           \A m \in Leg : /\ readers[m] \subseteq readers'[m] /\ readers'[m] \subseteq readers[m] \cup {w}
                          /\ Handed(w, m) /\ IsDtmf(news[w].event) => w \in readers'[m]
    PROVE  EvInv'
<1> DEFINE S == IF o.onDtmf THEN {} ELSE {l}
<1>1. /\ queue' = Drained(S)
      /\ \/ Over(w, Told("interrupt")) /\ listeners' = listeners
         \/ GoOn(w, On(l, o)) /\ listeners' = ListenOn({l}, w, listeners)
  BY DEF DialListens
<1>. HIDE DEF S
<1>2. QueuesStep(w)
  BY <1>1, QueuesAre
<1>3. CASE Over(w, Told("interrupt")) /\ listeners' = listeners
  <2>1. Around(w)
    BY <1>3, SameIs, AroundIs
  <2>2. "interrupt" \in Outs \ {"none"}
    BY DEF Outs
  <2>3. QED
    BY <1>2, <1>3, <2>1, <2>2, OtherIsOver
<1>4. CASE GoOn(w, On(l, o)) /\ listeners' = ListenOn({l}, w, listeners)
  <2>1. /\ listeners' \in [Leg -> Seq(Wait)]
        /\ \A m \in Leg : /\ ToSet(listeners'[m]) = ToSet(listeners[m]) \cup (IF m \in {l} THEN {w} ELSE {})
                          /\ IsInjective(listeners'[m])
    <3> DEFINE R == {l}
    <3>0. listeners' = ListenOn(R, w, listeners)
      BY <1>4
    <3>. HIDE DEF R
    <3>1. /\ ListenOn(R, w, listeners) \in [Leg -> Seq(Wait)]
          /\ \A m \in Leg : /\ ToSet(ListenOn(R, w, listeners)[m]) = ToSet(listeners[m]) \cup (IF m \in R THEN {w} ELSE {})
                            /\ IsInjective(listeners[m]) /\ w \notin ToSet(listeners[m])
                                  => IsInjective(ListenOn(R, w, listeners)[m])
      BY SameIs, ListenOnIs
    <3>2. QED
      BY <3>0, <3>1, SameIs DEF R
  <2>2. \A m \in Leg : /\ ToSet(listeners'[m]) \ {w} = ToSet(listeners[m]) \ {w}
                       /\ w \in ToSet(listeners'[m]) => m = l
                       /\ w \notin ToSet(watchers'[m])
    BY <2>1
  <2>3. Around(w)
    BY <2>1, <2>2, SameIs, AroundIs
  <2>4. o \in AnyOptions /\ o \in Options[kind'[w]]
    BY DEF AnyOptions, Options
  <2>5. On(l, o) \in Frames /\ On(l, o).legs = <<l>> /\ On(l, o).opts = o
    BY <2>4, FramesAre
  <2> DEFINE f == On(l, o)
  <2>. HIDE DEF f
  <2>6. f \in Frames /\ f.legs = <<l>> /\ f.opts \in Options[kind'[w]] /\ GoOn(w, f)
    BY <1>4, <2>4, <2>5 DEF f
  <2>7. QED
    BY <1>2, <2>2, <2>3, <2>6, GoOnKeeps
<1>5. QED
  BY <1>1, <1>3, <1>4

LEMMA DialWaitKeeps ==
    ASSUME EvInv, NEW w \in Wait, NEW l \in Main, NEW o \in [onDtmf : BOOLEAN], DialWait(w, l, o)
    PROVE  EvInv'
<1>0. l \in Leg
  BY LegEventsAssumption DEF LegEventsAssumption
<1>1. /\ Ask(w, "dial") /\ UNCHANGED legVars /\ missed' = missed /\ watchers' = watchers
  BY DEF DialWait
<1>2. /\ kind'[w] = "dial" /\ answer[w] = Unanswered
      /\ \A m \in Leg : /\ ~Handed(w, m) /\ w \notin ToSet(listeners[m]) /\ w \notin ToSet(watchers[m])
  BY <1>1, AskIs
<1>3. CASE DialListens(w, l, o) /\ DrainedBy(w, IF o.onDtmf THEN {} ELSE {l})
  <2>1. /\ readers' \in [Leg -> SUBSET Wait]
        /\ \A m \in Leg : readers[m] \subseteq readers'[m] /\ readers'[m] \subseteq readers[m] \cup {w}
    <3> DEFINE S == IF o.onDtmf THEN {} ELSE {l}
    <3>1. DrainedBy(w, S)
      BY <1>3
    <3>. HIDE DEF S
    <3>2. QED
      BY <3>1, DrainedByIs, SameIs
  <2>2. QED
    BY <1>0, <1>1, <1>2, <1>3, <2>1, DialListensKeeps
<1>4. CASE GoOn(w, On(l, o)) /\ UNCHANGED <<queue, listeners, readers>>
  <2>1. QueuesStep(w)
    BY <1>2, <1>4, QueuesAre, SameIs
  <2>2. Around(w)
    BY <1>1, <1>4, SameIs, AroundIs
  <2>3. o \in AnyOptions /\ o \in Options[kind'[w]]
    BY <1>2 DEF AnyOptions, Options
  <2>4. On(l, o) \in Frames /\ On(l, o).legs = <<l>> /\ On(l, o).opts = o
    BY <1>0, <2>3, FramesAre
  <2> DEFINE f == On(l, o)
  <2>. HIDE DEF f
  <2>5. f \in Frames /\ f.legs = <<l>> /\ f.opts \in Options[kind'[w]] /\ GoOn(w, f)
    BY <1>4, <2>3, <2>4 DEF f
  <2>6. QED
    BY <1>0, <1>1, <1>2, <1>4, <2>1, <2>2, <2>5, GoOnKeeps
<1>5. QED
  BY <1>3, <1>4 DEF DialWait

\* A dial.wait or an agent that was woken.
LEMMA WokenIs ==
    ASSUME EvInv, NEW w \in Wait, phase[w] = "woken", kind[w] \in {"dial", "agent"}
    PROVE  /\ TheLeg(w) \in Leg /\ LegsOf(w) = {TheLeg(w)} /\ answer[w] = Unanswered
           /\ frame[w].opts \in Options[kind[w]] /\ frame[w] \in Frames /\ frame[w].legs = <<TheLeg(w)>>
           /\ \A m \in Leg : /\ w \notin ToSet(listeners[m]) /\ w \notin ToSet(watchers[m])
                             /\ Handed(w, m) => m = TheLeg(w)
<1>1. Underway(w) /\ WaitInv(w)
  BY DEF Underway, EvInv
<1>2. \A m \in Leg : w \notin ToSet(listeners[m])
  BY <1>1 DEF WaitInv, Unheard, Listening
<1>3. QED
  BY <1>1, <1>2, UnderwayIs DEF Watching

LEMMA DialInterruptedKeeps ==
    ASSUME EvInv, NEW w \in Wait, DialInterrupted(w)
    PROVE  EvInv'
<1> DEFINE l == TheLeg(w)
<1>1. /\ phase[w] = "woken" /\ kind[w] = "dial" /\ Over(w, Told("interrupt"))
      /\ readers' = IF news[w].event = Ended THEN readers ELSE [readers EXCEPT ![l] = @ \cup {w}]
      /\ UNCHANGED legVars /\ kind' = kind /\ missed' = missed /\ queue' = queue
      /\ listeners' = listeners /\ watchers' = watchers
  BY DEF DialInterrupted, Woken
<1>2. /\ l \in Leg
      /\ \A m \in Leg : /\ w \notin ToSet(listeners[m]) /\ w \notin ToSet(watchers[m])
                        /\ Handed(w, m) => m = l
  BY <1>1, WokenIs
<1>. HIDE DEF l
<1>3. ~IsDtmf(Ended)
  BY DEF IsDtmf, Ended
<1>4. /\ readers' \in [Leg -> SUBSET Wait]
      /\ \A m \in Leg : /\ readers[m] \subseteq readers'[m] /\ readers'[m] \subseteq readers[m] \cup {w}
                        /\ m = l /\ IsDtmf(news[w].event) => w \in readers'[m]
  BY <1>1, <1>2, <1>3, SameIs
<1>5. QueuesStep(w)
  BY <1>1, <1>2, <1>4, QueuesAre
<1>6. Around(w)
  BY <1>1, SameIs, AroundIs
<1>7. "interrupt" \in Outs \ {"none"}
  BY DEF Outs
<1>8. QED
  BY <1>1, <1>2, <1>5, <1>6, <1>7, OtherIsOver

LEMMA DialDrainsKeeps ==
    ASSUME EvInv, NEW w \in Wait, DialDrains(w)
    PROVE  EvInv'
<1> DEFINE l == TheLeg(w)
           o == frame[w].opts
<1>1. /\ phase[w] = "woken" /\ kind[w] = "dial" /\ DialListens(w, l, o)
      /\ readers' = [readers EXCEPT ![l] = @ \cup {w}]
      /\ UNCHANGED legVars /\ kind' = kind /\ missed' = missed /\ watchers' = watchers
  BY DEF DialDrains, Woken
<1>2. /\ l \in Leg /\ o \in [onDtmf : BOOLEAN] /\ answer[w] = Unanswered
      /\ \A m \in Leg : /\ w \notin ToSet(listeners[m]) /\ w \notin ToSet(watchers[m])
                        /\ Handed(w, m) => m = l
  <2>1. /\ l \in Leg /\ o \in Options[kind[w]] /\ answer[w] = Unanswered
        /\ \A m \in Leg : /\ w \notin ToSet(listeners[m]) /\ w \notin ToSet(watchers[m])
                          /\ Handed(w, m) => m = l
    BY <1>1, WokenIs
  <2> DEFINE all == [onDtmf : BOOLEAN]
  <2>2. Options = [call |-> CallOptions, media |-> MediaOptions, dial |-> all, agent |-> {<<>>}]
    BY DEF Options
  <2>. HIDE DEF all
  <2>3. Options[kind[w]] = all
    BY <1>1, <2>2
  <2>. USE DEF all
  <2>4. QED
    BY <2>1, <2>3
<1>. HIDE DEF l, o
<1>3. /\ readers' \in [Leg -> SUBSET Wait]
      /\ \A m \in Leg : /\ readers[m] \subseteq readers'[m] /\ readers'[m] \subseteq readers[m] \cup {w}
                        /\ m = l => w \in readers'[m]
  BY <1>1, <1>2, SameIs
<1>4. QED
  BY <1>1, <1>2, <1>3, DialListensKeeps

LEMMA DialDeafKeeps ==
    ASSUME EvInv, NEW w \in Wait, DialDeaf(w)
    PROVE  EvInv'
<1>1. /\ phase[w] = "woken" /\ kind[w] = "dial" /\ news[w].what = "leg_finalized"
      /\ GoOn(w, frame[w])
      /\ UNCHANGED legVars /\ kind' = kind /\ missed' = missed /\ queue' = queue /\ readers' = readers
      /\ listeners' = listeners /\ watchers' = watchers
  BY DEF DialDeaf, Woken
<1>2. /\ TheLeg(w) \in Leg /\ frame[w].opts \in Options[kind'[w]] /\ answer[w] = Unanswered
      /\ frame[w] \in Frames /\ frame[w].legs = <<TheLeg(w)>>
      /\ \A m \in Leg : /\ w \notin ToSet(listeners[m]) /\ w \notin ToSet(watchers[m])
                        /\ ~Handed(w, m)
  BY <1>1, WokenIs DEF Handed
<1>3. QueuesStep(w)
  BY <1>1, <1>2, QueuesAre, SameIs
<1>4. Around(w)
  BY <1>1, SameIs, AroundIs
<1>5. QED
  BY <1>1, <1>2, <1>3, <1>4, GoOnKeeps

LEMMA DialAnswersKeeps ==
    ASSUME EvInv, NEW w \in Wait, DialAnswers(w)
    PROVE  EvInv'
<1>1. /\ phase[w] = "waiting" /\ kind[w] = "dial" /\ listeners' = Silent(w, listeners)
      /\ \E out \in {"dial", "timeout"} : Over(w, Told(out))
      /\ UNCHANGED legVars /\ kind' = kind /\ missed' = missed /\ queue' = queue /\ readers' = readers
      /\ watchers' = watchers
  BY DEF DialAnswers, Waiting
<1>2. \A l \in Leg : ~Handed(w, l) /\ w \notin ToSet(watchers[l])
  BY <1>1, UnderwayIs DEF Underway, Watching
<1>3. PICK out \in Outs \ {"none"} : Over(w, Told(out))
  BY <1>1 DEF Outs
<1>4. QueuesStep(w)
  BY <1>1, <1>2, QueuesAre, SameIs
<1>5. Around(w)
  BY <1>1, SilencedIs, SameIs, AroundIs
<1>6. \A l \in Leg : w \notin ToSet(listeners'[l]) /\ w \notin ToSet(watchers'[l])
  <2>1. \A l \in Leg : w \notin ToSet(listeners'[l])
    BY <1>1, Unlistened
  <2>2. QED
    BY <1>1, <1>2, <2>1
<1>7. QED
  BY <1>1, <1>3, <1>4, <1>5, <1>6, OtherIsOver

LEMMA AgentWaitKeeps ==
    ASSUME EvInv, NEW w \in Wait, NEW l \in Main, AgentWait(w, l)
    PROVE  EvInv'
<1>0. l \in Leg
  BY LegEventsAssumption DEF LegEventsAssumption
<1>1. /\ Ask(w, "agent") /\ UNCHANGED legVars /\ missed' = missed /\ watchers' = watchers /\ readers' = readers
  BY DEF AgentWait
<1>2. /\ kind'[w] = "agent" /\ answer[w] = Unanswered
      /\ \A m \in Leg : /\ ~Handed(w, m) /\ w \notin ToSet(listeners[m]) /\ w \notin ToSet(watchers[m])
  BY <1>1, AskIs
<1>3. CASE Over(w, Told("error")) /\ UNCHANGED <<queue, listeners>>
  <2>1. QueuesStep(w)
    BY <1>1, <1>2, <1>3, QueuesAre, SameIs
  <2>2. Around(w)
    BY <1>1, <1>3, SameIs, AroundIs
  <2>3. "error" \in Outs \ {"none"}
    BY DEF Outs
  <2>4. QED
    BY <1>1, <1>2, <1>3, <2>1, <2>2, <2>3, OtherIsOver
<1>4. CASE /\ Over(w, Told("ended"))
           /\ queue' = [queue EXCEPT ![l] =
                 IF Ended \in ToSet(@) THEN RemoveAt(@, Min({i \in DOMAIN @ : @[i] = Ended})) ELSE @]
           /\ UNCHANGED listeners
  <2> DEFINE q == queue[l]
             E == {i \in DOMAIN q : q[i] = Ended}
  <2>1. /\ q \in Seq(Event) /\ Len(q) <= QueueLimit /\ Len(q) \in Nat /\ typed[l] \in Seq(Keys)
        /\ QueueLimit \in Nat /\ EvTypes
        /\ \A m \in Leg : Len(queue[m]) <= QueueLimit /\ (Reads(m) = {} => Follows(queue[m], <<>>, typed[m]))
    BY <1>0, LegEventsAssumption DEF EvInv, EvTypes, LegInv, LegEventsAssumption
  <2>2. /\ queue'[l] = IF Ended \in ToSet(q) THEN RemoveAt(q, Min(E)) ELSE q
        /\ \A m \in Leg : m # l => queue'[m] = queue[m]
    BY <1>0, <1>4, <2>1 DEF EvTypes
  <2>3. ASSUME Ended \in ToSet(q)
        PROVE  /\ queue'[l] \in Seq(Event) /\ Len(queue'[l]) <= QueueLimit /\ q # <<>>
               /\ Follows(q, <<>>, typed[l]) => Follows(queue'[l], <<>>, typed[l])
               /\ Len(queue'[l]) <= Len(q)
    <3>1. E \in SUBSET Nat /\ E # {} /\ E \subseteq 1 .. Len(q) /\ \A i \in E : q[i] = Ended
      BY <2>1, <2>3 DEF ToSet
    <3>. HIDE DEF E
    <3>2. PICK k \in 1 .. Len(q) : k = Min(E) /\ q[k] = Ended
      BY <3>1, MinIsLeast
    <3>3. queue'[l] = RemoveAt(q, k) /\ ~IsDtmf(q[k])
      BY <2>2, <2>3, <3>2 DEF IsDtmf, Ended
    <3>. HIDE DEF q
    <3>4. <<>> \in Seq(Keys)
      OBVIOUS
    <3>5. Follows(q, <<>>, typed[l]) => Follows(queue'[l], <<>>, typed[l])
      BY <2>1, <3>3, <3>4, FollowsRemoved
    <3>6. q # <<>>
      BY <2>1
    <3>7. RemoveAt(q, k) \in Seq(Event) /\ Len(RemoveAt(q, k)) <= Len(q)
      BY <2>1, RemovedIs
    <3>8. QED
      BY <2>1, <3>3, <3>5, <3>6, <3>7
  <2>4. queue' \in [Leg -> Seq(Event)]
    <3>1. (IF Ended \in ToSet(q) THEN RemoveAt(q, Min(E)) ELSE q) \in Seq(Event)
      BY <2>1, <2>2, <2>3
    <3>2. queue' = [queue EXCEPT ![l] = IF Ended \in ToSet(q) THEN RemoveAt(q, Min(E)) ELSE q]
      BY <1>4
    <3>3. QED
      BY <2>1, <3>1, <3>2 DEF EvTypes
  <2>5. QueuesStep(w)
    <3>1. readers' \in [Leg -> SUBSET Wait]
      BY <1>1, SameIs
    <3>2. ASSUME NEW m \in Leg
          PROVE  /\ Len(queue'[m]) <= QueueLimit /\ (queue[m] = <<>> => queue'[m] = <<>>)
                 /\ Reads(m) = {} => Follows(queue'[m], <<>>, typed[m])
      <4>1. CASE m # l
        BY <2>1, <2>2, <4>1
      <4>2. CASE m = l /\ Ended \in ToSet(q)
        BY <2>1, <2>3, <4>2
      <4>3. CASE m = l /\ Ended \notin ToSet(q)
        BY <2>1, <2>2, <4>3
      <4>4. QED
        BY <4>1, <4>2, <4>3
    <3>3. QED
      BY <1>1, <1>2, <2>4, <3>1, <3>2 DEF QueuesStep
  <2>6. Around(w)
    BY <1>1, <1>4, SameIs, AroundIs
  <2>7. "ended" \in Outs \ {"none"}
    BY DEF Outs
  <2>8. QED
    BY <1>1, <1>2, <1>4, <2>5, <2>6, <2>7, OtherIsOver
<1>5. CASE GoOn(w, On(l, <<>>)) /\ listeners' = ListenOn({l}, w, listeners) /\ UNCHANGED queue
  <2>1. /\ listeners' \in [Leg -> Seq(Wait)]
        /\ \A m \in Leg : /\ ToSet(listeners'[m]) = ToSet(listeners[m]) \cup (IF m \in {l} THEN {w} ELSE {})
                          /\ IsInjective(listeners'[m])
    <3> DEFINE R == {l}
    <3>0. listeners' = ListenOn(R, w, listeners)
      BY <1>5
    <3>. HIDE DEF R
    <3>1. /\ ListenOn(R, w, listeners) \in [Leg -> Seq(Wait)]
          /\ \A m \in Leg : /\ ToSet(ListenOn(R, w, listeners)[m]) = ToSet(listeners[m]) \cup (IF m \in R THEN {w} ELSE {})
                            /\ IsInjective(listeners[m]) /\ w \notin ToSet(listeners[m])
                                  => IsInjective(ListenOn(R, w, listeners)[m])
      BY SameIs, ListenOnIs
    <3>2. QED
      BY <1>2, <3>0, <3>1, SameIs DEF R
  <2>2. \A m \in Leg : /\ ToSet(listeners'[m]) \ {w} = ToSet(listeners[m]) \ {w}
                       /\ w \in ToSet(listeners'[m]) => m = l
                       /\ w \notin ToSet(watchers'[m])
    BY <1>1, <1>2, <2>1
  <2>3. Around(w)
    BY <1>1, <2>1, <2>2, SameIs, AroundIs
  <2>4. QueuesStep(w)
    BY <1>1, <1>2, <1>5, QueuesAre, SameIs
  <2> DEFINE o == <<>>
             f == On(l, o)
  <2>5. o \in AnyOptions /\ o \in Options[kind'[w]]
    BY <1>2 DEF AnyOptions, Options
  <2>. HIDE DEF o
  <2>6. On(l, o) \in Frames /\ On(l, o).legs = <<l>> /\ On(l, o).opts = o
    BY <1>0, <2>5, FramesAre
  <2>. HIDE DEF f
  <2>7. f \in Frames /\ f.legs = <<l>> /\ f.opts \in Options[kind'[w]] /\ GoOn(w, f)
    BY <1>5, <2>5, <2>6 DEF f, o
  <2>8. QED
    BY <1>0, <1>2, <2>2, <2>3, <2>4, <2>7, GoOnKeeps
<1>6. QED
  BY <1>3, <1>4, <1>5 DEF AgentWait

LEMMA AgentResumesKeeps ==
    ASSUME EvInv, NEW w \in Wait, AgentResumes(w)
    PROVE  EvInv'
<1> DEFINE out == IF news[w].what = "event" THEN "ended" ELSE "leg_finalized"
<1>1. /\ phase[w] = "woken" /\ kind[w] = "agent" /\ Over(w, Told(out))
      /\ UNCHANGED legVars /\ kind' = kind /\ missed' = missed /\ queue' = queue /\ readers' = readers
      /\ listeners' = listeners /\ watchers' = watchers
  BY DEF AgentResumes, Woken
<1>2. \A l \in Leg : w \notin ToSet(listeners[l]) /\ w \notin ToSet(watchers[l])
  BY <1>1, WokenIs
<1>3. \A l \in Leg : ~(Handed(w, l) /\ IsDtmf(news[w].event))
  <2>1. news[w].what = "event" => Wants(w, news[w].event)
    BY DEF EvInv, WaitInv, Wanted
  <2>2. Wants(w, news[w].event) => ~IsDtmf(news[w].event)
    BY <1>1 DEF Wants, IsDtmf, Ended
  <2>3. QED
    BY <2>1, <2>2 DEF Handed
<1>4. PICK x \in Outs \ {"none"} : x = out
  BY DEF Outs
<1>. HIDE DEF out
<1>5. QueuesStep(w)
  BY <1>1, <1>3, QueuesAre, SameIs
<1>6. Around(w)
  BY <1>1, SameIs, AroundIs
<1>7. QED
  BY <1>1, <1>2, <1>4, <1>5, <1>6, OtherIsOver

LEMMA CancelKeeps ==
    ASSUME EvInv, NEW w \in Wait, Cancel(w)
    PROVE  EvInv'
<1>1. /\ phase[w] = "waiting" /\ answer[w] = Unanswered
      /\ UNCHANGED legVars /\ kind' = kind /\ missed' = missed /\ queue' = queue /\ readers' = readers
      /\ watchers' = watchers
      /\ \/ /\ kind[w] = "media"
            /\ answer' = [answer EXCEPT ![w] = Told("cancelled")]
            /\ UNCHANGED <<phase, frame, news, listeners>>
         \/ kind[w] # "media" /\ listeners' = Silent(w, listeners) /\ Over(w, Told("cancelled"))
  BY DEF Cancel
<1>2. /\ Underway(w) /\ EvTypes /\ news[w] = NoNews /\ frame[w] # NoFrame
      /\ frame[w].opts \in Options[kind[w]] /\ kind[w] # "none"
      /\ kind[w] # "call" => TheLeg(w) \in Leg /\ LegsOf(w) = {TheLeg(w)} /\ frame[w].legs = <<TheLeg(w)>>
      /\ \A l \in Leg : /\ ~Handed(w, l)
                        /\ Listening(w, l) \/ Watching(w, l) => l \in LegsOf(w)
                        /\ Watching(w, l) => kind[w] = "media"
  <2>1. Underway(w)
    BY <1>1 DEF Underway
  <2>2. frame[w] # NoFrame
    BY <2>1 DEF EvInv, WaitInv, Phases
  <2>3. QED
    BY <1>1, <2>1, <2>2, UnderwayIs
<1>3. QueuesStep(w)
  BY <1>1, <1>2, QueuesAre, SameIs
<1>4. Told("cancelled") \in Answers /\ Told("cancelled").out = "cancelled" /\ Told("cancelled") # Unanswered
  BY ToldIs, UnansweredIs DEF Outs
<1>5. CASE kind[w] # "media" /\ listeners' = Silent(w, listeners) /\ Over(w, Told("cancelled"))
  <2>1. Around(w)
    BY <1>1, <1>2, <1>5, SilencedIs, SameIs, AroundIs
  <2>2. answer'[w] = Told("cancelled")
    BY <1>1, <1>2, <1>4, <1>5, OverIs
  <2>3. AnswersTyped(w)'
    BY <1>4, <2>2 DEF AnswersTyped
  <2>4. \A l \in Leg : w \notin ToSet(listeners'[l]) /\ w \notin ToSet(watchers'[l])
    <3>1. \A l \in Leg : w \notin ToSet(watchers'[l])
      BY <1>1, <1>2, <1>5 DEF Watching
    <3>2. \A l \in Leg : w \notin ToSet(listeners'[l])
      BY <1>5, Unlistened
    <3>3. QED
      BY <3>1, <3>2
  <2>5. QED
    BY <1>3, <1>4, <1>5, <2>1, <2>3, <2>4, OverKeeps
<1>6. CASE /\ kind[w] = "media"
           /\ answer' = [answer EXCEPT ![w] = Told("cancelled")]
           /\ UNCHANGED <<phase, frame, news, listeners>>
  <2>1. /\ answer' \in [Wait -> Answers] /\ answer'[w] = Told("cancelled")
        /\ \A v \in Wait \ {w} : answer'[v] = answer[v]
    BY <1>2, <1>4, <1>6 DEF EvTypes
  <2>2. leg' = leg /\ media' = media /\ published' = published /\ typed' = typed
    BY <1>1 DEF legVars
  <2>3. StepOf(w)
    <3>1. \A l \in Leg : IsInjective(listeners[l])
      BY SameIs
    <3>2. QED
      BY <1>1, <1>2, <1>3, <1>6, <2>1, <2>2, <3>1 DEF StepOf, QueuesStep
  <2>4. EvTypes'
    BY <1>1, <1>2, <1>6, <2>1, <2>2 DEF EvTypes
  <2>5. frame[w].legs # <<>> /\ IsInjective(frame[w].legs) /\ Len(frame[w].legs) = 1
    BY <1>2, <1>6 DEF EvInv, WaitInv, Phases
  <2>6. CallListens(w)' /\ HoldsLast(w)'
    BY <1>1, <1>6 DEF CallListens, HoldsLast
  <2>7. WaitInv(w)'
    <3>1. \A l \in Leg : /\ w \in ToSet(listeners'[l]) => l \in ToSet(frame'[w].legs)
                         /\ w \in ToSet(watchers'[l]) => l \in ToSet(frame'[w].legs)
      BY <1>1, <1>2, <1>6 DEF Listening, Watching, LegsOf
    <3>2. QED
      BY <1>1, <1>2, <1>4, <1>6, <2>1, <2>3, <2>5, <2>6, <3>1, GoOnKeepsWait
  <2>8. QED
    BY <2>3, <2>4, <2>7, StepKeepsLegs, StepKeepsOthers DEF EvInv
<1>7. QED
  BY <1>1, <1>5, <1>6

-----------------------------------------------------------------------------
(* LegEvents: what happens on a leg.                                       *)

\* Nothing happened on l; event e happened there.
Still(l) ==
    queue'[l] = queue[l] /\ typed'[l] = typed[l] /\ \A v \in Wait : ~Handed(v, l)'
Passed(l, e) ==
    /\ queue'[l] = IF Takers(l, e) = {} THEN Push(queue[l], e) ELSE queue[l]
    /\ typed'[l] = IF IsDtmf(e) THEN typed[l] \o e.digits ELSE typed[l]
    /\ \A v \in Wait : Handed(v, l)' => news'[v].event = e
    /\ IsDtmf(e) /\ Takers(l, e) # {} => \E v \in Wait : Handed(v, l)'

\* Waits are told of it and nobody resumes.  Who is handed an event wanted it,
\* who is not woken listens as before.
Tells ==
    /\ kind' = kind /\ frame' = frame /\ answer' = answer /\ readers' = readers /\ missed \subseteq missed'
    /\ \A w \in Wait :
          /\ \/ phase'[w] = phase[w] /\ news'[w] = NoNews
             \/ phase[w] = "waiting" /\ phase'[w] = "woken" /\ news'[w] \in News \ {NoNews}
          /\ news'[w].what = "event" =>
                /\ news'[w].leg \in Leg /\ w \in Takers(news'[w].leg, news'[w].event)
                /\ IsDtmf(news'[w].event) => \A v \in Wait \ {w} : phase'[v] # "woken"
                /\ news'[w].event # Ended => leg' = leg
          /\ news'[w].what \in {"event", "leg_finalized"} =>
                \E l \in Leg : w \in ToSet(listeners[l]) /\ w \notin ToSet(listeners'[l])
          /\ news'[w].what = "media" => kind[w] = "media"
          /\ phase'[w] = "waiting" =>
                \A l \in Leg : /\ w \in ToSet(listeners[l]) => w \in ToSet(listeners'[l])
                               /\ w \in ToSet(listeners[l]) /\ leg[l] = "live" => leg'[l] = "live"
    /\ \A l \in Leg :
          /\ ToSet(listeners'[l]) \subseteq ToSet(listeners[l]) /\ IsInjective(listeners'[l])
          /\ ToSet(watchers'[l]) \subseteq ToSet(watchers[l])
          /\ Still(l) \/ \E e \in Event : Passed(l, e)

\* Nobody is about to look at anything.
LEMMA SettledIs ==
    ASSUME EvInv, Settled
    PROVE  /\ \A w \in Wait : phase[w] # "woken" /\ news[w] = NoNews
           /\ \A w \in Wait, l \in Leg : ~Handed(w, l) /\ Due(w, l) = <<>>
           /\ \A l \in Leg : Reads(l) = readers[l]
<1>1. \A w \in Wait : phase[w] # "woken" /\ news[w] = NoNews
  BY DEF Settled, EvInv, WaitInv, Phases
<1>2. \A w \in Wait, l \in Leg : ~Handed(w, l)
  BY <1>1 DEF Handed, NoNews
<1>3. QED
  BY <1>1, <1>2 DEF Due, Reads

LEMMA NewsAre ==
    ASSUME NEW n \in News
    PROVE  /\ n.what \in {"none", "leg_finalized", "media", "event"}
           /\ n.what = "none" <=> n = NoNews
           /\ n.what = "event" => n.leg \in Leg /\ n.event \in Event
BY DEF News, NoNews

LEMMA TellsKeepsLegs ==
    ASSUME EvInv, Settled, Tells, NEW l \in Leg
    PROVE  LegInv(l)'
<1>1. /\ IsInjective(listeners'[l]) /\ readers' = readers
      /\ Still(l) \/ \E e \in Event : Passed(l, e)
  BY DEF Tells
<1>2. /\ queue[l] \in Seq(Event) /\ typed[l] \in Seq(Keys) /\ Len(queue[l]) <= QueueLimit
      /\ Reads(l) = {} => Follows(queue[l], <<>>, typed[l])
  BY DEF EvInv, EvTypes, LegInv
<1>3. Reads(l) \subseteq Reads(l)'
  BY <1>1, SettledIs DEF Reads
<1>4. CASE Still(l)
  BY <1>1, <1>2, <1>3, <1>4 DEF Still, LegInv
<1>5. CASE \E e \in Event : Passed(l, e)
  <2>1. PICK e \in Event : Passed(l, e)
    BY <1>5
  <2>2. /\ Len(Push(queue[l], e)) <= QueueLimit
        /\ ~IsDtmf(e) /\ Follows(queue[l], <<>>, typed[l]) => Follows(Push(queue[l], e), <<>>, typed[l])
        /\ IsDtmf(e) /\ Follows(queue[l], <<>>, typed[l])
              => Follows(Push(queue[l], e), <<>>, typed[l] \o e.digits)
    BY <1>2, PushKeeps
  <2>3. CASE Takers(l, e) = {}
    <3>1. /\ queue'[l] = Push(queue[l], e)
          /\ typed'[l] = IF IsDtmf(e) THEN typed[l] \o e.digits ELSE typed[l]
      BY <2>1, <2>3 DEF Passed
    <3>2. QED
      BY <1>1, <1>2, <1>3, <2>2, <3>1 DEF LegInv
  <2>4. CASE Takers(l, e) # {} /\ ~IsDtmf(e)
    <3>1. queue'[l] = queue[l] /\ typed'[l] = typed[l]
      BY <2>1, <2>4 DEF Passed
    <3>2. QED
      BY <1>1, <1>2, <1>3, <3>1 DEF LegInv
  <2>5. CASE Takers(l, e) # {} /\ IsDtmf(e)
    <3>1. PICK v \in Wait : Handed(v, l)' /\ news'[v].event = e
      BY <2>1, <2>5 DEF Passed
    <3>2. v \in Reads(l)'
      BY <2>5, <3>1 DEF Reads
    <3>3. queue'[l] = queue[l]
      BY <2>1, <2>5 DEF Passed
    <3>4. QED
      BY <1>1, <1>2, <3>2, <3>3 DEF LegInv
  <2>6. QED
    BY <2>3, <2>4, <2>5
<1>6. QED
  BY <1>1, <1>4, <1>5

\* A call.wait that was not passed over listens on its legs: the event is for it
\* or for another call.wait, which then reads the digits.
LEMMA TellsHoldsLast ==
    ASSUME EvInv, Settled, Tells, NEW w \in Wait
    PROVE  HoldsLast(w)'
<1>1. SUFFICES ASSUME kind'[w] = "call", Underway(w)', w \notin missed', NEW l \in LegsOf(w)'
               PROVE  /\ queue'[l] = <<>>
                      /\ Reads(l)' \subseteq {w} => Follows(Due(w, l)', frame'[w].digits[l], typed'[l])
  BY DEF HoldsLast
<1>2. /\ kind[w] = "call" /\ phase[w] = "waiting" /\ w \notin missed /\ l \in LegsOf(w)
      /\ frame'[w] = frame[w] /\ readers' = readers
  <2>1. /\ kind' = kind /\ frame' = frame /\ readers' = readers /\ missed \subseteq missed'
        /\ (phase'[w] = phase[w] \/ phase[w] = "waiting") /\ phase[w] # "woken"
    <3>1. /\ kind' = kind /\ frame' = frame /\ readers' = readers /\ missed \subseteq missed'
          /\ (phase'[w] = phase[w] \/ phase[w] = "waiting")
      BY DEF Tells
    <3>2. QED
      BY <3>1, SettledIs
  <2>2. phase[w] = "waiting"
    BY <1>1, <2>1 DEF Underway
  <2>3. QED
    BY <1>1, <2>1, <2>2 DEF LegsOf
<1>3. /\ frame[w] \in Frames /\ l \in Leg /\ frame[w].digits[l] \in Seq(Keys) /\ typed[l] \in Seq(Keys)
      /\ HoldsLast(w) /\ CallListens(w)
  <2>1. EvTypes /\ HoldsLast(w) /\ CallListens(w)
    BY DEF EvInv, WaitInv
  <2>2. frame[w] \in Frames /\ frame[w].legs \in Seq(Leg) /\ frame[w].digits \in [Leg -> Seq(Keys)]
    BY <2>1 DEF EvTypes, Frames
  <2>3. l \in Leg
    BY <1>2, <2>2 DEF LegsOf, ToSet
  <2>4. QED
    BY <2>1, <2>2, <2>3 DEF EvTypes
<1>4. /\ queue[l] = <<>> /\ w \in ToSet(listeners[l])
      /\ readers[l] \subseteq {w} => Follows(<<>>, frame[w].digits[l], typed[l])
  BY <1>2, <1>3, SettledIs DEF HoldsLast, CallListens, Underway, Listening
<1>5. Reads(l)' \subseteq {w} => readers[l] \subseteq {w}
  BY <1>2 DEF Reads
<1>6. CASE Still(l)
  <2>1. queue'[l] = queue[l] /\ typed'[l] = typed[l] /\ Due(w, l)' = <<>>
    BY <1>6 DEF Still, Due
  <2>2. QED
    BY <1>2, <1>4, <1>5, <2>1
<1>7. CASE \E e \in Event : Passed(l, e)
  <2>1. PICK e \in Event : Passed(l, e)
    BY <1>7
  <2>2. w \in Takers(l, e)
    BY <1>2, <1>4 DEF Takers, Wants
  <2>3. /\ queue'[l] = <<>> /\ typed'[l] = (IF IsDtmf(e) THEN typed[l] \o e.digits ELSE typed[l])
        /\ Handed(w, l)' => Due(w, l)' = <<e>>
        /\ ~Handed(w, l)' => Due(w, l)' = <<>>
        /\ IsDtmf(e) => \E v \in Wait : Handed(v, l)' /\ news'[v].event = e
    BY <1>4, <2>1, <2>2 DEF Passed, Due
  <2>4. SUFFICES ASSUME Reads(l)' \subseteq {w}
                 PROVE  Follows(Due(w, l)', frame'[w].digits[l], typed'[l])
    BY <2>3
  <2> DEFINE none == <<>>
  <2>5. none \in Seq(Event) /\ Append(none, e) = <<e>> /\ Follows(none, frame[w].digits[l], typed[l])
    BY <1>4, <1>5, <2>4
  <2>. HIDE DEF none
  <2>6. /\ ~IsDtmf(e) => Follows(<<e>>, frame[w].digits[l], typed[l])
        /\ IsDtmf(e) => Follows(<<e>>, frame[w].digits[l], typed[l] \o e.digits)
    BY <1>3, <2>5, FollowsMore
  <2>. USE DEF none
  <2>7. CASE IsDtmf(e)
    <3>1. PICK v \in Wait : Handed(v, l)' /\ news'[v].event = e
      BY <2>3, <2>7
    <3>2. v \in Reads(l)'
      BY <2>7, <3>1 DEF Reads
    <3>3. Handed(w, l)'
      BY <2>4, <3>1, <3>2
    <3>4. QED
      BY <1>2, <2>3, <2>6, <2>7, <3>3
  <2>8. CASE ~IsDtmf(e)
    BY <1>2, <2>3, <2>5, <2>6, <2>8
  <2>9. QED
    BY <2>7, <2>8
<1>8. QED
  BY <1>3, <1>6, <1>7 DEF Tells

LEMMA TellsKeepsWait ==
    ASSUME EvInv, Settled, Tells, NEW w \in Wait
    PROVE  WaitInv(w)'
<1>1. /\ WaitInv(w) /\ phase[w] # "woken" /\ news[w] = NoNews
      /\ Underway(w) => frame[w].legs \in Seq(Leg) /\ (kind[w] # "call" => LegsOf(w) = {TheLeg(w)})
  BY SettledIs, UnderwayIs DEF EvInv
<1>2. /\ kind'[w] = kind[w] /\ frame'[w] = frame[w] /\ answer'[w] = answer[w] /\ readers' = readers
      /\ w \in missed => w \in missed'
  BY DEF Tells
<1>3. \/ phase'[w] = phase[w] /\ news'[w] = NoNews
      \/ phase[w] = "waiting" /\ phase'[w] = "woken" /\ news'[w] \in News \ {NoNews}
  BY DEF Tells
<1>4. /\ news'[w].what = "event" =>
            /\ news'[w].leg \in Leg /\ w \in Takers(news'[w].leg, news'[w].event)
            /\ IsDtmf(news'[w].event) => \A v \in Wait \ {w} : phase'[v] # "woken"
            /\ news'[w].event # Ended => leg' = leg
      /\ news'[w].what \in {"event", "leg_finalized"} =>
            \E l \in Leg : w \in ToSet(listeners[l]) /\ w \notin ToSet(listeners'[l])
      /\ news'[w].what = "media" => kind[w] = "media"
      /\ phase'[w] = "waiting" =>
            \A l \in Leg : /\ w \in ToSet(listeners[l]) => w \in ToSet(listeners'[l])
                           /\ w \in ToSet(listeners[l]) /\ leg[l] = "live" => leg'[l] = "live"
  BY DEF Tells
<1>5. \A l \in Leg : /\ ToSet(listeners'[l]) \subseteq ToSet(listeners[l])
                     /\ ToSet(watchers'[l]) \subseteq ToSet(watchers[l])
  BY DEF Tells
<1>6. /\ Underway(w)' <=> Underway(w)
      /\ news'[w] \in News /\ (news'[w].what = "none" <=> news'[w] = NoNews)
      /\ news'[w].what \in {"none", "leg_finalized", "media", "event"}
  <2>1. news'[w] \in News
    BY <1>3 DEF News
  <2>2. Underway(w)' <=> Underway(w)
    BY <1>3 DEF Underway
  <2>3. QED
    BY <2>1, <2>2, NewsAre
<1>7. Phases(w)'
  <2>1. Phases(w)
    BY <1>1 DEF WaitInv
  <2>2. /\ phase'[w] = "woken" <=> news'[w] # NoNews
        /\ phase'[w] = "none" <=> phase[w] = "none"
        /\ phase'[w] = "over" <=> phase[w] = "over"
    BY <1>1, <1>3
  <2>3. QED
    BY <1>2, <1>6, <2>1, <2>2 DEF Phases
<1>8. Listens(w)'
  BY <1>1, <1>2, <1>5, <1>6 DEF WaitInv, Listens, Listening, Watching, LegsOf
<1>9. Unheard(w)'
  <2>1. SUFFICES ASSUME phase'[w] = "woken", kind[w] \in {"dial", "agent"} \/ news'[w].what = "event", kind[w] # "call",
                        NEW m \in Leg
                 PROVE  w \notin ToSet(listeners'[m])
    BY <1>2 DEF Unheard, Listening
  <2>2. Underway(w) /\ news'[w] # NoNews
    BY <1>1, <1>3, <2>1 DEF Underway
  <2>3. news'[w].what \in {"event", "leg_finalized"}
    BY <1>4, <1>6, <2>1, <2>2
  <2>4. PICK l \in Leg : w \in ToSet(listeners[l]) /\ w \notin ToSet(listeners'[l])
    BY <1>4, <2>3
  <2>5. w \in ToSet(listeners'[m]) => m = l
    BY <1>1, <1>5, <2>1, <2>2, <2>4 DEF WaitInv, Listens, Listening
  <2>6. QED
    BY <2>4, <2>5
<1>10. CallListens(w)'
  <2>1. SUFFICES ASSUME kind[w] = "call", phase'[w] = "waiting", NEW l \in LegsOf(w)
                 PROVE  leg'[l] = "live" /\ w \in ToSet(listeners'[l])
    BY <1>2 DEF CallListens, LegsOf, Listening
  <2>2. phase[w] = "waiting"
    BY <1>3, <2>1
  <2>3. l \in Leg
    BY <1>1, <2>1, <2>2 DEF Underway, LegsOf, ToSet
  <2>4. leg[l] = "live" /\ w \in ToSet(listeners[l])
    BY <1>1, <2>1, <2>2 DEF WaitInv, CallListens, Listening
  <2>5. QED
    BY <1>4, <2>1, <2>3, <2>4
<1>11. CallIsAlive(w)'
  <2>1. SUFFICES ASSUME kind[w] = "call", news'[w].what = "event", news'[w].event # Ended, NEW l \in LegsOf(w)
                 PROVE  leg'[l] = "live"
    BY <1>2 DEF CallIsAlive, LegsOf
  <2>2. phase[w] = "waiting"
    BY <1>3, <1>6, <2>1
  <2>3. QED
    BY <1>1, <1>4, <2>1, <2>2 DEF WaitInv, CallListens
<1>12. Wanted(w)'
  <2>1. SUFFICES ASSUME news'[w].what = "event"
                 PROVE  Wants(w, news[w].event)' /\ news'[w].leg \in LegsOf(w)
    BY <1>2, <1>4 DEF Wanted, LegsOf
  <2>2. w \in ToSet(listeners[news'[w].leg]) /\ Wants(w, news'[w].event)
    BY <1>4, <2>1 DEF Takers
  <2>3. Wants(w, news[w].event)'
    BY <1>2, <2>2 DEF Wants
  <2>4. QED
    BY <1>1, <1>4, <2>1, <2>2, <2>3 DEF WaitInv, Listens, Listening
<1>13. HoldsLast(w)'
  BY TellsHoldsLast
<1>14. AnswersTyped(w)'
  <2>1. SUFFICES ASSUME kind[w] = "call", answer[w].out \in {"matched", "fallback"}
                 PROVE  /\ answer[w].leg \in Leg
                        /\ readers[answer[w].leg] \subseteq {w} /\ w \notin missed
                              => Occurs(answer[w].digits, typed'[answer[w].leg])
    BY <1>2 DEF AnswersTyped
  <2> DEFINE l == answer[w].leg
  <2>2. /\ l \in Leg /\ answer[w].digits \in Seq(Keys)
        /\ readers[l] \subseteq {w} /\ w \notin missed => Occurs(answer[w].digits, typed[l])
    BY <1>1, <2>1 DEF WaitInv, AnswersTyped, EvInv, EvTypes, Answers
  <2>. HIDE DEF l
  <2>3. typed[l] \in Seq(Keys) /\ (Still(l) \/ \E e \in Event : Passed(l, e))
    BY <2>2 DEF EvInv, EvTypes, Tells
  <2>4. typed'[l] = typed[l] \/ \E d \in Seq(Keys) : typed'[l] = typed[l] \o d
    BY <2>3, EventIs DEF Still, Passed
  <2>5. Occurs(answer[w].digits, typed[l]) => Occurs(answer[w].digits, typed'[l])
    BY <2>2, <2>3, <2>4, OccursMore
  <2>6. QED
    BY <2>2, <2>5 DEF l
<1>15. QED
  BY <1>7, <1>8, <1>9, <1>10, <1>11, <1>12, <1>13, <1>14 DEF WaitInv

LEMMA TellsKeep ==
    ASSUME EvInv, Settled, Tells, EvTypes'
    PROVE  EvInv'
BY TellsKeepsLegs, TellsKeepsWait DEF EvInv

\* The first who wants an event.
LEMMA TakerIs ==
    ASSUME EvTypes, NEW l \in Leg, NEW e, Takers(l, e) # {}
    PROVE  Taker(l, e) \in Takers(l, e) /\ Taker(l, e) \in Wait /\ Taker(l, e) \in ToSet(listeners[l])
<1> DEFINE K == {i \in DOMAIN listeners[l] : Wants(listeners[l][i], e)}
<1>1. listeners[l] \in Seq(Wait)
  BY DEF EvTypes
<1>2. K \in SUBSET Nat /\ K # {}
  BY <1>1 DEF Takers, ToSet
<1>3. Taker(l, e) = listeners[l][Min(K)]
  BY DEF Taker
<1>. HIDE DEF K
<1>4. Min(K) \in K
  BY <1>2, MinIsLeast
<1>5. Min(K) \in DOMAIN listeners[l] /\ Wants(listeners[l][Min(K)], e)
  BY <1>4 DEF K
<1>6. Taker(l, e) \in Wait /\ Taker(l, e) \in ToSet(listeners[l]) /\ Wants(Taker(l, e), e)
  BY <1>1, <1>3, <1>5 DEF ToSet
<1>7. QED
  BY <1>6 DEF Takers

LEMMA WakeIs ==
    ASSUME EvTypes, NEW W, NEW what, \A w \in W \cap Wait : what[w] \in News \ {NoNews}, Wake(W, what)
    PROVE  /\ phase' \in [Wait -> {"none", "waiting", "woken", "over"}] /\ news' \in [Wait -> News]
           /\ \A w \in Wait : IF w \in W /\ phase[w] = "waiting"
                              THEN phase'[w] = "woken" /\ news'[w] = what[w]
                              ELSE phase'[w] = phase[w] /\ news'[w] = news[w]
BY DEF EvTypes, Wake

\* Who listens or watches waits, once nobody is about to resume.
LEMMA ListenersWait ==
    ASSUME EvInv, Settled, NEW l \in Leg, NEW w \in Wait, Listening(w, l) \/ Watching(w, l)
    PROVE  /\ phase[w] = "waiting" /\ l \in LegsOf(w) /\ (Watching(w, l) => kind[w] = "media")
           /\ kind[w] \in {"call", "media", "dial", "agent"}
BY SettledIs DEF EvInv, EvTypes, WaitInv, Phases, Listens, Underway

\* An event on the legs of order.  Only one leg is told of a digit.
LEMMA PublishKeeps ==
    ASSUME EvInv, Settled, NEW order \in Seq(Leg), NEW e \in Event, Publish(order, e),
           IsDtmf(e) => Len(order) = 1,
           typed' = [l \in Leg |-> IF IsDtmf(e) /\ l \in ToSet(order) THEN typed[l] \o e.digits ELSE typed[l]],
           published' \in [dtmf : 0 .. MaxDtmf, interrupt : 0 .. MaxInterrupts],
           UNCHANGED <<leg, media, watchers, kind, frame, answer, readers, missed>>
    PROVE  EvInv'
<1> DEFINE S == {l \in ToSet(order) : Takers(l, e) # {}}
           told(w) == {i \in DOMAIN order : order[i] \in S /\ Taker(order[i], e) = w}
           first(w) == order[Min(told(w))]
           what == [w \in Wait |-> [what |-> "event", leg |-> first(w), event |-> e]]
           W == {Taker(l, e) : l \in S}
<1>1. /\ queue' = [l \in Leg |-> IF l \in ToSet(order) \ S THEN Push(queue[l], e) ELSE queue[l]]
      /\ listeners' = [l \in Leg |-> IF l \in S THEN Without(listeners[l], Taker(l, e)) ELSE listeners[l]]
      /\ Wake(W, what)
  BY DEF Publish
<1>2. /\ EvTypes /\ ToSet(order) \in SUBSET Leg /\ S \in SUBSET Leg
      /\ \A l \in Leg : Len(queue[l]) <= QueueLimit /\ IsInjective(listeners[l])
  BY DEF EvInv, LegInv, ToSet
<1>3. \A l \in S : /\ Taker(l, e) \in Takers(l, e) /\ Taker(l, e) \in Wait /\ Taker(l, e) \in ToSet(listeners[l])
                   /\ phase[Taker(l, e)] = "waiting" /\ l \in LegsOf(Taker(l, e))
  <2>1. SUFFICES ASSUME NEW l \in S
                 PROVE  /\ Taker(l, e) \in Takers(l, e) /\ Taker(l, e) \in Wait
                        /\ Taker(l, e) \in ToSet(listeners[l])
                        /\ phase[Taker(l, e)] = "waiting" /\ l \in LegsOf(Taker(l, e))
    OBVIOUS
  <2>2. l \in Leg /\ Takers(l, e) # {}
    BY <1>2
  <2>3. Taker(l, e) \in Takers(l, e) /\ Taker(l, e) \in Wait /\ Taker(l, e) \in ToSet(listeners[l])
    BY <1>2, <2>2, TakerIs
  <2>4. QED
    BY <2>2, <2>3, ListenersWait DEF Listening
<1>4. ASSUME NEW l \in S, NEW w \in Wait, Taker(l, e) = w
      PROVE  first(w) \in S /\ Taker(first(w), e) = w
  <2>1. told(w) \in SUBSET Nat /\ told(w) # {}
    BY <1>4 DEF ToSet
  <2>2. Min(told(w)) \in told(w)
    <3>. HIDE DEF told
    <3>1. QED
      BY <2>1, MinIsLeast
  <2>3. QED
    BY <2>2
<1>5. \A w \in W : w \in Wait /\ first(w) \in S /\ Taker(first(w), e) = w /\ phase[w] = "waiting"
  BY <1>3, <1>4
<1>. HIDE DEF first, told
<1>6. \A w \in W \cap Wait : what[w] \in News \ {NoNews}
  <2>1. SUFFICES ASSUME NEW w \in W
                 PROVE  [what |-> "event", leg |-> first(w), event |-> e] \in News \ {NoNews}
    BY <1>5
  <2>2. first(w) \in Leg
    BY <1>2, <1>5
  <2>3. [what |-> "event", leg |-> first(w), event |-> e] \in [what : {"event"}, leg : Leg, event : Event]
    BY <2>2
  <2>4. QED
    BY <2>3 DEF News, NoNews
<1>7. /\ phase' \in [Wait -> {"none", "waiting", "woken", "over"}] /\ news' \in [Wait -> News]
      /\ \A w \in Wait : IF w \in W /\ phase[w] = "waiting"
                         THEN phase'[w] = "woken" /\ news'[w] = what[w]
                         ELSE phase'[w] = phase[w] /\ news'[w] = news[w]
  <2>. HIDE DEF W, what
  <2>1. QED
    BY <1>1, <1>2, <1>6, WakeIs
<1>8. \A w \in Wait :
         \/ /\ w \in W /\ phase[w] = "waiting" /\ phase'[w] = "woken"
            /\ news'[w] \in News \ {NoNews}
            /\ news'[w].what = "event" /\ news'[w].leg = first(w) /\ news'[w].event = e
         \/ w \notin W /\ phase'[w] = phase[w] /\ news'[w] = NoNews /\ news'[w].what = "none"
  <2>1. \A w \in Wait : news[w] = NoNews /\ NoNews.what = "none"
    BY SettledIs DEF NoNews
  <2>2. \A w \in W : phase[w] = "waiting"
    BY <1>5
  <2>3. \A w \in Wait : what[w].what = "event" /\ what[w].leg = first(w) /\ what[w].event = e
    OBVIOUS
  <2>. HIDE DEF W, what
  <2>4. QED
    BY <1>6, <1>7, <2>1, <2>2, <2>3
<1>9. \A l \in Leg, v \in Wait : Handed(v, l)' => l \in S /\ v = Taker(l, e) /\ news'[v].event = e
  BY <1>5, <1>8 DEF Handed
<1>10. \A l \in Leg :
          /\ listeners'[l] \in Seq(Wait) /\ IsInjective(listeners'[l])
          /\ ToSet(listeners'[l]) = IF l \in S THEN ToSet(listeners[l]) \ {Taker(l, e)} ELSE ToSet(listeners[l])
  <2>1. SUFFICES ASSUME NEW l \in Leg
                 PROVE  /\ listeners'[l] \in Seq(Wait) /\ IsInjective(listeners'[l])
                        /\ ToSet(listeners'[l]) = IF l \in S THEN ToSet(listeners[l]) \ {Taker(l, e)}
                                                             ELSE ToSet(listeners[l])
    OBVIOUS
  <2>2. listeners[l] \in Seq(Wait) /\ IsInjective(listeners[l])
    BY <1>2 DEF EvTypes
  <2>3. listeners'[l] = IF l \in S THEN Without(listeners[l], Taker(l, e)) ELSE listeners[l]
    BY <1>1
  <2>4. \A w : /\ Without(listeners[l], w) \in Seq(Wait)
               /\ ToSet(Without(listeners[l], w)) = ToSet(listeners[l]) \ {w}
               /\ IsInjective(listeners[l]) => IsInjective(Without(listeners[l], w))
    BY <2>2, WithoutIs
  <2> DEFINE t == Taker(l, e)
  <2>5. listeners'[l] = IF l \in S THEN Without(listeners[l], t) ELSE listeners[l]
    BY <2>3
  <2>. HIDE DEF S, t
  <2>6. CASE l \in S
    <3>1. listeners'[l] = Without(listeners[l], t)
      BY <2>5, <2>6
    <3>2. ToSet(listeners'[l]) = ToSet(listeners[l]) \ {t}
      BY <2>4, <3>1
    <3>3. listeners'[l] \in Seq(Wait) /\ IsInjective(listeners'[l])
      BY <2>2, <2>4, <3>1
    <3>4. QED
      BY <2>6, <3>2, <3>3 DEF t
  <2>7. CASE l \notin S
    BY <2>2, <2>5, <2>7
  <2>8. QED
    BY <2>6, <2>7
<1>11. \A l \in Leg : Still(l) \/ Passed(l, e)
  <2>1. SUFFICES ASSUME NEW l \in Leg
                 PROVE  Still(l) \/ Passed(l, e)
    OBVIOUS
  <2>2. /\ queue'[l] = (IF l \in ToSet(order) \ S THEN Push(queue[l], e) ELSE queue[l])
        /\ typed'[l] = (IF IsDtmf(e) /\ l \in ToSet(order) THEN typed[l] \o e.digits ELSE typed[l])
    BY <1>1
  <2>3. CASE l \notin ToSet(order)
    BY <1>9, <2>2, <2>3 DEF Still
  <2>4. CASE l \in ToSet(order)
    <3>1. queue'[l] = IF Takers(l, e) = {} THEN Push(queue[l], e) ELSE queue[l]
      BY <2>2, <2>4
    <3>2. typed'[l] = IF IsDtmf(e) THEN typed[l] \o e.digits ELSE typed[l]
      BY <2>2, <2>4
    <3>3. ASSUME IsDtmf(e), Takers(l, e) # {}
          PROVE  \E v \in Wait : Handed(v, l)'
      <4>1. l \in S /\ Taker(l, e) \in W /\ Taker(l, e) \in Wait
        BY <1>3, <2>4, <3>3
      <4>2. /\ news'[Taker(l, e)].what = "event" /\ news'[Taker(l, e)].leg = first(Taker(l, e))
            /\ first(Taker(l, e)) \in S
        BY <1>5, <1>8, <4>1
      <4>3. \A m \in S : m = l
        BY <2>4, <3>3 DEF ToSet
      <4>4. QED
        BY <4>1, <4>2, <4>3 DEF Handed
    <3>4. QED
      BY <1>9, <3>1, <3>2, <3>3 DEF Passed
  <2>5. QED
    BY <2>3, <2>4
<1>12. ASSUME IsDtmf(e), NEW w \in W
       PROVE  \A v \in Wait \ {w} : phase'[v] # "woken"
  <2>1. \A l, m \in S : l = m
    BY <1>12 DEF ToSet
  <2>2. \A v \in W : v = w
    BY <2>1
  <2>3. QED
    BY <1>8, <2>2, SettledIs
<1>13. ASSUME NEW w \in Wait
       PROVE  /\ \/ phase'[w] = phase[w] /\ news'[w] = NoNews
                 \/ phase[w] = "waiting" /\ phase'[w] = "woken" /\ news'[w] \in News \ {NoNews}
              /\ news'[w].what = "event" =>
                    /\ news'[w].leg \in Leg /\ w \in Takers(news'[w].leg, news'[w].event)
                    /\ IsDtmf(news'[w].event) => \A v \in Wait \ {w} : phase'[v] # "woken"
                    /\ news'[w].event # Ended => leg' = leg
              /\ news'[w].what \in {"event", "leg_finalized"} =>
                    \E l \in Leg : w \in ToSet(listeners[l]) /\ w \notin ToSet(listeners'[l])
              /\ news'[w].what = "media" => kind[w] = "media"
              /\ phase'[w] = "waiting" =>
                    \A l \in Leg : /\ w \in ToSet(listeners[l]) => w \in ToSet(listeners'[l])
                                   /\ w \in ToSet(listeners[l]) /\ leg[l] = "live" => leg'[l] = "live"
  <2>1. CASE w \in W
    <3>1. /\ phase[w] = "waiting" /\ phase'[w] = "woken" /\ news'[w] \in News \ {NoNews}
          /\ news'[w].what = "event" /\ news'[w].leg = first(w) /\ news'[w].event = e
      BY <1>8, <2>1
    <3>2. first(w) \in S /\ first(w) \in Leg /\ Taker(first(w), e) = w
      BY <1>2, <1>5, <2>1
    <3>3. /\ w \in Takers(first(w), e) /\ w \in ToSet(listeners[first(w)])
          /\ w \notin ToSet(listeners'[first(w)])
      BY <1>3, <1>10, <3>2
    <3>4. IsDtmf(e) => \A v \in Wait \ {w} : phase'[v] # "woken"
      BY <1>12, <2>1
    <3>5. QED
      BY <3>1, <3>2, <3>3, <3>4
  <2>2. CASE w \notin W
    <3>1. phase'[w] = phase[w] /\ news'[w] = NoNews /\ news'[w].what = "none"
      BY <1>8, <2>2
    <3>2. \A l \in S : Taker(l, e) # w
      BY <2>2
    <3>3. \A l \in Leg : w \in ToSet(listeners[l]) => w \in ToSet(listeners'[l])
      BY <1>10, <3>2
    <3>4. QED
      BY <3>1, <3>3
  <2>3. QED
    BY <2>1, <2>2
<1>14. Tells
  <2>1. \A l \in Leg :
           /\ ToSet(listeners'[l]) \subseteq ToSet(listeners[l]) /\ IsInjective(listeners'[l])
           /\ ToSet(watchers'[l]) \subseteq ToSet(watchers[l])
           /\ Still(l) \/ \E x \in Event : Passed(l, x)
    BY <1>10, <1>11
  <2>. HIDE DEF S, W, what
  <2>2. QED
    BY <1>13, <2>1 DEF Tells
<1>15. EvTypes'
  <2>1. queue' \in [Leg -> Seq(Event)]
    <3>1. \A l \in Leg : Push(queue[l], e) \in Seq(Event)
      <4>1. \A l \in Leg : queue[l] \in Seq(Event) /\ Len(queue[l]) <= QueueLimit /\ typed[l] \in Seq(Keys)
        BY <1>2 DEF EvTypes
      <4>2. QED
        BY <4>1, PushKeeps
    <3>2. QED
      BY <1>1, <1>2, <3>1 DEF EvTypes
  <2>2. listeners' \in [Leg -> Seq(Wait)]
    BY <1>1, <1>10
  <2>3. typed' \in [Leg -> Seq(Keys)]
    <3>1. IsDtmf(e) => e.digits \in Seq(Keys)
      BY EventIs
    <3>2. QED
      BY <1>2, <3>1 DEF EvTypes
  <2>. HIDE DEF S, W, what
  <2>4. QED
    BY <1>2, <1>7, <2>1, <2>2, <2>3 DEF EvTypes
<1>16. QED
  BY <1>14, <1>15, TellsKeep

LEMMA PublishDtmfKeeps ==
    ASSUME EvInv, NEW l \in Leg, NEW ds \in Digits[l], PublishDtmf(l, ds)
    PROVE  EvInv'
<1> DEFINE e == [kind |-> "dtmf", digits |-> ds]
<1>1. /\ Settled /\ published.dtmf < MaxDtmf /\ published' = [published EXCEPT !.dtmf = @ + 1]
      /\ typed' = [typed EXCEPT ![l] = @ \o ds]
      /\ Publish(<<l>>, e)
      /\ UNCHANGED <<leg, media, watchers, kind, frame, answer, readers, missed>>
  BY DEF PublishDtmf
<1>2. e \in Event /\ IsDtmf(e) /\ e.digits = ds
  BY DEF Event, IsDtmf
<1>3. <<l>> \in Seq(Leg) /\ Len(<<l>>) = 1 /\ \A m \in Leg : m \in ToSet(<<l>>) <=> m = l
  BY DEF ToSet
<1>4. published' \in [dtmf : 0 .. MaxDtmf, interrupt : 0 .. MaxInterrupts]
  <2>1. published \in [dtmf : 0 .. MaxDtmf, interrupt : 0 .. MaxInterrupts]
    BY DEF EvInv, EvTypes
  <2>2. MaxDtmf \in Nat /\ MaxInterrupts \in Nat
    BY LegEventsAssumption DEF LegEventsAssumption
  <2>3. QED
    BY <1>1, <2>1, <2>2
<1>. HIDE DEF e
<1>5. typed' = [m \in Leg |-> IF IsDtmf(e) /\ m \in ToSet(<<l>>) THEN typed[m] \o e.digits ELSE typed[m]]
  <2>1. typed \in [Leg -> Seq(Keys)]
    BY DEF EvInv, EvTypes
  <2>2. QED
    BY <1>1, <1>2, <1>3, <2>1
<1>6. QED
  BY <1>1, <1>2, <1>3, <1>4, <1>5, PublishKeeps

LEMMA PublishInterruptKeeps ==
    ASSUME EvInv, NEW order \in Orders, PublishInterrupt(order)
    PROVE  EvInv'
<1> DEFINE e == [kind |-> "interrupt"]
<1>1. /\ Settled /\ published.interrupt < MaxInterrupts
      /\ published' = [published EXCEPT !.interrupt = @ + 1]
      /\ typed' = typed
      /\ Publish(order, e)
      /\ UNCHANGED <<leg, media, watchers, kind, frame, answer, readers, missed>>
  BY DEF PublishInterrupt
<1>2. e \in Event /\ ~IsDtmf(e)
  BY DEF Event, IsDtmf
<1>3. order \in Seq(Leg)
  BY LegEventsAssumption DEF LegEventsAssumption
<1>4. published' \in [dtmf : 0 .. MaxDtmf, interrupt : 0 .. MaxInterrupts]
  <2>1. published \in [dtmf : 0 .. MaxDtmf, interrupt : 0 .. MaxInterrupts]
    BY DEF EvInv, EvTypes
  <2>2. MaxDtmf \in Nat /\ MaxInterrupts \in Nat
    BY LegEventsAssumption DEF LegEventsAssumption
  <2>3. QED
    BY <1>1, <2>1, <2>2
<1>. HIDE DEF e
<1>5. typed' = [m \in Leg |-> IF IsDtmf(e) /\ m \in ToSet(order) THEN typed[m] \o e.digits ELSE typed[m]]
  <2>1. typed \in [Leg -> Seq(Keys)]
    BY DEF EvInv, EvTypes
  <2>2. QED
    BY <1>1, <1>2, <2>1
<1>6. QED
  BY <1>1, <1>2, <1>3, <1>4, <1>5, PublishKeeps

\* A leg goes that had ended: no call.wait listens there.
LEMMA LegGoesKeeps ==
    ASSUME EvInv, NEW l \in Leg, LegGoes(l)
    PROVE  EvInv'
<1>1. /\ Settled /\ leg[l] = "ended" /\ leg' = [leg EXCEPT ![l] = "gone"]
      /\ UNCHANGED <<queue, listeners, media, watchers, published, kind, phase, frame, news,
                     answer, typed, readers, missed>>
  BY DEF LegGoes
<1>2. EvTypes /\ EvTypes' /\ \A m \in Leg : IsInjective(listeners[m])
  BY <1>1 DEF EvInv, EvTypes, LegInv
<1>3. \A w \in Wait : news'[w] = NoNews /\ news'[w].what = "none" /\ \A m \in Leg : ~Handed(w, m)'
  BY <1>1, SettledIs DEF NoNews, Handed
<1>4. \A m \in Leg : leg[m] = "live" => leg'[m] = "live"
  BY <1>1, <1>2 DEF EvTypes
<1>5. \A m \in Leg : Still(m)
  BY <1>1, <1>3 DEF Still
<1>6. Tells
  BY <1>1, <1>2, <1>3, <1>4, <1>5 DEF Tells
<1>7. QED
  BY <1>1, <1>2, <1>6, TellsKeep

\* The end of a leg is for all who listen.
LEMMA EndLegKeeps ==
    ASSUME EvInv, NEW l \in Leg, EndLeg(l)
    PROVE  EvInv'
<1> DEFINE W == ToSet(listeners[l])
           one(w) == Takers(l, Ended) # {} /\ w = Taker(l, Ended)
           what == [w \in Wait |-> IF one(w) THEN [what |-> "event", leg |-> l, event |-> Ended]
                                             ELSE [what |-> "leg_finalized"]]
<1>1. /\ Settled /\ leg[l] = "live" /\ leg' = [leg EXCEPT ![l] = "ended"]
      /\ queue' = [queue EXCEPT ![l] = IF Takers(l, Ended) = {} THEN Push(@, Ended) ELSE @]
      /\ listeners' = [listeners EXCEPT ![l] = <<>>]
      /\ Wake(W, what)
      /\ UNCHANGED <<media, watchers, published, kind, frame, answer, typed, readers, missed>>
  BY DEF EndLeg
<1>2. /\ EvTypes /\ W \subseteq Wait /\ Ended \in Event /\ ~IsDtmf(Ended)
      /\ \A m \in Leg : Len(queue[m]) <= QueueLimit /\ IsInjective(listeners[m])
  <2>1. EvTypes /\ \A m \in Leg : Len(queue[m]) <= QueueLimit /\ IsInjective(listeners[m])
    BY DEF EvInv, LegInv
  <2>2. listeners[l] \in Seq(Wait)
    BY <2>1 DEF EvTypes
  <2>3. Ended \in Event /\ ~IsDtmf(Ended)
    BY DEF Event, Ended, IsDtmf
  <2>4. QED
    BY <2>1, <2>2, <2>3 DEF ToSet
<1>3. \A w \in W : phase[w] = "waiting"
  BY <1>1, <1>2, ListenersWait DEF Listening
<1>4. \A w \in Wait : /\ what[w] \in News \ {NoNews} /\ what[w].what \in {"event", "leg_finalized"}
                      /\ what[w].what = "event" => /\ what[w].leg = l /\ what[w].event = Ended
                                                   /\ w \in Takers(l, Ended)
  <2>1. /\ [what |-> "event", leg |-> l, event |-> Ended] \in News \ {NoNews}
        /\ [what |-> "leg_finalized"] \in News \ {NoNews}
    BY <1>2 DEF News, NoNews
  <2>2. \A w \in Wait : one(w) => w \in Takers(l, Ended)
    BY <1>2, TakerIs
  <2>3. QED
    BY <2>1, <2>2
<1>. HIDE DEF one, what
<1>5. /\ phase' \in [Wait -> {"none", "waiting", "woken", "over"}] /\ news' \in [Wait -> News]
      /\ \A w \in Wait : IF w \in W /\ phase[w] = "waiting"
                         THEN phase'[w] = "woken" /\ news'[w] = what[w]
                         ELSE phase'[w] = phase[w] /\ news'[w] = news[w]
  <2>. HIDE DEF W
  <2>1. QED
    BY <1>1, <1>2, <1>4, WakeIs
<1>6. \A w \in Wait :
         \/ /\ w \in W /\ phase[w] = "waiting" /\ phase'[w] = "woken"
            /\ news'[w] \in News \ {NoNews} /\ news'[w].what \in {"event", "leg_finalized"}
            /\ news'[w].what = "event" => /\ news'[w].leg = l /\ news'[w].event = Ended
                                          /\ w \in Takers(l, Ended)
         \/ w \notin W /\ phase'[w] = phase[w] /\ news'[w] = NoNews /\ news'[w].what = "none"
  <2>1. \A w \in Wait : news[w] = NoNews /\ NoNews.what = "none"
    BY <1>1, SettledIs DEF NoNews
  <2>2. QED
    BY <1>3, <1>4, <1>5, <2>1
<1>7. /\ \A m \in Leg : /\ ToSet(listeners'[m]) = IF m = l THEN {} ELSE ToSet(listeners[m])
                        /\ IsInjective(listeners'[m])
                        /\ leg'[m] = IF m = l THEN "ended" ELSE leg[m]
      /\ listeners' \in [Leg -> Seq(Wait)] /\ leg' \in [Leg -> {"live", "ended", "gone"}]
  <2> DEFINE none == <<>>
  <2>1. none \in Seq(Wait) /\ ToSet(none) = {} /\ IsInjective(none)
    BY DEF ToSet, IsInjective
  <2>2. listeners' = [listeners EXCEPT ![l] = none]
    BY <1>1
  <2>. HIDE DEF none, W
  <2>3. listeners \in [Leg -> Seq(Wait)] /\ leg \in [Leg -> {"live", "ended", "gone"}]
    BY <1>2 DEF EvTypes
  <2>4. leg' \in [Leg -> {"live", "ended", "gone"}] /\ \A m \in Leg : leg'[m] = IF m = l THEN "ended" ELSE leg[m]
    BY <1>1, <2>3
  <2>5. /\ listeners' \in [Leg -> Seq(Wait)]
        /\ \A m \in Leg : listeners'[m] = IF m = l THEN none ELSE listeners[m]
    BY <2>1, <2>2, <2>3
  <2>6. \A m \in Leg : IsInjective(listeners'[m])
    BY <1>2, <2>1, <2>5
  <2>7. \A m \in Leg : ToSet(listeners'[m]) = IF m = l THEN {} ELSE ToSet(listeners[m])
    BY <2>1, <2>5
  <2>8. QED
    BY <2>4, <2>5, <2>6, <2>7
<1>8. \A m \in Leg : Still(m) \/ Passed(m, Ended)
  <2>1. \A v \in Wait, m \in Leg : Handed(v, m)' => m = l /\ news'[v].event = Ended
    BY <1>6 DEF Handed
  <2>2. \A m \in Leg \ {l} : queue'[m] = queue[m]
    BY <1>1, <1>2 DEF EvTypes
  <2>3. queue'[l] = IF Takers(l, Ended) = {} THEN Push(queue[l], Ended) ELSE queue[l]
    BY <1>1, <1>2 DEF EvTypes
  <2>4. Passed(l, Ended)
    BY <1>1, <1>2, <2>1, <2>3 DEF Passed
  <2>5. \A m \in Leg \ {l} : Still(m)
    BY <1>1, <2>1, <2>2 DEF Still
  <2>6. QED
    BY <2>4, <2>5
<1>9. Tells
  <2>1. \A m \in Leg :
           /\ ToSet(listeners'[m]) \subseteq ToSet(listeners[m]) /\ IsInjective(listeners'[m])
           /\ ToSet(watchers'[m]) \subseteq ToSet(watchers[m])
           /\ Still(m) \/ \E x \in Event : Passed(m, x)
    BY <1>1, <1>2, <1>7, <1>8
  <2>2. \A w \in W : w \in ToSet(listeners[l]) /\ w \notin ToSet(listeners'[l])
    BY <1>7
  <2>3. \A w \in Wait : w \notin W =>
           \A m \in Leg : w \in ToSet(listeners[m]) => w \in ToSet(listeners'[m]) /\ m # l
    BY <1>7
  <2>. HIDE DEF W
  <2>4. QED
    BY <1>1, <1>2, <1>6, <1>7, <2>1, <2>2, <2>3 DEF Tells
<1>10. EvTypes'
  <2>1. queue' \in [Leg -> Seq(Event)]
    <3>1. Push(queue[l], Ended) \in Seq(Event)
      <4>1. queue[l] \in Seq(Event) /\ Len(queue[l]) <= QueueLimit /\ typed[l] \in Seq(Keys)
        BY <1>2 DEF EvTypes
      <4>2. QED
        BY <1>2, <4>1, PushKeeps
    <3>2. QED
      BY <1>1, <1>2, <3>1 DEF EvTypes
  <2>. HIDE DEF W
  <2>2. QED
    BY <1>1, <1>2, <1>5, <1>7, <2>1 DEF EvTypes
<1>11. QED
  BY <1>1, <1>9, <1>10, TellsKeep

\* The event of a medium is for a media.wait, and nobody listens less.
LEMMA MediaEndsKeeps ==
    ASSUME EvInv, NEW l \in Leg, MediaEnds(l)
    PROVE  EvInv'
<1> DEFINE W == IF watchers[l] = <<>> THEN {} ELSE {Head(watchers[l])}
           what == [w \in Wait |-> [what |-> "media"]]
<1>1. /\ Settled /\ media' = [media EXCEPT ![l] = "over"]
      /\ watchers' = [watchers EXCEPT ![l] = IF @ = <<>> THEN @ ELSE Tail(@)]
      /\ Wake(W, what)
      /\ missed' = missed \cup (ToSet(watchers[l]) \ {Head(watchers[l]) : i \in DOMAIN watchers[l]})
      /\ UNCHANGED <<leg, queue, listeners, published, kind, frame, answer, typed, readers>>
  BY DEF MediaEnds
<1>2. EvTypes /\ watchers[l] \in Seq(Wait) /\ \A m \in Leg : IsInjective(listeners[m])
  BY DEF EvInv, EvTypes, LegInv
<1>3. /\ W \subseteq Wait /\ ToSet(watchers[l]) \subseteq Wait
      /\ \A w \in W : w \in ToSet(watchers[l])
  BY <1>2 DEF ToSet
<1>4. \A w \in W : phase[w] = "waiting" /\ kind[w] = "media"
  BY <1>1, <1>3, ListenersWait DEF Watching
<1>5. \A w \in Wait : what[w] \in News \ {NoNews} /\ what[w].what = "media"
  BY DEF News, NoNews
<1>. HIDE DEF W, what
<1>6. /\ phase' \in [Wait -> {"none", "waiting", "woken", "over"}] /\ news' \in [Wait -> News]
      /\ \A w \in Wait : IF w \in W /\ phase[w] = "waiting"
                         THEN phase'[w] = "woken" /\ news'[w] = what[w]
                         ELSE phase'[w] = phase[w] /\ news'[w] = news[w]
  BY <1>1, <1>2, <1>5, WakeIs
<1>7. \A w \in Wait :
         /\ \/ phase'[w] = phase[w] /\ news'[w] = NoNews
            \/ phase[w] = "waiting" /\ phase'[w] = "woken" /\ news'[w] \in News \ {NoNews}
         /\ news'[w].what \in {"none", "media"}
         /\ news'[w].what = "media" => kind[w] = "media"
  <2>1. \A w \in Wait : news[w] = NoNews /\ NoNews.what = "none"
    BY <1>1, SettledIs DEF NoNews
  <2>2. QED
    BY <1>4, <1>5, <1>6, <2>1
<1>8. /\ watchers' \in [Leg -> Seq(Wait)]
      /\ \A m \in Leg : ToSet(watchers'[m]) \subseteq ToSet(watchers[m])
  <2>1. watchers[l] # <<>> => /\ Tail(watchers[l]) \in Seq(Wait)
                              /\ ToSet(Tail(watchers[l])) \subseteq ToSet(watchers[l])
    <3>1. SUFFICES ASSUME watchers[l] # <<>>
                   PROVE  /\ Tail(watchers[l]) \in Seq(Wait)
                          /\ \A i \in DOMAIN Tail(watchers[l]) :
                                i + 1 \in DOMAIN watchers[l] /\ Tail(watchers[l])[i] = watchers[l][i + 1]
      BY DEF ToSet
    <3>2. QED
      BY <1>2, <3>1
  <2>2. watchers \in [Leg -> Seq(Wait)]
    BY <1>2 DEF EvTypes
  <2>3. QED
    BY <1>1, <2>1, <2>2
<1>9. \A m \in Leg : Still(m)
  BY <1>1, <1>7 DEF Still, Handed
<1>10. Tells
  <2>1. missed \subseteq missed'
    BY <1>1
  <2>2. \A m \in Leg :
           /\ ToSet(listeners'[m]) \subseteq ToSet(listeners[m]) /\ IsInjective(listeners'[m])
           /\ ToSet(watchers'[m]) \subseteq ToSet(watchers[m])
           /\ Still(m) \/ \E x \in Event : Passed(m, x)
    BY <1>1, <1>2, <1>8, <1>9
  <2>3. QED
    BY <1>1, <1>7, <2>1, <2>2 DEF Tells
<1>11. EvTypes'
  <2>1. missed' \subseteq Wait
    BY <1>1, <1>2, <1>3 DEF EvTypes
  <2>2. QED
    BY <1>1, <1>2, <1>6, <1>8, <2>1 DEF EvTypes
<1>12. QED
  BY <1>1, <1>10, <1>11, TellsKeep

\* The invariant holds at the start, every step keeps it, and it implies
\* EventsSafe.
LEMMA EvStarts ==
    ASSUME EvInit
    PROVE  EvInv
<1> DEFINE none == <<>>
<1>1. /\ none \in Seq(Event) /\ none \in Seq(Wait) /\ none \in Seq(Keys) /\ ToSet(none) = {} /\ Len(none) = 0
      /\ IsInjective(none)
  BY DEF ToSet, IsInjective
<1>2. /\ leg = [l \in Leg |-> "live"] /\ queue = [l \in Leg |-> none] /\ listeners = [l \in Leg |-> none]
      /\ media = [l \in Leg |-> IF l \in Main THEN "playing" ELSE "over"] /\ watchers = [l \in Leg |-> none]
      /\ published = [dtmf |-> 0, interrupt |-> 0]
      /\ kind = [w \in Wait |-> "none"] /\ phase = [w \in Wait |-> "none"]
      /\ frame = [w \in Wait |-> NoFrame] /\ news = [w \in Wait |-> NoNews]
      /\ answer = [w \in Wait |-> Unanswered]
      /\ typed = [l \in Leg |-> none] /\ readers = [l \in Leg |-> {}]
      /\ missed = {}
  BY DEF EvInit
<1>3. Follows(none, <<>>, none)
  <2>1. \A i \in 1 .. Len(none) : ~IsDtmf(none[i])
    BY <1>1
  <2>. HIDE DEF none
  <2>2. QED
    BY <1>1, <2>1, NothingFollows
<1>. HIDE DEF none
<1>4. EvTypes
  <2>1. NoFrame \in Frames /\ NoNews \in News /\ Unanswered \in Answers
    BY FramesAre, UnansweredIs DEF News
  <2>2. published \in [dtmf : 0 .. MaxDtmf, interrupt : 0 .. MaxInterrupts]
    BY <1>2, LegEventsAssumption DEF LegEventsAssumption
  <2>3. QED
    BY <1>1, <1>2, <2>1, <2>2 DEF EvTypes
<1>5. ASSUME NEW l \in Leg
      PROVE  LegInv(l)
  <2>1. QueueLimit \in Nat
    BY LegEventsAssumption DEF LegEventsAssumption
  <2>2. QED
    BY <1>1, <1>2, <1>3, <2>1 DEF LegInv
<1>6. ASSUME NEW w \in Wait
      PROVE  WaitInv(w)
  <2>1. /\ kind[w] = "none" /\ phase[w] = "none" /\ frame[w] = NoFrame /\ news[w] = NoNews /\ ~Underway(w)
        /\ answer[w] = Unanswered /\ news[w].what = "none"
        /\ \A l \in Leg : ~Listening(w, l) /\ ~Watching(w, l) /\ w \notin readers[l]
    BY <1>1, <1>2 DEF Underway, NoNews, Listening, Watching
  <2>2. Phases(w) /\ Listens(w)
    BY <2>1 DEF Phases, Listens
  <2>3. Unheard(w) /\ CallListens(w) /\ CallIsAlive(w) /\ Wanted(w) /\ HoldsLast(w) /\ AnswersTyped(w)
    BY <2>1 DEF Unheard, CallListens, CallIsAlive, Wanted, HoldsLast, AnswersTyped
  <2>4. QED
    BY <2>2, <2>3 DEF WaitInv
<1>7. QED
  BY <1>4, <1>5, <1>6 DEF EvInv

LEMMA EvStutters ==
    ASSUME EvInv, UNCHANGED evVars
    PROVE  EvInv'
<1>1. /\ leg' = leg /\ queue' = queue /\ listeners' = listeners /\ media' = media /\ watchers' = watchers
      /\ published' = published /\ kind' = kind /\ phase' = phase /\ frame' = frame /\ news' = news
      /\ answer' = answer /\ typed' = typed /\ readers' = readers /\ missed' = missed
  BY DEF evVars
<1>2. EvTypes'
  BY <1>1 DEF EvInv, EvTypes
<1>3. \A l \in Leg : LegInv(l)' <=> LegInv(l)
  BY <1>1 DEF LegInv, Reads, Handed
<1>4. ASSUME NEW w \in Wait
      PROVE  WaitInv(w)' <=> WaitInv(w)
  <2>1. (Phases(w)' <=> Phases(w)) /\ (Listens(w)' <=> Listens(w)) /\ (Unheard(w)' <=> Unheard(w))
    BY <1>1 DEF Phases, Listens, Unheard, Listening, Watching, Underway, LegsOf
  <2>2. (CallListens(w)' <=> CallListens(w)) /\ (CallIsAlive(w)' <=> CallIsAlive(w))
    BY <1>1 DEF CallListens, CallIsAlive, Listening, LegsOf
  <2>3. Wanted(w)' <=> Wanted(w)
    BY <1>1 DEF Wanted, Wants, LegsOf
  <2>4. HoldsLast(w)' <=> HoldsLast(w)
    BY <1>1 DEF HoldsLast, Underway, LegsOf, Reads, Handed, Due
  <2>5. AnswersTyped(w)' <=> AnswersTyped(w)
    BY <1>1 DEF AnswersTyped
  <2>6. QED
    BY <2>1, <2>2, <2>3, <2>4, <2>5 DEF WaitInv
<1>5. QED
  BY <1>2, <1>3, <1>4 DEF EvInv

LEMMA EvSteps ==
    ASSUME EvInv, [EvNext]_evVars
    PROVE  EvInv'
<1>1. CASE UNCHANGED evVars
  BY <1>1, EvStutters
<1>2. ASSUME NEW l \in Leg,
             (\E ds \in Digits[l] : PublishDtmf(l, ds)) \/ EndLeg(l) \/ MediaEnds(l) \/ LegGoes(l)
      PROVE  EvInv'
  BY <1>2, PublishDtmfKeeps, EndLegKeeps, MediaEndsKeeps, LegGoesKeeps
<1>3. ASSUME NEW order \in Orders, PublishInterrupt(order)
      PROVE  EvInv'
  BY <1>3, PublishInterruptKeeps
<1>4. ASSUME NEW w \in Wait, Asks(w)
      PROVE  EvInv'
  <2>1. Options.media = MediaOptions
    BY DEF Options
  <2> DEFINE all == [onDtmf : BOOLEAN]
  <2>2. Options.dial = all
    <3>1. Options = [call |-> CallOptions, media |-> MediaOptions, dial |-> all, agent |-> {<<>>}]
      BY DEF Options
    <3>. HIDE DEF all
    <3>2. QED
      BY <3>1
  <2>3. CASE \E order \in Orders, o \in CallOptions : CallWait(w, order, o)
    BY <2>3, CallWaitKeeps
  <2>4. CASE \E l \in Main, o \in Options.media : MediaWait(w, l, o)
    BY <2>1, <2>4, MediaWaitKeeps
  <2>5. CASE \E l \in Main, o \in Options.dial : DialWait(w, l, o)
    BY <2>2, <2>5, DialWaitKeeps
  <2>6. CASE \E l \in Main : AgentWait(w, l)
    BY <2>6, AgentWaitKeeps
  <2>7. QED
    BY <1>4, <2>3, <2>4, <2>5, <2>6 DEF Asks
<1>5. ASSUME NEW w \in Wait, Resumes(w)
      PROVE  EvInv'
  BY <1>5, CallResumesKeeps, CallRejectedKeeps, MediaDrainsKeeps, MediaResumesKeeps, DialInterruptedKeeps,
     DialDrainsKeeps, DialDeafKeeps, AgentResumesKeeps DEF Resumes
<1>6. ASSUME NEW w \in Wait, TimesOut(w)
      PROVE  EvInv'
  BY <1>6, CallTimesOutKeeps, MediaTimesOutKeeps, DialAnswersKeeps DEF TimesOut
<1>7. ASSUME NEW w \in Wait, Cancel(w)
      PROVE  EvInv'
  BY <1>7, CancelKeeps
<1>8. QED
  BY <1>1, <1>2, <1>3, <1>4, <1>5, <1>6, <1>7 DEF EvNext

LEMMA EvInvIsSafe ==
    ASSUME EvInv
    PROVE  EventsSafe
<1>1. EvTypes /\ (\A l \in Leg : LegInv(l)) /\ \A w \in Wait : WaitInv(w)
  BY DEF EvInv
<1>2. EvTypeOK
  <2>1. /\ leg \in [Leg -> {"live", "ended", "gone"}]
        /\ \A l \in Leg : queue[l] \in Seq(Event) /\ Len(queue[l]) <= QueueLimit
        /\ \A l \in Leg : listeners[l] \in Seq(Wait) /\ watchers[l] \in Seq(Wait)
        /\ media \in [Leg -> {"playing", "over"}]
        /\ published \in [dtmf : 0 .. MaxDtmf, interrupt : 0 .. MaxInterrupts]
        /\ missed \subseteq Wait
    BY <1>1 DEF EvTypes, LegInv
  <2>2. ASSUME NEW w \in Wait
        PROVE  /\ kind[w] \in {"none", "call", "media", "dial", "agent"}
               /\ phase[w] \in {"none", "waiting", "woken", "over"}
               /\ frame[w] = NoFrame <=> phase[w] \in {"none", "over"}
               /\ frame[w] # NoFrame =>
                     /\ frame[w].legs \in Seq(Leg) \ {<<>>}
                     /\ frame[w].opts \in Options[kind[w]]
               /\ phase[w] = "woken" <=> news[w] # NoNews
               /\ phase[w] = "over" => answer[w] # Unanswered
               /\ answer[w].out \in Outs
    <3>1. /\ kind[w] \in {"none", "call", "media", "dial", "agent"}
          /\ phase[w] \in {"none", "waiting", "woken", "over"}
          /\ frame[w].legs \in Seq(Leg) /\ answer[w].out \in Outs
      BY <1>1 DEF EvTypes, Frames, Answers
    <3>2. Phases(w)
      BY <1>1 DEF WaitInv
    <3>3. QED
      BY <3>1, <3>2 DEF Phases, Underway
  <2>3. QED
    BY <2>1, <2>2 DEF EvTypeOK, Outs
<1>3. OnlyWaitsListen
  <2>1. ASSUME NEW l \in Leg, NEW w \in ToSet(listeners[l]) \cup ToSet(watchers[l])
        PROVE  /\ phase[w] \in {"waiting", "woken"} /\ l \in ToSet(frame[w].legs)
               /\ answer[w] # Unanswered => kind[w] = "media" /\ answer[w].out = "cancelled"
               /\ \A i, j \in DOMAIN listeners[l] : i # j => listeners[l][i] # listeners[l][j]
    <3>1. w \in Wait
      BY <1>1 DEF EvTypes, ToSet
    <3>2. WaitInv(w) /\ (Listening(w, l) \/ Watching(w, l)) /\ IsInjective(listeners[l])
      BY <1>1, <3>1 DEF LegInv, Listening, Watching
    <3>3. Underway(w) /\ l \in LegsOf(w)
      BY <3>2 DEF WaitInv, Listens
    <3>4. answer[w] # Unanswered => kind[w] = "media" /\ answer[w].out = "cancelled"
      BY <3>2, <3>3 DEF WaitInv, Phases
    <3>5. QED
      BY <3>2, <3>3, <3>4 DEF Underway, LegsOf, IsInjective
  <2>2. QED
    BY <2>1 DEF OnlyWaitsListen
<1>4. EndIsHeard
  BY <1>1 DEF EndIsHeard, WaitInv, CallListens, LegsOf
<1>5. AnswerWasTyped
  <2>1. ASSUME NEW w \in Wait, kind[w] = "call", answer[w].out \in {"matched", "fallback"},
               readers[answer[w].leg] \subseteq {w}, w \notin missed
        PROVE  \E i \in 1 .. Len(typed[answer[w].leg]) :
                  IsPrefix(answer[w].digits,
                           SubSeq(typed[answer[w].leg], i, Len(typed[answer[w].leg])))
    <3>1. /\ answer[w].leg \in Leg /\ answer[w].digits \in Seq(Keys)
          /\ Occurs(answer[w].digits, typed[answer[w].leg])
      BY <1>1, <2>1 DEF WaitInv, AnswersTyped, EvTypes, Answers
    <3>2. typed[answer[w].leg] \in Seq(Keys)
      BY <1>1, <3>1 DEF EvTypes
    <3>3. QED
      BY <3>1, <3>2, OccursIsRun
  <2>2. QED
    BY <2>1 DEF AnswerWasTyped
<1>6. QED
  BY <1>2, <1>3, <1>4, <1>5 DEF EventsSafe

\* LegEvents, for all its constants: who does not wait any more is no listener
\* of any leg, a call.wait never waits on a leg that ended, and the digits it
\* reports were pressed one after the other.
THEOREM EventsAreSafe == EvSpec => []EventsSafe
<1>1. EvInit => EvInv
  BY EvStarts
<1>2. EvInv /\ [EvNext]_evVars => EvInv'
  BY EvSteps
<1>3. EvInv => EventsSafe
  BY EvInvIsSafe
<1>4. QED
  BY <1>1, <1>2, <1>3, PTL DEF EvSpec
=============================================================================
