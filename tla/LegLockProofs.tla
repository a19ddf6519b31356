--------------------------- MODULE LegLockProofs ---------------------------
(***************************************************************************)
(* The leg locks exclude and never wait in a circle, for any number of     *)
(* legs and any set of tasks.                                              *)
(*                                                                         *)
(* Sections are exclusive because a lock has one holder and a running task *)
(* holds all it wants; for that to survive a release, the waiter that gets *)
(* the lock must be one that still asks for it (Lines), and must not       *)
(* stand in any other line.                                                *)
(*                                                                         *)
(* Bridging: for any number of legs, of pairs and of runs, what the daemon *)
(* remembers of the bridges agrees with what the workers relay.            *)
(*                                                                         *)
(* LegPlayback: for any number of playbacks and of frames of a bridge, a   *)
(* frame is queued or sent as long as its promise is open and never both   *)
(* (FramesApart, PromiseInv); the loop of a leg runs while its callback    *)
(* awaits a send, so that the end of the callback decides whether it does  *)
(* after (LoopInv, LoopEnds).                                              *)
(***************************************************************************)
EXTENDS LegLocks, Bridging, WellFoundedInduction, LegPlayback, TLAPS

In(s, t) == \E i \in 1..Len(s) : s[i] = t
NoDups(s) == \A i, j \in 1..Len(s) : s[i] = s[j] => i = j

\* Who stands in the line of a lock asks for that lock and has not got it.
Lines ==
    \A l \in Leg :
        /\ NoDups(waiters[l])
        /\ \A t \in Task : In(waiters[l], t) => /\ pc[t] = "waiting" /\ at[t] = l
                                                /\ holder[l] # t

\* A lock is held by a task that wants it and has asked for it.
HoldersWant ==
    \A l \in Leg : \A t \in Task :
        holder[l] = t => /\ l \in want[t]
                         /\ pc[t] = "inside" \/ (pc[t] = "waiting" /\ l <= at[t])

\* A waiting task has every lock before the one it waits for, and is in line
\* for that one unless it has been given it.
Waits ==
    \A t \in Task : pc[t] = "waiting" =>
        /\ at[t] \in want[t]
        /\ \A l \in want[t] : l < at[t] => holder[l] = t
        /\ holder[at[t]] = t \/ In(waiters[at[t]], t)

\* A task in its section has all its locks.
HasAll ==
    \A t \in Task : pc[t] = "inside" => want[t] # {} /\ \A l \in want[t] : holder[l] = t

Out == \A t \in Task : pc[t] = "out" => want[t] = {}

IInv == TypeOK /\ Lines /\ HoldersWant /\ Waits /\ HasAll /\ Out

-----------------------------------------------------------------------------
(* Lemmas about lines and numbers.                                         *)

\* waiters.push(): the line grows by one at its end.
LEMMA InAppend ==
    ASSUME NEW T, NEW s \in Seq(T), NEW e \in T, NEW t
    PROVE  /\ Append(s, e) \in Seq(T)
           /\ In(Append(s, e), t) <=> In(s, t) \/ t = e
           /\ NoDups(s) /\ ~In(s, e) => NoDups(Append(s, e))
<1>1. /\ Append(s, e) \in Seq(T)
      /\ Len(Append(s, e)) = Len(s) + 1
      /\ \A i \in 1..Len(s) : Append(s, e)[i] = s[i]
      /\ Append(s, e)[Len(s) + 1] = e
      /\ Len(s) \in Nat
  OBVIOUS
<1>2. In(Append(s, e), t) => In(s, t) \/ t = e
  <2>1. ASSUME NEW i \in 1..Len(Append(s, e)), Append(s, e)[i] = t
        PROVE  In(s, t) \/ t = e
    <3>1. i \in 1..Len(s) \/ i = Len(s) + 1
      BY <1>1
    <3>2. QED
      BY <2>1, <3>1, <1>1 DEF In
  <2>2. QED
    BY <2>1 DEF In
<1>3. In(s, t) \/ t = e => In(Append(s, e), t)
  <2>1. ASSUME NEW i \in 1..Len(s), s[i] = t
        PROVE  In(Append(s, e), t)
    <3>1. i \in 1..Len(Append(s, e)) /\ Append(s, e)[i] = t
      BY <2>1, <1>1
    <3>2. QED
      BY <3>1 DEF In
  <2>2. t = e => In(Append(s, e), t)
    <3>1. Len(s) + 1 \in 1..Len(Append(s, e))
      BY <1>1
    <3>2. QED
      BY <3>1, <1>1 DEF In
  <2>3. QED
    BY <2>1, <2>2 DEF In
<1>4. NoDups(s) /\ ~In(s, e) => NoDups(Append(s, e))
  <2>1. SUFFICES ASSUME NoDups(s), ~In(s, e),
                        NEW i \in 1..Len(Append(s, e)), NEW j \in 1..Len(Append(s, e)),
                        Append(s, e)[i] = Append(s, e)[j]
                 PROVE  i = j
    BY DEF NoDups
  <2>2. /\ i \in 1..Len(s) \/ i = Len(s) + 1
        /\ j \in 1..Len(s) \/ j = Len(s) + 1
    BY <1>1
  <2>3. QED
    BY <2>1, <2>2, <1>1 DEF In, NoDups
<1>5. QED
  BY <1>1, <1>2, <1>3, <1>4

\* waiters.shift(): the first of the line leaves it, the others stay.
LEMMA InTail ==
    ASSUME NEW T, NEW s \in Seq(T), s # <<>>, NEW t
    PROVE  /\ Head(s) \in T /\ Tail(s) \in Seq(T)
           /\ In(s, Head(s))
           /\ In(s, t) <=> t = Head(s) \/ In(Tail(s), t)
           /\ NoDups(s) => NoDups(Tail(s)) /\ ~In(Tail(s), Head(s))
<1>1. /\ Head(s) \in T /\ Tail(s) \in Seq(T)
      /\ Len(s) \in Nat /\ Len(s) # 0
      /\ Head(s) = s[1] /\ Len(Tail(s)) = Len(s) - 1
      /\ \A i \in 1..Len(Tail(s)) : Tail(s)[i] = s[i + 1]
  OBVIOUS
<1>2. In(s, Head(s))
  <2>1. 1 \in 1..Len(s)
    BY <1>1
  <2>2. QED
    BY <2>1, <1>1 DEF In
<1>3. In(s, t) => t = Head(s) \/ In(Tail(s), t)
  <2>1. ASSUME NEW i \in 1..Len(s), s[i] = t, t # Head(s)
        PROVE  In(Tail(s), t)
    <3>1. i - 1 \in 1..Len(Tail(s)) /\ Tail(s)[i - 1] = s[i]
      BY <2>1, <1>1
    <3>2. QED
      BY <3>1, <2>1 DEF In
  <2>2. QED
    BY <2>1 DEF In
<1>4. In(Tail(s), t) => In(s, t)
  <2>1. ASSUME NEW i \in 1..Len(Tail(s)), Tail(s)[i] = t
        PROVE  In(s, t)
    <3>1. i + 1 \in 1..Len(s) /\ s[i + 1] = t
      BY <2>1, <1>1
    <3>2. QED
      BY <3>1 DEF In
  <2>2. QED
    BY <2>1 DEF In
<1>5. ASSUME NoDups(s) PROVE NoDups(Tail(s)) /\ ~In(Tail(s), Head(s))
  <2>1. ASSUME NEW i \in 1..Len(Tail(s)), NEW j \in 1..Len(Tail(s)),
               Tail(s)[i] = Tail(s)[j]
        PROVE  i = j
    <3>1. /\ i + 1 \in 1..Len(s) /\ j + 1 \in 1..Len(s)
          /\ s[i + 1] = s[j + 1]
      BY <2>1, <1>1
    <3>2. i + 1 = j + 1
      BY <3>1, <1>5 DEF NoDups
    <3>3. QED
      BY <3>2, <1>1
  <2>2. ASSUME NEW i \in 1..Len(Tail(s)), Tail(s)[i] = Head(s)
        PROVE  FALSE
    <3>1. i + 1 \in 1..Len(s) /\ 1 \in 1..Len(s) /\ s[i + 1] = s[1] /\ i + 1 # 1
      BY <2>2, <1>1
    <3>2. QED
      BY <3>1, <1>5 DEF NoDups
  <2>3. QED
    BY <2>1, <2>2 DEF NoDups, In
<1>6. QED
  BY <1>1, <1>2, <1>3, <1>4, <1>5

\* Any non-empty set of legs has a largest element.
LEMMA LargestLeg ==
    ASSUME NumLegs \in Nat, NEW S \in SUBSET Leg, S # {}
    PROVE  \E m \in S : \A l \in S : l <= m
<1> DEFINE D == {NumLegs - l : l \in S}
<1>1. D \subseteq Nat /\ D # {}
  BY DEF Leg
<1>2. PICK d \in D : \A e \in D : ~(<<e, d>> \in OpToRel(<, Nat))
  <2>1. IsWellFoundedOn(OpToRel(<, Nat), Nat)
    BY NatLessThanWellFounded
  <2>2. QED
    BY <1>1, <2>1, WFMin
<1>3. ASSUME NEW e \in D PROVE d <= e
  <2>1. ASSUME e < d PROVE FALSE
    <3>1. <<e, d>> \in Nat \X Nat
      BY <1>1
    <3>2. <<e, d>> \in OpToRel(<, Nat)
      BY <3>1, <2>1 DEF OpToRel
    <3>3. QED
      BY <3>2, <1>2
  <2>2. QED
    BY <2>1, <1>1
<1>4. PICK m \in S : d = NumLegs - m
  OBVIOUS
<1>5. ASSUME NEW l \in S PROVE l <= m
  <2>1. NumLegs - m <= NumLegs - l
    BY <1>3, <1>4
  <2>2. QED
    BY <2>1 DEF Leg
<1>6. QED
  BY <1>5

-----------------------------------------------------------------------------
(* What the two operations of a lock do to holders and lines.              *)

\* acquire() by a task that is in no line gives it a free lock, or the last
\* place in the line of a taken one.
LEMMA AcquireLemma ==
    ASSUME LockAssumption, TypeOK, NEW t \in Task, NEW l \in Leg, Acquire(t, l),
           \A m \in Leg : NoDups(waiters[m]) /\ ~In(waiters[m], t)
    PROVE  /\ holder' \in [Leg -> Task \cup {None}]
           /\ waiters' \in [Leg -> Seq(Task)]
           /\ at' \in [Task -> Leg \cup {0}]
           /\ at'[t] = l /\ \A u \in Task \ {t} : at'[u] = at[u]
           /\ \A m \in Leg : holder'[m] = None => waiters'[m] = <<>>
           /\ \A m \in Leg : holder'[m] # holder[m] => m = l /\ holder[m] = None /\ holder'[m] = t
           /\ \A m \in Leg : NoDups(waiters'[m])
           /\ \A m \in Leg : \A u \in Task :
                 In(waiters'[m], u) <=> In(waiters[m], u) \/ (m = l /\ u = t /\ holder[l] # None)
           /\ holder[l] = None => holder'[l] = t
<1>1. t # None /\ at' = [at EXCEPT ![t] = l]
  BY DEF LockAssumption, Acquire
<1>2. CASE holder[l] = None
  <2>1. holder' = [holder EXCEPT ![l] = t] /\ waiters' = waiters
    BY <1>2 DEF Acquire
  <2>2. QED
    BY <1>1, <1>2, <2>1 DEF TypeOK
<1>3. CASE holder[l] # None
  <2>1. holder' = holder /\ waiters' = [waiters EXCEPT ![l] = Append(waiters[l], t)]
    BY <1>3 DEF Acquire
  <2>2. waiters[l] \in Seq(Task)
    BY DEF TypeOK
  <2>3. /\ Append(waiters[l], t) \in Seq(Task)
        /\ NoDups(Append(waiters[l], t))
        /\ \A u \in Task : In(Append(waiters[l], t), u) <=> In(waiters[l], u) \/ u = t
    BY <2>2, InAppend
  <2>4. \A m \in Leg : waiters'[m] = IF m = l THEN Append(waiters[l], t) ELSE waiters[m]
    BY <2>1 DEF TypeOK
  <2>5. waiters' \in [Leg -> Seq(Task)] /\ holder' \in [Leg -> Task \cup {None}]
    BY <2>1, <2>3 DEF TypeOK
  <2>6. at' \in [Task -> Leg \cup {0}] /\ at'[t] = l /\ \A u \in Task \ {t} : at'[u] = at[u]
    BY <1>1 DEF TypeOK
  <2>7. \A m \in Leg : holder'[m] = None => waiters'[m] = <<>>
    BY <1>3, <2>1, <2>4 DEF TypeOK
  <2>8. \A m \in Leg : NoDups(waiters'[m])
    BY <2>3, <2>4
  <2>9. \A m \in Leg : \A u \in Task :
          In(waiters'[m], u) <=> In(waiters[m], u) \/ (m = l /\ u = t /\ holder[l] # None)
    BY <1>3, <2>3, <2>4
  <2>10. QED
    BY <1>3, <2>1, <2>5, <2>6, <2>7, <2>8, <2>9
<1>4. QED
  BY <1>2, <1>3

\* release() gives a lock to the first in line, who leaves the line.
LEMMA ReleaseLemma ==
    ASSUME LockAssumption, TypeOK, NEW S \in SUBSET Leg, Release(S),
           \A m \in Leg : NoDups(waiters[m])
    PROVE  /\ holder' \in [Leg -> Task \cup {None}]
           /\ waiters' \in [Leg -> Seq(Task)]
           /\ \A m \in Leg : holder'[m] = None => waiters'[m] = <<>>
           /\ \A m \in Leg \ S : holder'[m] = holder[m] /\ waiters'[m] = waiters[m]
           /\ \A m \in Leg : NoDups(waiters'[m])
           /\ \A m \in S : \A u \in Task :
                 /\ holder'[m] = u => In(waiters[m], u) /\ ~In(waiters'[m], u)
                 /\ In(waiters'[m], u) => In(waiters[m], u)
                 /\ In(waiters[m], u) => holder'[m] = u \/ In(waiters'[m], u)
<1>1. ASSUME NEW m \in Leg \ S
      PROVE  holder'[m] = holder[m] /\ waiters'[m] = waiters[m]
  BY <1>1 DEF Release
<1>2. ASSUME NEW m \in S, waiters[m] = <<>>
      PROVE  holder'[m] = None /\ waiters'[m] = <<>>
  BY <1>2 DEF Release
<1>3. ASSUME NEW m \in S, waiters[m] # <<>>
      PROVE  holder'[m] = Head(waiters[m]) /\ waiters'[m] = Tail(waiters[m])
  BY <1>3 DEF Release
<1>4. ASSUME NEW m \in S, waiters[m] # <<>>, NEW u
      PROVE  /\ Head(waiters[m]) \in Task /\ Tail(waiters[m]) \in Seq(Task)
             /\ In(waiters[m], Head(waiters[m]))
             /\ In(waiters[m], u) <=> u = Head(waiters[m]) \/ In(Tail(waiters[m]), u)
             /\ NoDups(Tail(waiters[m])) /\ ~In(Tail(waiters[m]), Head(waiters[m]))
  <2>1. waiters[m] \in Seq(Task) /\ NoDups(waiters[m])
    BY DEF TypeOK
  <2>2. QED
    BY <1>4, <2>1, InTail
<1>5. ASSUME NEW u \in Task PROVE ~In(<<>>, u)
  BY DEF In
<1>6. NoDups(<<>>) /\ <<>> \in Seq(Task)
  BY DEF NoDups
<1>7. ASSUME NEW m \in S
      PROVE  /\ holder'[m] \in Task \cup {None} /\ waiters'[m] \in Seq(Task)
             /\ holder'[m] = None => waiters'[m] = <<>>
             /\ NoDups(waiters'[m])
  <2>1. CASE waiters[m] = <<>>
    BY <2>1, <1>2, <1>6
  <2>2. CASE waiters[m] # <<>>
    <3>1. /\ Head(waiters[m]) \in Task /\ Tail(waiters[m]) \in Seq(Task)
          /\ NoDups(Tail(waiters[m]))
      BY <2>2, <1>4
    <3>2. QED
      BY <2>2, <3>1, <1>3 DEF LockAssumption
  <2>3. QED
    BY <2>1, <2>2
<1>8. ASSUME NEW m \in S, NEW u \in Task
      PROVE  /\ holder'[m] = u => In(waiters[m], u) /\ ~In(waiters'[m], u)
             /\ In(waiters'[m], u) => In(waiters[m], u)
             /\ In(waiters[m], u) => holder'[m] = u \/ In(waiters'[m], u)
  <2>1. CASE waiters[m] = <<>>
    BY <2>1, <1>2, <1>5 DEF LockAssumption
  <2>2. CASE waiters[m] # <<>>
    BY <2>2, <1>3, <1>4
  <2>3. QED
    BY <2>1, <2>2
<1>9. holder' \in [Leg -> Task \cup {None}] /\ waiters' \in [Leg -> Seq(Task)]
  <2>1. /\ holder' = [m \in Leg |-> holder'[m]]
        /\ waiters' = [m \in Leg |-> waiters'[m]]
    BY DEF Release
  <2>2. \A m \in Leg : holder'[m] \in Task \cup {None} /\ waiters'[m] \in Seq(Task)
    BY <1>1, <1>7 DEF TypeOK
  <2>3. QED
    BY <2>1, <2>2
<1>10. QED
  BY <1>1, <1>7, <1>8, <1>9 DEF TypeOK

-----------------------------------------------------------------------------
(* Every action preserves the invariant.                                   *)

LEMMA InitHolds == ASSUME LockAssumption, Init PROVE IInv
<1>1. TypeOK
  <2>1. <<>> \in Seq(Task)
    OBVIOUS
  <2>2. QED
    BY <2>1 DEF Init, TypeOK
<1>2. Lines
  BY DEF Init, Lines, In, NoDups
<1>3. HoldersWant
  BY DEF Init, HoldersWant, LockAssumption
<1>4. Waits /\ HasAll /\ Out
  BY DEF Init, Waits, HasAll, Out
<1>5. QED
  BY <1>1, <1>2, <1>3, <1>4 DEF IInv

\* A task outside its sections neither holds nor waits, so it may ask.
LEMMA AskKeeps ==
    ASSUME LockAssumption, IInv, NEW t \in Task, NEW S \in SUBSET Leg, Ask(t, S)
    PROVE  IInv'
<1>0. TypeOK /\ Lines /\ HoldersWant /\ Waits /\ HasAll /\ Out
  BY DEF IInv
<1>1. PICK l \in S : First(l, S) /\ Acquire(t, l)
  BY DEF Ask
<1>2. /\ pc[t] = "out" /\ pc' = [pc EXCEPT ![t] = "waiting"]
      /\ want' = [want EXCEPT ![t] = S]
      /\ l \in Leg
  BY DEF Ask
<1>3. \A m \in Leg : NoDups(waiters[m]) /\ ~In(waiters[m], t) /\ holder[m] # t
  BY <1>0, <1>2 DEF Lines, HoldersWant
<1>4. /\ holder' \in [Leg -> Task \cup {None}]
      /\ waiters' \in [Leg -> Seq(Task)]
      /\ at' \in [Task -> Leg \cup {0}]
      /\ at'[t] = l /\ \A u \in Task \ {t} : at'[u] = at[u]
      /\ \A m \in Leg : holder'[m] = None => waiters'[m] = <<>>
      /\ \A m \in Leg : holder'[m] # holder[m] => m = l /\ holder[m] = None /\ holder'[m] = t
      /\ \A m \in Leg : NoDups(waiters'[m])
      /\ \A m \in Leg : \A u \in Task :
            In(waiters'[m], u) <=> In(waiters[m], u) \/ (m = l /\ u = t /\ holder[l] # None)
      /\ holder[l] = None => holder'[l] = t
  BY <1>0, <1>1, <1>2, <1>3, AcquireLemma
<1>5. /\ pc'[t] = "waiting" /\ want'[t] = S
      /\ \A u \in Task \ {t} : pc'[u] = pc[u] /\ want'[u] = want[u]
  BY <1>0, <1>2 DEF TypeOK
<1>6. TypeOK'
  BY <1>0, <1>2, <1>4 DEF TypeOK
<1>7. Lines'
  <2>1. ASSUME NEW m \in Leg, NEW u \in Task, In(waiters'[m], u)
        PROVE  pc'[u] = "waiting" /\ at'[u] = m /\ holder'[m] # u
    <3>1. CASE u = t
      <4>1. m = l /\ holder[l] # None
        BY <2>1, <3>1, <1>3, <1>4
      <4>2. holder'[m] # t
        BY <4>1, <1>3, <1>4
      <4>3. QED
        BY <3>1, <4>1, <4>2, <1>4, <1>5
    <3>2. CASE u # t
      <4>1. In(waiters[m], u)
        BY <2>1, <3>2, <1>4
      <4>2. pc[u] = "waiting" /\ at[u] = m /\ holder[m] # u
        BY <4>1, <1>0 DEF Lines
      <4>3. QED
        BY <3>2, <4>2, <1>4, <1>5
    <3>3. QED
      BY <3>1, <3>2
  <2>2. QED
    BY <2>1, <1>4 DEF Lines
<1>8. HoldersWant'
  <2>1. ASSUME NEW m \in Leg, NEW u \in Task, holder'[m] = u
        PROVE  m \in want'[u] /\ (pc'[u] = "inside" \/ (pc'[u] = "waiting" /\ m <= at'[u]))
    <3>1. CASE u = t
      <4>1. m = l
        BY <2>1, <3>1, <1>3, <1>4
      <4>2. QED
        BY <3>1, <4>1, <1>4, <1>5, <1>2 DEF Leg
    <3>2. CASE u # t
      <4>1. holder[m] = u
        BY <2>1, <3>2, <1>4
      <4>2. QED
        BY <3>2, <4>1, <1>0, <1>4, <1>5 DEF HoldersWant
    <3>3. QED
      BY <3>1, <3>2
  <2>2. QED
    BY <2>1 DEF HoldersWant
<1>9. Waits'
  <2>1. ASSUME NEW u \in Task, pc'[u] = "waiting"
        PROVE  /\ at'[u] \in want'[u]
               /\ \A m \in want'[u] : m < at'[u] => holder'[m] = u
               /\ holder'[at'[u]] = u \/ In(waiters'[at'[u]], u)
    <3>1. CASE u = t
      <4>1. \A m \in S : ~(m < l)
        BY <1>1, <1>2 DEF First, Leg
      <4>2. holder'[l] = t \/ In(waiters'[l], t)
        BY <1>2, <1>4
      <4>3. QED
        BY <3>1, <4>1, <4>2, <1>4, <1>5
    <3>2. CASE u # t
      <4>1. /\ at[u] \in want[u]
            /\ \A m \in want[u] : m < at[u] => holder[m] = u
            /\ holder[at[u]] = u \/ In(waiters[at[u]], u)
        BY <2>1, <3>2, <1>0, <1>5 DEF Waits
      <4>2. \A m \in Leg : holder[m] = u => holder'[m] = u
        BY <1>4, <1>0 DEF LockAssumption, TypeOK
      <4>3. want[u] \in SUBSET Leg
        BY <1>0 DEF TypeOK
      <4>4. QED
        BY <3>2, <4>1, <4>2, <4>3, <1>4, <1>5
    <3>3. QED
      BY <3>1, <3>2
  <2>2. QED
    BY <2>1 DEF Waits
<1>10. HasAll'
  <2>1. \A u \in Task : \A m \in Leg : holder[m] = u => holder'[m] = u
    BY <1>4 DEF LockAssumption
  <2>2. QED
    BY <2>1, <1>0, <1>5 DEF HasAll, TypeOK
<1>11. Out'
  BY <1>0, <1>5 DEF Out
<1>12. QED
  BY <1>6, <1>7, <1>8, <1>9, <1>10, <1>11 DEF IInv

\* A task that was granted a lock is in no line, and the next lock it asks
\* for is beyond every one it has.
LEMMA NextLockKeeps ==
    ASSUME LockAssumption, IInv, NEW t \in Task, NextLock(t)
    PROVE  IInv'
<1>0. TypeOK /\ Lines /\ HoldersWant /\ Waits /\ HasAll /\ Out
  BY DEF IInv
<1>1. PICK l \in Further(t) : First(l, Further(t)) /\ Acquire(t, l)
  BY DEF NextLock
<1>2. /\ pc[t] = "waiting" /\ holder[at[t]] = t
      /\ pc' = pc /\ want' = want
      /\ l \in want[t] /\ l \in Leg /\ holder[l] # t
      /\ want[t] \in SUBSET Leg
  BY <1>0 DEF NextLock, Granted, Further, TypeOK
<1>3. \A m \in Leg : NoDups(waiters[m]) /\ ~In(waiters[m], t)
  BY <1>0, <1>2 DEF Lines
<1>4. /\ holder' \in [Leg -> Task \cup {None}]
      /\ waiters' \in [Leg -> Seq(Task)]
      /\ at' \in [Task -> Leg \cup {0}]
      /\ at'[t] = l /\ \A u \in Task \ {t} : at'[u] = at[u]
      /\ \A m \in Leg : holder'[m] = None => waiters'[m] = <<>>
      /\ \A m \in Leg : holder'[m] # holder[m] => m = l /\ holder[m] = None /\ holder'[m] = t
      /\ \A m \in Leg : NoDups(waiters'[m])
      /\ \A m \in Leg : \A u \in Task :
            In(waiters'[m], u) <=> In(waiters[m], u) \/ (m = l /\ u = t /\ holder[l] # None)
      /\ holder[l] = None => holder'[l] = t
  BY <1>0, <1>1, <1>2, <1>3, AcquireLemma
<1>5. \A m \in Leg : \A u \in Task : holder[m] = u => holder'[m] = u
  BY <1>4 DEF LockAssumption
<1>6. at[t] \in want[t] /\ at[t] < l /\ \A m \in want[t] : m < l => holder[m] = t
  <2>1. at[t] \in want[t] /\ \A m \in want[t] : m < at[t] => holder[m] = t
    BY <1>0, <1>2 DEF Waits
  <2>2. \A m \in want[t] : holder[m] # t => l <= m
    BY <1>1 DEF First, Further
  <2>3. at[t] \in Leg /\ l # at[t] /\ ~(l < at[t])
    BY <2>1, <1>2
  <2>4. QED
    BY <2>1, <2>2, <2>3, <1>2 DEF Leg
<1>7. TypeOK'
  BY <1>0, <1>2, <1>4 DEF TypeOK
<1>8. Lines'
  <2>1. ASSUME NEW m \in Leg, NEW u \in Task, In(waiters'[m], u)
        PROVE  pc'[u] = "waiting" /\ at'[u] = m /\ holder'[m] # u
    <3>1. CASE u = t
      <4>1. m = l /\ holder[l] # None
        BY <2>1, <3>1, <1>3, <1>4
      <4>2. holder'[m] # t
        BY <4>1, <1>2, <1>4
      <4>3. QED
        BY <3>1, <4>1, <4>2, <1>2, <1>4
    <3>2. CASE u # t
      <4>1. In(waiters[m], u)
        BY <2>1, <3>2, <1>4
      <4>2. pc[u] = "waiting" /\ at[u] = m /\ holder[m] # u
        BY <4>1, <1>0 DEF Lines
      <4>3. QED
        BY <3>2, <4>2, <1>2, <1>4
    <3>3. QED
      BY <3>1, <3>2
  <2>2. QED
    BY <2>1, <1>4 DEF Lines
<1>9. HoldersWant'
  <2>1. ASSUME NEW m \in Leg, NEW u \in Task, holder'[m] = u
        PROVE  m \in want'[u] /\ (pc'[u] = "inside" \/ (pc'[u] = "waiting" /\ m <= at'[u]))
    <3>1. CASE u = t
      <4>1. CASE m = l
        BY <3>1, <4>1, <1>2, <1>4 DEF Leg
      <4>2. CASE m # l
        <5>1. holder[m] = t
          BY <2>1, <3>1, <4>2, <1>4
        <5>2. m \in want[t] /\ m <= at[t]
          BY <5>1, <1>0, <1>2 DEF HoldersWant
        <5>3. m <= l
          BY <5>2, <1>2, <1>6 DEF Leg
        <5>4. QED
          BY <3>1, <5>2, <5>3, <1>2, <1>4
      <4>3. QED
        BY <4>1, <4>2
    <3>2. CASE u # t
      <4>1. holder[m] = u
        BY <2>1, <3>2, <1>4
      <4>2. QED
        BY <3>2, <4>1, <1>0, <1>2, <1>4 DEF HoldersWant
    <3>3. QED
      BY <3>1, <3>2
  <2>2. QED
    BY <2>1 DEF HoldersWant
<1>10. Waits'
  <2>1. ASSUME NEW u \in Task, pc'[u] = "waiting"
        PROVE  /\ at'[u] \in want'[u]
               /\ \A m \in want'[u] : m < at'[u] => holder'[m] = u
               /\ holder'[at'[u]] = u \/ In(waiters'[at'[u]], u)
    <3>1. CASE u = t
      <4>1. \A m \in want[t] : m < l => holder'[m] = t
        BY <1>2, <1>5, <1>6
      <4>2. holder'[l] = t \/ In(waiters'[l], t)
        BY <1>2, <1>4
      <4>3. QED
        BY <3>1, <4>1, <4>2, <1>2, <1>4
    <3>2. CASE u # t
      <4>1. /\ at[u] \in want[u]
            /\ \A m \in want[u] : m < at[u] => holder[m] = u
            /\ holder[at[u]] = u \/ In(waiters[at[u]], u)
            /\ want[u] \in SUBSET Leg
        BY <2>1, <1>0, <1>2 DEF Waits, TypeOK
      <4>2. QED
        BY <3>2, <4>1, <1>2, <1>4, <1>5
    <3>3. QED
      BY <3>1, <3>2
  <2>2. QED
    BY <2>1 DEF Waits
<1>11. HasAll'
  BY <1>0, <1>2, <1>5 DEF HasAll, TypeOK
<1>12. Out'
  BY <1>0, <1>2 DEF Out
<1>13. QED
  BY <1>7, <1>8, <1>9, <1>10, <1>11, <1>12 DEF IInv

\* A task that has all its locks runs; nobody's locks change.
LEMMA BeginKeeps ==
    ASSUME LockAssumption, IInv, NEW t \in Task, Begin(t)
    PROVE  IInv'
<1>0. TypeOK /\ Lines /\ HoldersWant /\ Waits /\ HasAll /\ Out
  BY DEF IInv
<1>1. /\ pc[t] = "waiting" /\ holder[at[t]] = t /\ Further(t) = {}
      /\ pc' = [pc EXCEPT ![t] = "inside"] /\ at' = [at EXCEPT ![t] = 0]
      /\ holder' = holder /\ waiters' = waiters /\ want' = want
  BY DEF Begin, Granted
<1>2. /\ pc'[t] = "inside"
      /\ \A u \in Task \ {t} : pc'[u] = pc[u] /\ at'[u] = at[u]
  BY <1>0, <1>1 DEF TypeOK
<1>3. TypeOK'
  BY <1>0, <1>1 DEF TypeOK
<1>4. \A m \in Leg : ~In(waiters[m], t)
  BY <1>0, <1>1 DEF Lines
<1>5. Lines'
  BY <1>0, <1>1, <1>2, <1>4 DEF Lines
<1>6. HoldersWant'
  <2>1. ASSUME NEW m \in Leg, NEW u \in Task, holder[m] = u
        PROVE  m \in want[u] /\ (pc'[u] = "inside" \/ (pc'[u] = "waiting" /\ m <= at'[u]))
    <3>1. m \in want[u] /\ (pc[u] = "inside" \/ (pc[u] = "waiting" /\ m <= at[u]))
      BY <2>1, <1>0 DEF HoldersWant
    <3>2. CASE u = t
      BY <3>1, <3>2, <1>2
    <3>3. CASE u # t
      BY <3>1, <3>3, <1>2
    <3>4. QED
      BY <3>2, <3>3
  <2>2. QED
    BY <2>1, <1>1 DEF HoldersWant
<1>7. Waits'
  BY <1>0, <1>1, <1>2 DEF Waits
<1>8. HasAll'
  <2>1. want[t] # {} /\ \A m \in want[t] : holder[m] = t
    BY <1>0, <1>1 DEF Waits, Further
  <2>2. QED
    BY <2>1, <1>0, <1>1, <1>2 DEF HasAll
<1>9. Out'
  BY <1>0, <1>1, <1>2 DEF Out
<1>10. QED
  BY <1>3, <1>5, <1>6, <1>7, <1>8, <1>9 DEF IInv

\* The locks of a section that ends go to waiters that still ask for them.
LEMMA EndKeeps ==
    ASSUME LockAssumption, IInv, NEW t \in Task, End(t)
    PROVE  IInv'
<1>0. TypeOK /\ Lines /\ HoldersWant /\ Waits /\ HasAll /\ Out
  BY DEF IInv
<1> DEFINE S == want[t]
<1>1. /\ pc[t] = "inside" /\ Release(S) /\ S \in SUBSET Leg
      /\ want' = [want EXCEPT ![t] = {}] /\ pc' = [pc EXCEPT ![t] = "out"]
      /\ at' = at
  BY <1>0 DEF End, TypeOK
<1>2. /\ \A m \in S : holder[m] = t
      /\ \A m \in Leg : NoDups(waiters[m])
  BY <1>0, <1>1 DEF HasAll, Lines
<1>3. /\ holder' \in [Leg -> Task \cup {None}]
      /\ waiters' \in [Leg -> Seq(Task)]
      /\ \A m \in Leg : holder'[m] = None => waiters'[m] = <<>>
      /\ \A m \in Leg \ S : holder'[m] = holder[m] /\ waiters'[m] = waiters[m]
      /\ \A m \in Leg : NoDups(waiters'[m])
      /\ \A m \in S : \A u \in Task :
            /\ holder'[m] = u => In(waiters[m], u) /\ ~In(waiters'[m], u)
            /\ In(waiters'[m], u) => In(waiters[m], u)
            /\ In(waiters[m], u) => holder'[m] = u \/ In(waiters'[m], u)
  <2> HIDE DEF S
  <2>1. QED
    BY <1>0, <1>1, <1>2, ReleaseLemma
<1>4. /\ pc'[t] = "out" /\ want'[t] = {}
      /\ \A u \in Task \ {t} : pc'[u] = pc[u] /\ want'[u] = want[u]
  BY <1>0, <1>1 DEF TypeOK
<1>5. ASSUME NEW m \in Leg, NEW u \in Task, In(waiters[m], u)
      PROVE  u # t /\ pc'[u] = "waiting" /\ at'[u] = m /\ holder[m] # u
  BY <1>5, <1>0, <1>1, <1>4 DEF Lines
<1>6. TypeOK'
  BY <1>0, <1>1, <1>3 DEF TypeOK
<1>7. Lines'
  <2>1. ASSUME NEW m \in Leg, NEW u \in Task, In(waiters'[m], u)
        PROVE  pc'[u] = "waiting" /\ at'[u] = m /\ holder'[m] # u
    <3>1. CASE m \in S
      BY <2>1, <3>1, <1>3, <1>5
    <3>2. CASE m \notin S
      BY <2>1, <3>2, <1>3, <1>5
    <3>3. QED
      BY <3>1, <3>2
  <2>2. QED
    BY <2>1, <1>3 DEF Lines
<1>8. HoldersWant'
  <2>1. ASSUME NEW m \in Leg, NEW u \in Task, holder'[m] = u
        PROVE  m \in want'[u] /\ (pc'[u] = "inside" \/ (pc'[u] = "waiting" /\ m <= at'[u]))
    <3>1. CASE m \in S
      <4>1. u # t /\ pc'[u] = "waiting" /\ at'[u] = m
        BY <2>1, <3>1, <1>1, <1>3, <1>5
      <4>2. m \in want[u]
        BY <4>1, <1>0, <1>1, <1>4 DEF Waits
      <4>3. QED
        BY <4>1, <4>2, <1>4 DEF Leg
    <3>2. CASE m \notin S
      <4>1. holder[m] = u /\ u # t
        BY <2>1, <3>2, <1>0, <1>3 DEF HoldersWant
      <4>2. QED
        BY <4>1, <1>0, <1>1, <1>4 DEF HoldersWant
    <3>3. QED
      BY <3>1, <3>2
  <2>2. QED
    BY <2>1 DEF HoldersWant
<1>9. Waits'
  <2>1. ASSUME NEW u \in Task, pc'[u] = "waiting"
        PROVE  /\ at'[u] \in want'[u]
               /\ \A m \in want'[u] : m < at'[u] => holder'[m] = u
               /\ holder'[at'[u]] = u \/ In(waiters'[at'[u]], u)
    <3>1. u # t
      BY <2>1, <1>4
    <3>2. /\ at[u] \in want[u] /\ want[u] \in SUBSET Leg
          /\ \A m \in want[u] : m < at[u] => holder[m] = u
          /\ holder[at[u]] = u \/ In(waiters[at[u]], u)
      BY <2>1, <3>1, <1>0, <1>4 DEF Waits, TypeOK
    <3>3. \A m \in Leg : holder[m] = u => holder'[m] = u
      BY <3>1, <1>2, <1>3
    <3>4. holder'[at[u]] = u \/ In(waiters'[at[u]], u)
      <4>1. CASE at[u] \in S
        BY <3>1, <3>2, <4>1, <1>2, <1>3
      <4>2. CASE at[u] \notin S
        BY <3>2, <4>2, <1>3
      <4>3. QED
        BY <4>1, <4>2
    <3>5. QED
      BY <3>1, <3>2, <3>3, <3>4, <1>1, <1>4
  <2>2. QED
    BY <2>1 DEF Waits
<1>10. HasAll'
  <2>1. ASSUME NEW u \in Task, pc'[u] = "inside"
        PROVE  want'[u] # {} /\ \A m \in want'[u] : holder'[m] = u
    <3>1. u # t
      BY <2>1, <1>4
    <3>2. want[u] # {} /\ want[u] \in SUBSET Leg /\ \A m \in want[u] : holder[m] = u
      BY <2>1, <3>1, <1>0, <1>4 DEF HasAll, TypeOK
    <3>3. \A m \in Leg : holder[m] = u => holder'[m] = u
      BY <3>1, <1>2, <1>3
    <3>4. QED
      BY <3>1, <3>2, <3>3, <1>4
  <2>2. QED
    BY <2>1 DEF HasAll
<1>11. Out'
  BY <1>0, <1>4 DEF Out
<1>12. QED
  BY <1>6, <1>7, <1>8, <1>9, <1>10, <1>11 DEF IInv

LEMMA NextKeeps ==
    ASSUME LockAssumption, IInv, [Next]_vars PROVE IInv'
<1>1. CASE \E t \in Task : \E S \in SUBSET Leg : Ask(t, S)
  BY <1>1, AskKeeps
<1>2. CASE \E t \in Task : NextLock(t)
  BY <1>2, NextLockKeeps
<1>3. CASE \E t \in Task : Begin(t)
  BY <1>3, BeginKeeps
<1>4. CASE \E t \in Task : End(t)
  BY <1>4, EndKeeps
<1>5. CASE UNCHANGED vars
  BY <1>5 DEF vars, IInv, TypeOK, Lines, HoldersWant, Waits, HasAll, Out, In, NoDups
<1>6. QED
  BY <1>1, <1>2, <1>3, <1>4, <1>5 DEF Next

-----------------------------------------------------------------------------
(* The theorems.                                                           *)

\* The invariant of the leg locks: a lock has one holder, who wants it; its
\* line holds each task at most once, and only tasks that still ask for it.
THEOREM LocksInvariant == Spec => []IInv
<1>1. Init => IInv
  BY LockAssumption, InitHolds
<1>2. IInv /\ [Next]_vars => IInv'
  BY LockAssumption, NextKeeps
<1>3. QED
  BY <1>1, <1>2, PTL DEF Spec

\* The variables keep their types, and a free lock has nobody in its line:
\* AsyncLock.release() never unlocks beside a waiter.
THEOREM LockTypes == Spec => []TypeOK
<1>1. IInv => TypeOK
  BY DEF IInv
<1>2. QED
  BY <1>1, LocksInvariant, PTL

\* Among the tasks that wait, one that waits for the largest leg can go on,
\* or that leg is held by a task in its section.
LEMMA Movement == ASSUME LockAssumption, IInv PROVE SomebodyMoves
<1>0. TypeOK /\ Lines /\ HoldersWant /\ Waits
  BY DEF IInv
<1>1. SUFFICES ASSUME \E t \in Task : pc[t] = "waiting"
               PROVE  \E t \in Task : pc[t] = "inside" \/ Granted(t)
  BY DEF SomebodyMoves
<1> DEFINE W == {at[t] : t \in {u \in Task : pc[u] = "waiting"}}
<1>2. W \in SUBSET Leg /\ W # {}
  <2>1. ASSUME NEW t \in Task, pc[t] = "waiting" PROVE at[t] \in Leg
    BY <2>1, <1>0 DEF Waits, TypeOK
  <2>2. W \in SUBSET Leg
    BY <2>1
  <2>3. PICK t \in Task : pc[t] = "waiting"
    BY <1>1
  <2>4. at[t] \in W
    BY <2>3
  <2>5. QED
    BY <2>2, <2>4
<1>3. PICK m \in W : \A l \in W : l <= m
  BY <1>2, LargestLeg DEF LockAssumption
<1>4. PICK t \in Task : pc[t] = "waiting" /\ at[t] = m
  OBVIOUS
<1>5. CASE holder[m] = t
  BY <1>4, <1>5 DEF Granted
<1>6. CASE holder[m] # t
  <2>1. In(waiters[m], t) /\ m \in Leg
    BY <1>0, <1>2, <1>4, <1>6 DEF Waits
  <2>2. waiters[m] # <<>>
    BY <2>1 DEF In
  <2>3. PICK u \in Task : holder[m] = u
    BY <1>0, <2>1, <2>2 DEF TypeOK
  <2>4. pc[u] = "inside" \/ (pc[u] = "waiting" /\ m <= at[u])
    BY <1>0, <2>1, <2>3 DEF HoldersWant
  <2>5. CASE pc[u] = "inside"
    BY <2>5
  <2>6. CASE pc[u] = "waiting" /\ m <= at[u]
    <3>1. at[u] \in W /\ at[u] \in Leg /\ m \in Leg
      BY <1>2, <2>6
    <3>2. at[u] = m
      BY <3>1, <2>6, <1>3 DEF Leg
    <3>3. QED
      BY <3>2, <2>3, <2>6 DEF Granted
  <2>7. QED
    BY <2>4, <2>5, <2>6
<1>7. QED
  BY <1>5, <1>6

\* No set of tasks ever waits for each other in a circle: sorting the keys
\* in runExclusiveMany is enough.
THEOREM NoCircularWait == Spec => []SomebodyMoves
<1>1. IInv => SomebodyMoves
  BY LockAssumption, Movement
<1>2. QED
  BY <1>1, LocksInvariant, PTL

\* The locks are never lost and never form a circle.
THEOREM LocksCorrect == Spec => []LocksSafe
<1>1. TypeOK /\ SomebodyMoves => LocksSafe
  BY DEF LocksSafe
<1>2. QED
  BY <1>1, LockTypes, NoCircularWait, PTL

\* Entering a section is the only step that Sections can see besides leaving
\* one, and it is exclusive because a lock has one holder.
LEMMA StepRefines ==
    ASSUME LockAssumption, IInv, [Next]_vars
    PROVE  [Abstract!SectionsNext]_[t \in Task |-> Running(t)]
<1>0. TypeOK /\ HoldersWant /\ Waits /\ HasAll
  BY DEF IInv
<1> DEFINE mine == [t \in Task |-> Running(t)]
<1>1. ASSUME NEW t \in Task, NEW S \in SUBSET Leg, Ask(t, S)
      PROVE  mine' = mine
  <2>1. /\ pc[t] = "out" /\ pc'[t] = "waiting"
        /\ \A u \in Task \ {t} : pc'[u] = pc[u] /\ want'[u] = want[u]
    BY <1>0, <1>1 DEF Ask, TypeOK
  <2>2. \A u \in Task : Running(u)' = Running(u)
    BY <2>1 DEF Running
  <2>3. QED
    BY <2>2
<1>2. ASSUME NEW t \in Task, NextLock(t) PROVE mine' = mine
  BY <1>2 DEF NextLock, Running
<1>3. ASSUME NEW t \in Task, Begin(t) PROVE Abstract!Enter(t, want[t])
  <2>1. /\ pc[t] = "waiting" /\ holder[at[t]] = t /\ Further(t) = {}
        /\ pc' = [pc EXCEPT ![t] = "inside"] /\ want' = want
    BY <1>3 DEF Begin, Granted
  <2>2. want[t] # {} /\ \A l \in want[t] : holder[l] = t
    BY <1>0, <2>1 DEF Waits, Further
  <2>3. ASSUME NEW u \in Task PROVE Running(u) \cap want[t] = {}
    <3>1. CASE pc[u] = "inside"
      <4>1. \A l \in want[u] : holder[l] = u
        BY <3>1, <1>0 DEF HasAll
      <4>2. u # t
        BY <3>1, <2>1
      <4>3. QED
        BY <2>2, <4>1, <4>2 DEF Running
    <3>2. CASE pc[u] # "inside"
      BY <3>2 DEF Running
    <3>3. QED
      BY <3>1, <3>2
  <2>4. Running(t) = {} /\ Running(t)' = want[t]
    BY <2>1, <1>0 DEF Running, TypeOK
  <2>5. \A u \in Task \ {t} : Running(u)' = Running(u)
    BY <2>1, <1>0 DEF Running, TypeOK
  <2>6. mine' = [mine EXCEPT ![t] = want[t]]
    BY <2>4, <2>5
  <2>7. QED
    BY <2>2, <2>3, <2>4, <2>6 DEF Abstract!Enter
<1>4. ASSUME NEW t \in Task, End(t) PROVE Abstract!Exit(t)
  <2>1. /\ pc[t] = "inside" /\ pc'[t] = "out"
        /\ \A u \in Task \ {t} : pc'[u] = pc[u] /\ want'[u] = want[u]
    BY <1>0, <1>4 DEF End, TypeOK
  <2>2. Running(t) # {} /\ Running(t)' = {}
    BY <2>1, <1>0 DEF Running, HasAll
  <2>3. \A u \in Task \ {t} : Running(u)' = Running(u)
    BY <2>1 DEF Running
  <2>4. mine' = [mine EXCEPT ![t] = {}]
    BY <2>2, <2>3
  <2>5. QED
    BY <2>2, <2>4 DEF Abstract!Exit
<1>5. CASE UNCHANGED vars
  BY <1>5 DEF vars, Running
<1>6. \A t \in Task : want[t] \in SUBSET Leg
  BY <1>0 DEF TypeOK
<1>7. QED
  BY <1>1, <1>2, <1>3, <1>4, <1>5, <1>6 DEF Next, Abstract!SectionsNext

\* The leg locks keep the promise of Sections: a section has all the legs it
\* named to itself, from its first step to its last.
THEOREM Exclusion == Spec => ImplementsSections
<1>1. Init => Abstract!SectionsInit
  BY DEF Init, Abstract!SectionsInit, Running
<1>2. IInv /\ [Next]_vars => [Abstract!SectionsNext]_[t \in Task |-> Running(t)]
  BY LockAssumption, StepRefines
<1>3. QED
  BY <1>1, <1>2, LocksInvariant, PTL DEF Spec, ImplementsSections, Abstract!SectionsSpec
-----------------------------------------------------------------------------
(* Bridging.                                                                 *)

BrHalf == Parties \cup {NoPeer}
BrPaired == {"activating", "setting", "syncing", "hosting", "binding", "publishing"}
BrCommand == [at : BrPaired \cup {"none", "detaching", "detached", "ensuring", "resyncing"},
              a : BrHalf, b : BrHalf, id : Nat, same : BOOLEAN, legs : Seq(Parties),
              was : BrHalf \X BrHalf, todo : SUBSET Parties]

\* What a command under way is about, by where it stands.
BrAbout(c) ==
    /\ (c.at = "none") = (c.id = 0)
    /\ c.at # "none" => c.a \in Parties /\ (c.b = NoPeer \/ <<c.a, c.b>> \in Pairs)
    /\ c.at \in BrPaired => <<c.a, c.b>> \in Pairs
    /\ c.at \in {"detaching", "detached"} => c.legs # <<>> /\ (c.b = NoPeer => Len(c.legs) =< 2)
    /\ c.at = "resyncing" => Len(c.legs) = 2

\* Every value is one the code can have, and the commands have tickets of
\* their own.
BrTypes ==
    /\ state \in [Parties -> {"live", "ended", "terminated", "gone"}]
    /\ peer \in [Parties -> BrHalf]
    /\ routed \in [Parties -> BrHalf]
    /\ begun \in 0 .. MaxJobs /\ held \subseteq 1 .. begun
    /\ slot \in [Parties -> {NoTicket} \cup [ticket : 1 .. begun, with : Parties]]
    /\ command \in [Jobs -> BrCommand]
    /\ \A j \in Jobs : command[j].id =< begun /\ BrAbout(command[j])
    /\ \A j, k \in Jobs : j # k /\ command[j].id = command[k].id => command[j].id = 0

\* A command that is replaced by one that is as it should be, and keeps its
\* ticket, gives it up, or takes the next.
LEMMA BrCommandsKept ==
    ASSUME BrTypes, NEW j \in Jobs, NEW c \in BrCommand, BrAbout(c),
           command' = [command EXCEPT ![j] = c],
           \/ begun' = begun /\ c.id \in {0, command[j].id}
           \/ begun' = begun + 1 /\ c.id = begun + 1
    PROVE  /\ command' \in [Jobs -> BrCommand]
           /\ \A k \in Jobs : command'[k].id =< begun' /\ BrAbout(command'[k])
           /\ \A k, m \in Jobs : k # m /\ command'[k].id = command'[m].id => command'[k].id = 0
<1>1. command \in [Jobs -> BrCommand] /\ begun \in Nat /\ begun' \in Nat /\ begun =< begun'
  BY DEF BrTypes
<1>2. \A k \in Jobs : command'[k] = IF k = j THEN c ELSE command[k]
  BY <1>1
<1>3. command' \in [Jobs -> BrCommand]
  BY <1>1
<1>4. \A k \in Jobs : command[k].id \in Nat /\ command[k].id =< begun /\ BrAbout(command[k])
  BY <1>1 DEF BrTypes, BrCommand
<1>5. c.id \in Nat /\ c.id =< begun'
  BY <1>1, <1>4 DEF BrCommand
<1>6. \A k \in Jobs : command'[k].id =< begun' /\ BrAbout(command'[k])
  <2>1. TAKE k \in Jobs
  <2>2. CASE k = j
    BY <2>2, <1>2, <1>5
  <2>3. CASE k # j
    <3>1. command[k].id =< begun'
      BY <1>1, <1>4
    <3>2. QED
      BY <2>3, <3>1, <1>2, <1>4
  <2>4. QED
    BY <2>2, <2>3
<1>7. \A k \in Jobs : k # j /\ command[k].id = c.id => c.id = 0
  <2>1. TAKE k \in Jobs
  <2>2. CASE c.id \in {0, command[j].id}
    BY <2>2 DEF BrTypes
  <2>3. CASE c.id = begun + 1
    BY <2>3, <1>1, <1>4
  <2>4. QED
    BY <2>2, <2>3
<1>8. \A k, m \in Jobs : k # m /\ command[k].id = command[m].id => command[k].id = 0
  BY DEF BrTypes
<1>9. QED
  BY <1>2, <1>3, <1>6, <1>7, <1>8

LEMMA BrPriorIsLegs ==
    ASSUME BrTypes, NEW a \in Parties, NEW b \in Parties
    PROVE  Prior(a, b) \in Seq(Parties)
<1>1. peer[a] # NoPeer => peer[a] \in Parties
  BY DEF BrTypes, BrHalf
<1>2. peer[b] # NoPeer => peer[b] \in Parties
  BY DEF BrTypes, BrHalf
<1> DEFINE one == IF peer[a] # NoPeer THEN <<a, peer[a]>> ELSE <<>>
           two == IF peer[b] # NoPeer THEN <<b, peer[b]>> ELSE <<>>
<1>3. one \in Seq(Parties) /\ two \in Seq(Parties)
  BY <1>1, <1>2
<1>4. one \o two \in Seq(Parties)
  BY <1>3
<1>5. QED
  BY <1>4 DEF Prior

\* What a step does to the commands.
BrCommandStep(j) ==
    \E c \in BrCommand :
        /\ command' = [command EXCEPT ![j] = c]
        /\ BrAbout(c)
        /\ \/ begun' = begun /\ c.id \in {0, command[j].id}
           \/ begun' = begun + 1 /\ c.id = begun + 1

LEMMA BrBegins ==
    ASSUME BridgingAssumption, BrTypes, NEW j \in Jobs, NEW x \in Parties, NEW y \in Parties,
           BridgeBegins(j, x, y) \/ EndpointAsked(j, x) \/ UnbridgeBegins(j, x)
    PROVE  BrCommandStep(j) /\ begun' \in 0 .. MaxJobs /\ begun < begun'
<1>1. /\ begun \in Nat /\ MaxJobs \in Nat /\ NoPeer \notin Parties
      /\ command \in [Jobs -> BrCommand]
  BY DEF BrTypes, BridgingAssumption
<1>2. begun < MaxJobs /\ begun' = begun + 1
  BY DEF BridgeBegins, EndpointAsked, UnbridgeBegins, Begins
<1> DEFINE next == begun + 1
<1>n. next \in Nat /\ begun' = next /\ begun < next /\ next \in 0 .. MaxJobs
  BY <1>1, <1>2
<1> HIDE DEF next
<1>3. NoCommand \in BrCommand /\ NoCommand.b = NoPeer
  BY DEF NoCommand, BrCommand, BrHalf, BrPaired
<1>4. CASE BridgeBegins(j, x, y)
  <2> DEFINE same == peer[x] = y /\ peer[y] = x
             stage == IF same \/ Prior(x, y) = <<>> THEN "ensuring" ELSE "detaching"
             legs == IF same THEN <<>> ELSE Prior(x, y)
             c == [NoCommand EXCEPT !.at = stage, !.a = x, !.b = y, !.id = next, !.same = same,
                                    !.todo = {x, y}, !.legs = legs]
  <2>1. command' = [command EXCEPT ![j] = c] /\ <<x, y>> \in Pairs
    BY <1>4 DEF BridgeBegins, next
  <2>2. legs \in Seq(Parties) /\ stage \in {"ensuring", "detaching"} /\ same \in BOOLEAN
    BY BrPriorIsLegs
  <2>3. stage = "detaching" => legs # <<>>
    OBVIOUS
  <2> HIDE DEF same, stage, legs
  <2>4. /\ c.at = stage /\ c.a = x /\ c.b = y /\ c.id = next /\ c.legs = legs
        /\ c \in BrCommand
    BY <1>1, <1>n, <1>3, <2>2 DEF BrCommand, BrHalf, BrPaired
  <2>5. BrAbout(c)
    BY <1>1, <1>n, <2>1, <2>2, <2>3, <2>4 DEF BrAbout, BrPaired, next
  <2> HIDE DEF c
  <2>6. QED
    BY <1>n, <2>1, <2>4, <2>5 DEF BrCommandStep, next
<1>5. CASE EndpointAsked(j, x)
  <2> DEFINE c == [NoCommand EXCEPT !.at = "ensuring", !.a = x, !.id = next, !.todo = {x}]
  <2>1. command' = [command EXCEPT ![j] = c]
    BY <1>5 DEF EndpointAsked, next
  <2>2. c \in BrCommand /\ c.at = "ensuring" /\ c.a = x /\ c.b = NoPeer /\ c.id = next
    BY <1>1, <1>n, <1>3 DEF BrCommand, BrHalf, BrPaired
  <2>3. BrAbout(c)
    BY <1>1, <1>n, <2>2 DEF BrAbout, BrPaired, next
  <2> HIDE DEF c
  <2>4. QED
    BY <1>n, <2>1, <2>2, <2>3 DEF BrCommandStep, next
<1>6. CASE UnbridgeBegins(j, x)
  <2> DEFINE legs == IF peer[x] = NoPeer THEN <<x>> ELSE <<x, peer[x]>>
             c == [NoCommand EXCEPT !.at = "detaching", !.a = x, !.id = next, !.legs = legs]
  <2>1. command' = [command EXCEPT ![j] = c]
    BY <1>6 DEF UnbridgeBegins, next
  <2>2. peer[x] # NoPeer => peer[x] \in Parties
    BY DEF BrTypes, BrHalf
  <2>3. legs \in Seq(Parties) /\ legs # <<>> /\ Len(legs) =< 2
    BY <2>2
  <2> HIDE DEF legs
  <2>4. /\ c \in BrCommand /\ c.at = "detaching" /\ c.a = x /\ c.b = NoPeer
        /\ c.id = next /\ c.legs = legs
    BY <1>1, <1>n, <1>3, <2>3 DEF BrCommand, BrHalf, BrPaired
  <2>5. BrAbout(c)
    BY <1>1, <1>n, <2>3, <2>4 DEF BrAbout, BrPaired, next
  <2> HIDE DEF c
  <2>6. QED
    BY <1>n, <2>1, <2>4, <2>5 DEF BrCommandStep, next
<1>7. QED
  BY <1>4, <1>5, <1>6

\* A command that goes on, or ends.
LEMMA BrGoesOn ==
    ASSUME BridgingAssumption, BrTypes, NEW j \in Jobs, NEW x \in Parties,
           \/ EndpointEnsured(j, x) \/ Resynced(j) \/ EndpointRefused(j) \/ RollbackBegins(j)
           \/ Retained(j) \/ RetentionRefused(j) \/ PeersSet(j) \/ SyncBegins(j) \/ Hosted(j)
           \/ BridgeBound(j) \/ RoutingFails(j) \/ Published(j) \/ RoutingCleared(j) \/ Detached(j)
    PROVE  BrCommandStep(j) /\ begun' = begun
<1> DEFINE c == command[j]
<1>1. /\ c \in BrCommand /\ BrAbout(c) /\ c.id \in Nat /\ NoPeer \notin Parties
      /\ command \in [Jobs -> BrCommand]
  BY DEF BrTypes, BrCommand, BridgingAssumption
<1>2. begun' = begun
  BY DEF EndpointEnsured, Resynced, EndpointRefused, RollbackBegins, Retained, RetentionRefused,
         PeersSet, SyncBegins, Hosted, BridgeBound, RoutingFails, Published, RoutingCleared,
         Detached, Over
<1> SUFFICES BrCommandStep(j)
  BY <1>2
<1>3. c.at # "none" /\ c.id # 0
  <2>1. c.at # "none"
    BY DEF EndpointEnsured, Resynced, EndpointRefused, RollbackBegins, Retained, RetentionRefused,
           PeersSet, SyncBegins, Hosted, BridgeBound, RoutingFails, Published, RoutingCleared,
           Detached, At
  <2>2. QED
    BY <1>1, <2>1 DEF BrAbout
<1>4. \A y \in Parties : peer[y] \in BrHalf /\ (peer[y] # NoPeer => peer[y] \in Parties)
  BY DEF BrTypes, BrHalf
<1>5. /\ c.a \in Parties /\ (c.b = NoPeer \/ <<c.a, c.b>> \in Pairs)
      /\ c.at \in BrPaired => <<c.a, c.b>> \in Pairs
  BY <1>1, <1>3 DEF BrAbout
<1>6. ASSUME NEW d \in BrCommand, BrAbout(d), d.id \in {0, c.id}, command' = [command EXCEPT ![j] = d]
      PROVE  BrCommandStep(j)
  BY <1>2, <1>6 DEF BrCommandStep
<1> HIDE DEF c
<1>7. ASSUME Done(j)
      PROVE  BrCommandStep(j)
  <2>1. NoCommand \in BrCommand /\ NoCommand.id = 0 /\ BrAbout(NoCommand)
    BY DEF NoCommand, BrCommand, BrHalf, BrPaired, BrAbout
  <2>2. QED
    BY <1>6, <1>7, <2>1 DEF Done
<1>8. ASSUME NEW stage \in BrPaired, c.at \in BrPaired, command' = [command EXCEPT ![j].at = stage]
      PROVE  BrCommandStep(j)
  <2> DEFINE d == [c EXCEPT !.at = stage]
  <2>1. command' = [command EXCEPT ![j] = d]
    BY <1>1, <1>8 DEF c
  <2>2. /\ d \in BrCommand /\ d.at = stage /\ d.a = c.a /\ d.b = c.b /\ d.id = c.id
        /\ d.legs = c.legs
    BY <1>1 DEF BrCommand
  <2>3. BrAbout(d)
    BY <1>3, <1>5, <1>8, <2>2 DEF BrAbout, BrPaired
  <2> HIDE DEF d
  <2>4. QED
    BY <1>6, <2>1, <2>2, <2>3
<1>9. ASSUME NEW rest \in SUBSET Parties, AfterEnsuring(j, rest)
      PROVE  BrCommandStep(j)
  <2>1. CASE rest # {}
    <3> DEFINE d == [c EXCEPT !.at = "ensuring", !.todo = rest]
    <3>1. command' = [command EXCEPT ![j] = d]
      BY <1>1, <1>9, <2>1 DEF AfterEnsuring, c
    <3>2. d \in BrCommand /\ d.at = "ensuring" /\ d.a = c.a /\ d.b = c.b /\ d.id = c.id
      BY <1>1 DEF BrCommand
    <3>3. BrAbout(d)
      BY <1>3, <1>5, <3>2 DEF BrAbout, BrPaired
    <3> HIDE DEF d
    <3>4. QED
      BY <1>6, <3>1, <3>2, <3>3
  <2>2. CASE rest = {} /\ c.b = NoPeer
    <3>1. Done(j)
      BY <1>1, <1>9, <2>2 DEF AfterEnsuring, Done, c
    <3>2. QED
      BY <1>7, <3>1
  <2>3. CASE rest = {} /\ c.b # NoPeer
    <3> DEFINE d == [c EXCEPT !.at = "activating", !.todo = {}]
    <3>1. command' = [command EXCEPT ![j] = d]
      BY <1>1, <1>9, <2>3 DEF AfterEnsuring, c
    <3>2. d \in BrCommand /\ d.at = "activating" /\ d.a = c.a /\ d.b = c.b /\ d.id = c.id
      BY <1>1 DEF BrCommand, BrPaired
    <3>3. BrAbout(d)
      BY <1>3, <1>5, <2>3, <3>2 DEF BrAbout, BrPaired
    <3> HIDE DEF d
    <3>4. QED
      BY <1>6, <3>1, <3>2, <3>3
  <2>4. QED
    BY <2>1, <2>2, <2>3
<1>10. CASE EndpointEnsured(j, x)
  <2>1. c.todo \ {x} \in SUBSET Parties
    BY <1>1 DEF BrCommand
  <2>2. CASE Stands(x, peer[x])
    <3> DEFINE d == [c EXCEPT !.at = "resyncing", !.todo = c.todo \ {x}, !.legs = <<x, peer[x]>>]
    <3>1. peer[x] \in Parties
      BY <2>2, <1>4 DEF Stands
    <3>2. command' = [command EXCEPT ![j] = d]
      BY <1>1, <1>10, <2>2 DEF EndpointEnsured, c
    <3>3. <<x, peer[x]>> \in Seq(Parties) /\ Len(<<x, peer[x]>>) = 2
      BY <3>1
    <3>4. /\ d \in BrCommand /\ d.at = "resyncing" /\ d.a = c.a /\ d.b = c.b /\ d.id = c.id
          /\ d.legs = <<x, peer[x]>>
      BY <1>1, <2>1, <3>3 DEF BrCommand
    <3>5. BrAbout(d)
      BY <1>3, <1>5, <3>3, <3>4 DEF BrAbout, BrPaired
    <3> HIDE DEF d
    <3>6. QED
      BY <1>6, <3>2, <3>4, <3>5
  <2>3. CASE ~Stands(x, peer[x])
    BY <1>10, <2>1, <2>3, <1>9 DEF EndpointEnsured, c
  <2>4. QED
    BY <2>2, <2>3
<1>11. CASE Resynced(j)
  <2>1. c.todo \in SUBSET Parties
    BY <1>1 DEF BrCommand
  <2>2. QED
    BY <1>9, <1>11, <2>1 DEF Resynced, c
<1>12. CASE RollbackBegins(j)
  <2> DEFINE d == [c EXCEPT !.at = "detaching", !.legs = <<c.a, peer[c.a]>>, !.todo = {}]
  <2>1. peer[c.a] \in Parties
    BY <1>4, <1>5, <1>12 DEF RollbackBegins, c
  <2>2. command' = [command EXCEPT ![j] = d]
    BY <1>1, <1>12 DEF RollbackBegins, c
  <2>3. /\ <<c.a, peer[c.a]>> \in Seq(Parties) /\ <<c.a, peer[c.a]>> # <<>>
        /\ Len(<<c.a, peer[c.a]>>) =< 2
    BY <1>5, <2>1
  <2>4. /\ d \in BrCommand /\ d.at = "detaching" /\ d.a = c.a /\ d.b = c.b /\ d.id = c.id
        /\ d.legs = <<c.a, peer[c.a]>>
    BY <1>1, <2>3 DEF BrCommand
  <2>5. BrAbout(d)
    BY <1>3, <1>5, <2>3, <2>4 DEF BrAbout, BrPaired
  <2> HIDE DEF d
  <2>6. QED
    BY <1>6, <2>2, <2>4, <2>5
<1>13. CASE Retained(j)
  <2> DEFINE d == [c EXCEPT !.at = "setting", !.was = <<peer[c.a], peer[c.b]>>]
  <2>1. c.at = "activating" /\ <<c.a, c.b>> \in Pairs
    BY <1>5, <1>13 DEF Retained, At, BrPaired, c
  <2>2. c.b \in Parties
    BY <2>1 DEF BridgingAssumption
  <2>3. command' = [command EXCEPT ![j] = d]
    BY <1>1, <1>13 DEF Retained, c
  <2>4. <<peer[c.a], peer[c.b]>> \in BrHalf \X BrHalf
    BY <1>4, <1>5, <2>2
  <2>5. /\ d \in BrCommand /\ d.at = "setting" /\ d.a = c.a /\ d.b = c.b /\ d.id = c.id
    BY <1>1, <2>4 DEF BrCommand, BrPaired
  <2>6. BrAbout(d)
    BY <1>3, <1>5, <2>1, <2>5 DEF BrAbout, BrPaired
  <2> HIDE DEF d
  <2>7. QED
    BY <1>6, <2>3, <2>5, <2>6
<1>14. CASE RoutingCleared(j) \/ Detached(j)
  <2>1. c.at \in {"detaching", "detached"}
    BY <1>14 DEF RoutingCleared, Detached, At, c
  <2>2. ASSUME NEW stage \in {"detached", "ensuring"}, command' = [command EXCEPT ![j].at = stage]
        PROVE  BrCommandStep(j)
    <3> DEFINE d == [c EXCEPT !.at = stage]
    <3>1. command' = [command EXCEPT ![j] = d]
      BY <1>1, <2>2 DEF c
    <3>2. /\ d \in BrCommand /\ d.at = stage /\ d.a = c.a /\ d.b = c.b /\ d.id = c.id
          /\ d.legs = c.legs
      BY <1>1 DEF BrCommand
    <3>3. c.legs # <<>> /\ (c.b = NoPeer => Len(c.legs) =< 2)
      BY <1>1, <2>1 DEF BrAbout
    <3>4. BrAbout(d)
      BY <1>3, <1>5, <3>2, <3>3 DEF BrAbout, BrPaired
    <3> HIDE DEF d
    <3>5. QED
      BY <1>6, <3>1, <3>2, <3>4
  <2>3. Goes(j, "detached") \/ Goes(j, "ensuring") \/ Done(j)
    BY <1>14 DEF RoutingCleared, Detached
  <2>4. QED
    BY <1>7, <2>2, <2>3 DEF Goes
<1>15. CASE EndpointRefused(j) \/ RetentionRefused(j) \/ RoutingFails(j) \/ Published(j)
  BY <1>7, <1>15 DEF EndpointRefused, RetentionRefused, RoutingFails, Published, Over
<1>16. CASE PeersSet(j) \/ SyncBegins(j) \/ Hosted(j) \/ BridgeBound(j)
  <2>1. c.at \in BrPaired
    BY <1>16 DEF PeersSet, SyncBegins, Hosted, BridgeBound, At, BrPaired, c
  <2>2. Goes(j, "syncing") \/ Goes(j, "hosting") \/ Goes(j, "binding") \/ Goes(j, "publishing")
    BY <1>16 DEF PeersSet, SyncBegins, Hosted, BridgeBound
  <2>3. QED
    BY <1>8, <2>1, <2>2 DEF Goes, BrPaired
<1>17. QED
  BY <1>2, <1>10, <1>11, <1>12, <1>13, <1>14, <1>15, <1>16

\* A ticket stands in the slots of at most two legs, which name each other.
TicketsPaired ==
    \A x, y \in Parties : x # y /\ slot[x].ticket # 0 /\ slot[x].ticket = slot[y].ticket
        => slot[x].with = y /\ slot[y].with = x

\* The slots that releasing the tickets of these legs empties.
FreedBy(xs) ==
    {y \in Parties : /\ slot[y].ticket # 0
                     /\ \/ y \in xs
                        \/ slot[y].with \in xs /\ slot[slot[y].with].ticket = slot[y].ticket}

\* Slots are emptied, by whole tickets.
Frees(F) ==
    /\ F \subseteq Parties
    /\ \A y \in F, z \in Parties : slot[z].ticket = slot[y].ticket => z \in F
    /\ slot' = [y \in Parties |-> IF y \in F THEN NoTicket ELSE slot[y]]
    /\ held' = held \ (Tickets(slot) \ Tickets(slot'))

LEMMA BrSlotFacts ==
    ASSUME BridgingAssumption, BrTypes
    PROVE  \A x \in Parties : /\ slot[x].ticket \in Nat
                              /\ slot[x].ticket = 0 => slot[x] = NoTicket
                              /\ slot[x].ticket # 0 => /\ slot[x].with \in Parties
                                                       /\ slot[x].ticket \in 1 .. begun
<1>1. TAKE x \in Parties
<1>2. slot[x] \in {NoTicket} \cup [ticket : 1 .. begun, with : Parties] /\ begun \in Nat
  BY DEF BrTypes
<1>3. CASE slot[x] = NoTicket
  BY <1>3 DEF NoTicket
<1>4. CASE slot[x] \in [ticket : 1 .. begun, with : Parties]
  BY <1>2, <1>4
<1>5. QED
  BY <1>2, <1>3, <1>4

LEMMA BrReleaseIs ==
    ASSUME BridgingAssumption, BrTypes, TicketsPaired, NEW xs \in SUBSET Parties
    PROVE  ReleaseSlots(xs, slot) =
               [y \in Parties |-> IF y \in FreedBy(xs) THEN NoTicket ELSE slot[y]]
<1>1. \A x \in Parties : /\ slot[x].ticket = 0 => slot[x] = NoTicket
                         /\ slot[x].ticket # 0 => slot[x].with \in Parties
  BY BrSlotFacts
<1>2. NoTicket.ticket = 0
  BY DEF NoTicket
<1>3. ASSUME NEW x \in Parties, NEW y \in Parties
      PROVE  ReleaseSlot(x, slot)[y] =
                 IF slot[x].ticket # 0 /\ (y = x \/ (y = slot[x].with
                                                     /\ slot[y].ticket = slot[x].ticket))
                 THEN NoTicket ELSE slot[y]
  BY DEF ReleaseSlot
<1>4. ASSUME NEW y \in Parties
      PROVE  (\E x \in xs : ReleaseSlot(x, slot)[y] = NoTicket)
                 => y \in FreedBy(xs) \/ slot[y] = NoTicket
  <2>1. SUFFICES ASSUME NEW x \in xs, ReleaseSlot(x, slot)[y] = NoTicket, slot[y] # NoTicket
                 PROVE  y \in FreedBy(xs)
    OBVIOUS
  <2>2. slot[x].ticket # 0 /\ (y = x \/ (y = slot[x].with /\ slot[y].ticket = slot[x].ticket))
    BY <1>3, <2>1
  <2>3. slot[y].ticket # 0
    BY <1>1, <2>1
  <2>4. CASE y = x
    BY <2>3, <2>4 DEF FreedBy
  <2>5. CASE y # x
    <3>1. slot[y].with = x
      BY <2>2, <2>5 DEF TicketsPaired
    <3>2. QED
      BY <2>2, <2>3, <2>5, <3>1 DEF FreedBy
  <2>6. QED
    BY <2>4, <2>5
<1>5. ASSUME NEW y \in Parties, y \in FreedBy(xs)
      PROVE  \E x \in xs : ReleaseSlot(x, slot)[y] = NoTicket
  <2>1. slot[y].ticket # 0
    BY <1>5 DEF FreedBy
  <2>2. CASE y \in xs
    BY <2>1, <2>2, <1>3
  <2>3. CASE y \notin xs
    <3> DEFINE x == slot[y].with
    <3>1. x \in xs /\ x \in Parties /\ slot[x].ticket = slot[y].ticket /\ x # y
      BY <1>5, <2>3 DEF FreedBy
    <3>2. slot[x].with = y
      BY <2>1, <3>1 DEF TicketsPaired
    <3> HIDE DEF x
    <3>3. ReleaseSlot(x, slot)[y] = NoTicket
      BY <1>3, <2>1, <3>1, <3>2
    <3>4. QED
      BY <3>1, <3>3
  <2>4. QED
    BY <2>2, <2>3
<1>6. ASSUME NEW y \in Parties
      PROVE  (IF \E x \in xs : ReleaseSlot(x, slot)[y] = NoTicket THEN NoTicket ELSE slot[y])
             = (IF y \in FreedBy(xs) THEN NoTicket ELSE slot[y])
  BY <1>4, <1>5
<1>7. QED
  BY <1>6 DEF ReleaseSlots

LEMMA BrReleaseOne ==
    ASSUME NEW x \in Parties
    PROVE  ReleaseSlot(x, slot) = ReleaseSlots({x}, slot)
<1>1. \A y \in Parties : ReleaseSlot(x, slot)[y] \in {NoTicket, slot[y]}
  BY DEF ReleaseSlot
<1>2. \A y \in Parties :
          ReleaseSlot(x, slot)[y] = IF \E z \in {x} : ReleaseSlot(z, slot)[y] = NoTicket
                                    THEN NoTicket ELSE slot[y]
  BY <1>1
<1>3. ReleaseSlot(x, slot) = [y \in Parties |-> ReleaseSlot(x, slot)[y]]
  BY DEF ReleaseSlot
<1>4. QED
  BY <1>2, <1>3 DEF ReleaseSlots

LEMMA BrReleaseFrees ==
    ASSUME BridgingAssumption, BrTypes, TicketsPaired, NEW xs \in SUBSET Parties,
           GivesBack(ReleaseSlots(xs, slot))
    PROVE  Frees(FreedBy(xs))
<1>1. /\ slot' = [y \in Parties |-> IF y \in FreedBy(xs) THEN NoTicket ELSE slot[y]]
      /\ held' = held \ (Tickets(slot) \ Tickets(slot'))
  BY BrReleaseIs DEF GivesBack
<1>2. ASSUME NEW y \in FreedBy(xs), NEW z \in Parties, slot[z].ticket = slot[y].ticket
      PROVE  z \in FreedBy(xs)
  <2>1. y \in Parties /\ slot[y].ticket # 0
    BY DEF FreedBy
  <2>2. CASE z = y
    BY <2>2
  <2>3. CASE z # y
    <3>1. slot[y].with = z /\ slot[z].with = y
      BY <1>2, <2>1, <2>3 DEF TicketsPaired
    <3>2. CASE y \in xs
      BY <1>2, <2>1, <3>1, <3>2 DEF FreedBy
    <3>3. CASE y \notin xs
      BY <1>2, <2>1, <3>1, <3>3 DEF FreedBy
    <3>4. QED
      BY <3>2, <3>3
  <2>4. QED
    BY <2>2, <2>3
<1>3. FreedBy(xs) \subseteq Parties
  BY DEF FreedBy
<1>4. QED
  BY <1>1, <1>2, <1>3 DEF Frees

\* The steps of the slots.
LEMMA BrSlotStep ==
    ASSUME BridgingAssumption, BrTypes, TicketsPaired, BrNext
    PROVE  \/ UNCHANGED <<slot, held>>
           \/ \E xs \in SUBSET Parties : Frees(FreedBy(xs))
           \/ \E j \in Jobs : Retained(j) /\ ~command[j].same
<1>1. \A j \in Jobs : /\ command[j].at # "none" => command[j].a \in Parties
                      /\ command[j].legs \in Seq(Parties)
                      /\ command[j].at = "detached" => command[j].legs # <<>>
  BY DEF BrTypes, BrAbout, BrCommand
<1>2. \A xs \in SUBSET Parties : GivesBack(ReleaseSlots(xs, slot)) => Frees(FreedBy(xs))
  BY BrReleaseFrees
<1>3. \A x \in Parties : GivesBack(ReleaseSlot(x, slot)) => Frees(FreedBy({x}))
  BY <1>2, BrReleaseOne
<1>4. GivesBack(slot) => Frees(FreedBy({}))
  <2>1. ReleaseSlots({}, slot) = [y \in Parties |-> slot[y]]
    BY DEF ReleaseSlots
  <2>2. slot = [y \in Parties |-> slot[y]]
    BY DEF BrTypes
  <2>3. QED
    BY <1>2, <2>1, <2>2
<1>5. ASSUME NEW j \in Jobs, Retained(j) \/ RoutingFails(j) \/ Published(j) \/ Detached(j)
      PROVE  \/ UNCHANGED <<slot, held>>
             \/ \E xs \in SUBSET Parties : Frees(FreedBy(xs))
             \/ Retained(j) /\ ~command[j].same
  <2>1. CASE Retained(j)
    BY <2>1 DEF Retained
  <2>2. CASE RoutingFails(j) \/ Published(j)
    <3>1. command[j].a \in Parties
      BY <1>1, <2>2 DEF RoutingFails, Published, At
    <3>2. UNCHANGED <<slot, held>> \/ GivesBack(ReleaseSlot(command[j].a, slot))
      BY <2>2 DEF RoutingFails, Published
    <3>3. {command[j].a} \in SUBSET Parties
      BY <3>1
    <3>4. QED
      BY <1>3, <3>1, <3>2, <3>3
  <2>3. CASE Detached(j)
    <3>1. command[j].at = "detached"
      BY <2>3 DEF Detached, At
    <3>2. command[j].legs \in Seq(Parties) /\ command[j].legs # <<>>
      BY <1>1, <3>1
    <3>3. command[j].legs[1] \in Parties /\ ToSet(command[j].legs) \in SUBSET Parties
      BY <3>2 DEF ToSet
    <3>4. \/ UNCHANGED <<slot, held>>
          \/ GivesBack(slot)
          \/ GivesBack(ReleaseSlots({command[j].legs[1]}, slot))
          \/ GivesBack(ReleaseSlots(ToSet(command[j].legs), slot))
      BY <2>3 DEF Detached
    <3>5. {command[j].legs[1]} \in SUBSET Parties
      BY <3>3
    <3>6. QED
      BY <1>2, <1>4, <3>3, <3>4, <3>5
  <2>4. QED
    BY <1>5, <2>1, <2>2, <2>3
<1>6. ASSUME NEW x \in Parties, TerminationBegins(x)
      PROVE  UNCHANGED <<slot, held>> \/ \E xs \in SUBSET Parties : Frees(FreedBy(xs))
  <2>1. UNCHANGED <<slot, held>> \/ GivesBack(ReleaseSlot(x, slot))
    BY <1>6 DEF TerminationBegins
  <2>2. {x} \in SUBSET Parties
    OBVIOUS
  <2>3. QED
    BY <1>3, <2>1, <2>2
<1>7. ASSUME NEW j \in Jobs,
             \/ \E a, b \in Parties : BridgeBegins(j, a, b)
             \/ Resynced(j) \/ EndpointRefused(j) \/ RollbackBegins(j) \/ RetentionRefused(j)
             \/ PeersSet(j) \/ SyncBegins(j) \/ Hosted(j) \/ BridgeBound(j) \/ RoutingCleared(j)
             \/ \E x \in Parties : UnbridgeBegins(j, x) \/ EndpointAsked(j, x) \/ EndpointEnsured(j, x)
      PROVE  UNCHANGED <<slot, held>>
  BY <1>7 DEF BridgeBegins, Resynced, EndpointRefused, RollbackBegins, RetentionRefused, PeersSet,
              SyncBegins, Hosted, BridgeBound, RoutingCleared, UnbridgeBegins, EndpointAsked,
              EndpointEnsured, Over
<1>8. ASSUME NEW x \in Parties, LegEnds(x) \/ LegGone(x)
      PROVE  UNCHANGED <<slot, held>>
  BY <1>8 DEF LegEnds, LegGone
<1>9. QED
  BY <1>5, <1>6, <1>7, <1>8 DEF BrNext

\* Every step of the bridges is one of a command or of a leg.
LEMMA BrSteps ==
    ASSUME BridgingAssumption, BrTypes, BrNext
    PROVE  \/ \E j \in Jobs, x, y \in Parties :
                  BridgeBegins(j, x, y) \/ EndpointAsked(j, x) \/ UnbridgeBegins(j, x)
           \/ \E j \in Jobs, x \in Parties :
                 \/ EndpointEnsured(j, x) \/ Resynced(j) \/ EndpointRefused(j) \/ RollbackBegins(j)
                 \/ Retained(j) \/ RetentionRefused(j) \/ PeersSet(j) \/ SyncBegins(j) \/ Hosted(j)
                 \/ BridgeBound(j) \/ RoutingFails(j) \/ Published(j) \/ RoutingCleared(j)
                 \/ Detached(j)
           \/ \E x \in Parties : LegEnds(x) \/ TerminationBegins(x) \/ LegGone(x)
<1>1. ASSUME NEW j \in Jobs,
             \/ Resynced(j) \/ EndpointRefused(j) \/ RollbackBegins(j)
             \/ Retained(j) \/ RetentionRefused(j) \/ PeersSet(j) \/ SyncBegins(j) \/ Hosted(j)
             \/ BridgeBound(j) \/ RoutingFails(j) \/ Published(j) \/ RoutingCleared(j)
             \/ Detached(j)
      PROVE  Parties # {}
  <2>1. command[j].at # "none"
    BY <1>1 DEF Resynced, EndpointRefused, RollbackBegins, Retained, RetentionRefused,
           PeersSet, SyncBegins, Hosted, BridgeBound, RoutingFails, Published, RoutingCleared,
           Detached, At
  <2>2. QED
    BY <2>1 DEF BrTypes, BrAbout
<1>2. QED
  BY <1>1 DEF BrNext

LEMMA BrRoutedTyped ==
    ASSUME BridgingAssumption, BrTypes, BrNext
    PROVE  routed' \in [Parties -> BrHalf]
<1>1. routed \in [Parties -> BrHalf] /\ NoPeer \in BrHalf
  BY DEF BrTypes, BrHalf
<1>2. \A xs : Split(xs) \in [Parties -> BrHalf]
  BY <1>1 DEF Split
<1>3. ASSUME NEW a, NEW b \in BrHalf, a \in BrHalf, Merge(a, b)
      PROVE  routed' \in [Parties -> BrHalf]
  BY <1>2, <1>3 DEF Merge
<1>4. ASSUME NEW j \in Jobs, Resynced(j) \/ BridgeBound(j)
      PROVE  routed' \in [Parties -> BrHalf]
  <2>1. command[j] \in BrCommand /\ BrAbout(command[j])
    BY DEF BrTypes
  <2>2. CASE BridgeBound(j)
    BY <1>3, <2>1, <2>2 DEF BridgeBound, BrCommand
  <2>3. CASE Resynced(j)
    <3>1. command[j].legs \in Seq(Parties) /\ Len(command[j].legs) = 2
      BY <2>1, <2>3 DEF Resynced, At, BrAbout, BrCommand
    <3>2. command[j].legs[1] \in Parties /\ command[j].legs[2] \in Parties
      BY <3>1
    <3>3. QED
      BY <1>3, <2>3, <3>2 DEF Resynced, BrHalf
  <2>4. QED
    BY <1>4, <2>2, <2>3
<1>5. ASSUME NEW j \in Jobs,
             \/ \E x \in Parties : EndpointEnsured(j, x)
             \/ SyncBegins(j) \/ RoutingCleared(j)
      PROVE  routed' \in [Parties -> BrHalf]
  BY <1>1, <1>2, <1>5 DEF EndpointEnsured, SyncBegins, RoutingCleared
<1>6. ASSUME NEW j \in Jobs,
             \/ \E a, b \in Parties : BridgeBegins(j, a, b)
             \/ EndpointRefused(j) \/ RollbackBegins(j) \/ RetentionRefused(j)
             \/ Retained(j) \/ PeersSet(j) \/ Hosted(j) \/ RoutingFails(j) \/ Published(j)
             \/ Detached(j) \/ \E x \in Parties : UnbridgeBegins(j, x) \/ EndpointAsked(j, x)
      PROVE  routed' = routed
  BY <1>6 DEF BridgeBegins, EndpointRefused, RollbackBegins, RetentionRefused, Retained, PeersSet,
              Hosted, RoutingFails, Published, Detached, UnbridgeBegins, EndpointAsked, Over
<1>7. ASSUME NEW x \in Parties, LegEnds(x) \/ TerminationBegins(x) \/ LegGone(x)
      PROVE  routed' \in [Parties -> BrHalf]
  BY <1>1, <1>2, <1>7 DEF LegEnds, TerminationBegins, LegGone
<1>8. QED
  BY <1>1, <1>4, <1>5, <1>6, <1>7 DEF BrNext

LEMMA BrPeerTyped ==
    ASSUME BridgingAssumption, BrTypes, BrNext
    PROVE  peer' \in [Parties -> BrHalf]
<1>1. peer \in [Parties -> BrHalf] /\ NoPeer \in BrHalf /\ Parties \subseteq BrHalf
  BY DEF BrTypes, BrHalf
<1>2. ASSUME NEW j \in Jobs, PeersSet(j) \/ RoutingFails(j) \/ Detached(j)
      PROVE  peer' \in [Parties -> BrHalf]
  <2>1. command[j] \in BrCommand
    BY DEF BrTypes
  <2>2. command[j].was[1] \in BrHalf /\ command[j].was[2] \in BrHalf
    BY <2>1 DEF BrCommand
  <2>3. command[j].a \in BrHalf /\ command[j].b \in BrHalf
    BY <2>1 DEF BrCommand
  <2>4. QED
    BY <1>1, <1>2, <2>2, <2>3 DEF PeersSet, RoutingFails, Detached
<1>3. ASSUME NEW j \in Jobs,
             \/ \E a, b \in Parties : BridgeBegins(j, a, b)
             \/ Resynced(j) \/ EndpointRefused(j) \/ RollbackBegins(j) \/ RetentionRefused(j)
             \/ Retained(j) \/ SyncBegins(j) \/ Hosted(j) \/ BridgeBound(j) \/ Published(j)
             \/ RoutingCleared(j)
             \/ \E x \in Parties : UnbridgeBegins(j, x) \/ EndpointAsked(j, x) \/ EndpointEnsured(j, x)
      PROVE  peer' = peer
  BY <1>3 DEF BridgeBegins, Resynced, EndpointRefused, RollbackBegins, RetentionRefused, Retained,
              SyncBegins, Hosted, BridgeBound, Published, RoutingCleared, UnbridgeBegins,
              EndpointAsked, EndpointEnsured, Over
<1>4. ASSUME NEW x \in Parties, LegEnds(x) \/ TerminationBegins(x) \/ LegGone(x)
      PROVE  peer' \in [Parties -> BrHalf]
  BY <1>1, <1>4 DEF LegEnds, TerminationBegins, LegGone
<1>5. QED
  BY <1>1, <1>2, <1>3, <1>4 DEF BrNext

LEMMA BrStateStep ==
    ASSUME BridgingAssumption, BrTypes, BrNext
    PROVE  /\ state' \in [Parties -> {"live", "ended", "terminated", "gone"}]
           /\ \A x \in Parties : state'[x] # state[x]
                 => \/ state[x] = "live" /\ state'[x] = "ended" /\ LegEnds(x)
                    \/ TerminationBegins(x) \/ LegGone(x)
<1>1. state \in [Parties -> {"live", "ended", "terminated", "gone"}]
  BY DEF BrTypes
<1>2. ASSUME NEW j \in Jobs,
             \/ \E a, b \in Parties : BridgeBegins(j, a, b)
             \/ Resynced(j) \/ EndpointRefused(j) \/ RollbackBegins(j) \/ RetentionRefused(j)
             \/ Retained(j) \/ PeersSet(j) \/ SyncBegins(j) \/ Hosted(j) \/ BridgeBound(j)
             \/ RoutingFails(j) \/ Published(j) \/ RoutingCleared(j) \/ Detached(j)
             \/ \E x \in Parties : UnbridgeBegins(j, x) \/ EndpointAsked(j, x) \/ EndpointEnsured(j, x)
      PROVE  state' = state
  BY <1>2 DEF BridgeBegins, Resynced, EndpointRefused, RollbackBegins, RetentionRefused, Retained,
              PeersSet, SyncBegins, Hosted, BridgeBound, RoutingFails, Published, RoutingCleared,
              Detached, UnbridgeBegins, EndpointAsked, EndpointEnsured, Over
<1>3. ASSUME NEW x \in Parties, LegEnds(x) \/ TerminationBegins(x) \/ LegGone(x)
      PROVE  /\ state' \in [Parties -> {"live", "ended", "terminated", "gone"}]
             /\ \A y \in Parties : y # x => state'[y] = state[y]
             /\ LegEnds(x) => state[x] = "live" /\ state'[x] = "ended"
  BY <1>1, <1>3 DEF LegEnds, TerminationBegins, LegGone
<1>4. QED
  BY <1>1, <1>2, <1>3 DEF BrNext

LEMMA BrTypesKept ==
    ASSUME BridgingAssumption, BrTypes, TicketsPaired, BrNext
    PROVE  BrTypes'
<1>1. begun \in Nat /\ held \subseteq 1 .. begun
  BY DEF BrTypes
<1>2. begun' \in 0 .. MaxJobs /\ begun =< begun' /\ (begun' # begun => UNCHANGED <<slot, held>>)
  <2>1. ASSUME NEW j \in Jobs, NEW x \in Parties, NEW y \in Parties,
               BridgeBegins(j, x, y) \/ EndpointAsked(j, x) \/ UnbridgeBegins(j, x)
        PROVE  begun' \in 0 .. MaxJobs /\ begun =< begun' /\ UNCHANGED <<slot, held>>
    <3>1. begun' \in 0 .. MaxJobs /\ begun < begun'
      BY <2>1, BrBegins
    <3>2. UNCHANGED <<slot, held>>
      BY <2>1 DEF BridgeBegins, EndpointAsked, UnbridgeBegins
    <3>3. QED
      BY <1>1, <3>1, <3>2
  <2>2. ASSUME NEW x \in Parties, LegEnds(x) \/ TerminationBegins(x) \/ LegGone(x)
        PROVE  begun' = begun
    BY <2>2 DEF LegEnds, TerminationBegins, LegGone
  <2>3. begun \in 0 .. MaxJobs
    BY DEF BrTypes
  <2>4. CASE \E j \in Jobs, x \in Parties :
                 \/ EndpointEnsured(j, x) \/ Resynced(j) \/ EndpointRefused(j) \/ RollbackBegins(j)
                 \/ Retained(j) \/ RetentionRefused(j) \/ PeersSet(j) \/ SyncBegins(j) \/ Hosted(j)
                 \/ BridgeBound(j) \/ RoutingFails(j) \/ Published(j) \/ RoutingCleared(j)
                 \/ Detached(j)
    BY <1>1, <2>3, <2>4, BrGoesOn
  <2>5. QED
    BY <1>1, <2>1, <2>2, <2>3, <2>4, BrSteps
<1> DEFINE Commands ==
               /\ command' \in [Jobs -> BrCommand]
               /\ \A k \in Jobs : command'[k].id =< begun' /\ BrAbout(command'[k])
               /\ \A k, m \in Jobs : k # m /\ command'[k].id = command'[m].id => command'[k].id = 0
           Slots ==
               /\ held' \subseteq 1 .. begun'
               /\ slot' \in [Parties -> {NoTicket} \cup [ticket : 1 .. begun', with : Parties]]
<1>3. Commands
  <2>1. ASSUME NEW j \in Jobs, BrCommandStep(j)
        PROVE  Commands
    BY <2>1, BrCommandsKept DEF BrCommandStep
  <2>2. ASSUME NEW x \in Parties, LegEnds(x) \/ TerminationBegins(x) \/ LegGone(x)
        PROVE  command' = command /\ begun' = begun
    BY <2>2 DEF LegEnds, TerminationBegins, LegGone
  <2>3. CASE command' = command /\ begun' = begun
    BY <2>3 DEF BrTypes
  <2>4. QED
    BY <2>1, <2>2, <2>3, BrSteps, BrBegins, BrGoesOn
<1>4. Slots
  <2>1. CASE UNCHANGED <<slot, held>>
    <3>1. 1 .. begun \subseteq 1 .. begun'
      BY <1>1, <1>2
    <3>2. QED
      BY <1>1, <2>1, <3>1 DEF BrTypes
  <2>2. ASSUME NEW xs \in SUBSET Parties, Frees(FreedBy(xs)), begun' = begun
        PROVE  Slots
    BY <1>1, <2>2 DEF Frees, BrTypes
  <2>3. ASSUME NEW j \in Jobs, Retained(j), ~command[j].same
        PROVE  Slots
    <3>1. command[j].at = "activating" /\ begun' = begun
      BY <2>3 DEF Retained, At
    <3>2. /\ command[j].id \in Nat /\ command[j].id =< begun /\ command[j].id # 0
          /\ <<command[j].a, command[j].b>> \in Pairs
      BY <3>1 DEF BrTypes, BrAbout, BrCommand, BrPaired
    <3>3. command[j].a \in Parties /\ command[j].b \in Parties /\ command[j].id \in 1 .. begun
      BY <1>1, <3>2 DEF BridgingAssumption
    <3>4. slot \in [Parties -> {NoTicket} \cup [ticket : 1 .. begun, with : Parties]]
      BY DEF BrTypes
    <3>5. /\ slot' = [slot EXCEPT ![command[j].a] = [ticket |-> command[j].id, with |-> command[j].b],
                                  ![command[j].b] = [ticket |-> command[j].id, with |-> command[j].a]]
          /\ held' = held \cup {command[j].id}
      BY <2>3 DEF Retained
    <3>6. QED
      BY <1>1, <3>1, <3>3, <3>4, <3>5
  <2>4. QED
    BY <1>2, <2>1, <2>2, <2>3, BrSlotStep
<1>5. QED
  BY <1>2, <1>3, <1>4, BrRoutedTyped, BrPeerTyped, BrStateStep DEF BrTypes

LEMMA BrFlawsGrow ==
    ASSUME BrNext
    PROVE  brFlaws \subseteq brFlaws'
<1>1. ASSUME NEW j \in Jobs,
             \/ \E a, b \in Parties : BridgeBegins(j, a, b)
             \/ Resynced(j) \/ EndpointRefused(j) \/ RollbackBegins(j) \/ RetentionRefused(j)
             \/ Retained(j) \/ PeersSet(j) \/ SyncBegins(j) \/ Hosted(j) \/ BridgeBound(j)
             \/ RoutingFails(j) \/ Published(j) \/ RoutingCleared(j) \/ Detached(j)
             \/ \E x \in Parties : UnbridgeBegins(j, x) \/ EndpointAsked(j, x) \/ EndpointEnsured(j, x)
      PROVE  brFlaws \subseteq brFlaws'
  BY <1>1 DEF BridgeBegins, Resynced, EndpointRefused, RollbackBegins, RetentionRefused, Retained,
              PeersSet, SyncBegins, Hosted, BridgeBound, RoutingFails, Published, RoutingCleared,
              Detached, UnbridgeBegins, EndpointAsked, EndpointEnsured, Over, Merge, Wrong, Unrouted
<1>2. ASSUME NEW x \in Parties, LegEnds(x) \/ TerminationBegins(x) \/ LegGone(x)
      PROVE  brFlaws \subseteq brFlaws'
  BY <1>2 DEF LegEnds, TerminationBegins, LegGone
<1>3. QED
  BY <1>1, <1>2 DEF BrNext

\* Who was hit stays hit.
LEMMA BrHitGrows ==
    ASSUME BrNext, NEW E, NEW x, x \in Hit(E)
    PROVE  x \in Hit(E)'
  BY BrFlawsGrow DEF Hit

LEMMA BrHits ==
    ASSUME NEW E, NEW w \in E, NEW x, <<w, x>> \in brFlaws'
    PROVE  x \in Hit(E)'
<1>1. <<w, x>> \in {g \in brFlaws' : g[1] \in E}
  OBVIOUS
<1>2. <<w, x>>[2] = x
  OBVIOUS
<1>3. QED
  BY <1>1, <1>2 DEF Hit

LEMMA BrHitMore ==
    ASSUME NEW D, NEW E, D \subseteq E
    PROVE  Hit(D) \subseteq Hit(E)
  BY DEF Hit

\* What undoes one half of a bridge.
Halved == {"overwritten", "torn", "late", "muted"}

PeersMutual ==
    \A x \in Parties : peer[x] # NoPeer => peer[peer[x]] = x \/ x \in Hit(Halved)

\* Nobody has a leg whose bridge was taken down for a peer, nor has it one.
LeaversAlone ==
    \A x \in Parties : state[x] \in {"terminated", "gone"} =>
        /\ \A y \in Parties : peer[y] = x => y \in Hit(Halved)
        /\ peer[x] # NoPeer => x \in Hit(Halved)

LEMMA BrPairLegs ==
    ASSUME BridgingAssumption, BrTypes, NEW j \in Jobs, command[j].at \in BrPaired
    PROVE  /\ command[j].a \in Parties /\ command[j].b \in Parties
           /\ command[j].a # command[j].b
           /\ command[j].id # 0 /\ command[j].id \in 1 .. begun
<1>1. <<command[j].a, command[j].b>> \in Pairs /\ command[j].at # "none"
  BY DEF BrTypes, BrAbout, BrPaired
<1>2. command[j].id \in Nat /\ command[j].id # 0 /\ command[j].id =< begun /\ begun \in Nat
  BY <1>1 DEF BrTypes, BrAbout, BrCommand
<1>3. QED
  BY <1>1, <1>2 DEF BridgingAssumption

LEMMA BrPeersKept ==
    ASSUME BridgingAssumption, BrTypes, PeersMutual, LeaversAlone, BrNext
    PROVE  PeersMutual' /\ LeaversAlone'
<1>1. peer \in [Parties -> BrHalf] /\ NoPeer \notin Parties /\ peer' \in [Parties -> BrHalf]
  BY BrPeerTyped DEF BrTypes, BridgingAssumption
<1>2. \A x \in Hit(Halved) : x \in Hit(Halved)'
  BY BrHitGrows
<1>3. \A w \in Halved, x \in Parties : <<w, x>> \in brFlaws' => x \in Hit(Halved)'
  BY BrHits
<1>4. ASSUME peer' = peer,
             \A x \in Parties : state'[x] = state[x] \/ state'[x] = "ended"
      PROVE  PeersMutual' /\ LeaversAlone'
  BY <1>2, <1>4 DEF PeersMutual, LeaversAlone
<1>5. ASSUME NEW j \in Jobs, PeersSet(j) \/ RoutingFails(j)
      PROVE  PeersMutual' /\ LeaversAlone'
  <2> DEFINE a == command[j].a  b == command[j].b
  <2>1. a \in Parties /\ b \in Parties /\ a # b
    BY <1>5, BrPairLegs DEF PeersSet, RoutingFails, At, BrPaired
  <2>2. state' = state
    BY <1>5 DEF PeersSet, RoutingFails
  <2>3. \A x \in Torn({a, b}) : <<"overwritten", x>> \in brFlaws'
    BY <1>5 DEF PeersSet, RoutingFails
  <2>4. ASSUME NEW x \in Parties, x \notin {a, b}, peer[x] \in {a, b}
        PROVE  x \in Hit(Halved)'
    <3>1. x \in Torn({a, b})
      BY <1>1, <2>1, <2>4 DEF Torn
    <3>2. QED
      BY <1>3, <2>3, <3>1 DEF Halved
  <2>5. \A x \in Parties \ {a, b} : peer'[x] = peer[x]
    BY <1>1, <1>5, <2>1 DEF PeersSet, RoutingFails
  <2>6. \A x \in {a, b} : \/ x \in Hit(Halved)'
                          \/ /\ peer'[a] = b /\ peer'[b] = a
                             /\ state[a] \notin {"terminated", "gone"}
                             /\ state[b] \notin {"terminated", "gone"}
    <3>1. CASE PeersSet(j)
      <4>1. peer'[a] = b /\ peer'[b] = a
        BY <1>1, <2>1, <3>1 DEF PeersSet
      <4>2. \/ <<"late", a>> \in brFlaws' /\ <<"late", b>> \in brFlaws'
            \/ state[a] \notin {"terminated", "gone"} /\ state[b] \notin {"terminated", "gone"}
        BY <3>1 DEF PeersSet
      <4>3. QED
        BY <1>3, <2>1, <4>1, <4>2 DEF Halved
    <3>2. CASE RoutingFails(j)
      <4>1. \A x \in {a, b} \ {NoPeer} : <<"muted", x>> \in brFlaws'
        BY <3>2 DEF RoutingFails
      <4>2. QED
        BY <1>1, <1>3, <2>1, <4>1 DEF Halved
    <3>3. QED
      BY <1>5, <3>1, <3>2
  <2> HIDE DEF a, b
  <2>7. PeersMutual'
    <3>1. SUFFICES ASSUME NEW x \in Parties, peer'[x] # NoPeer, x \notin Hit(Halved)'
                   PROVE  peer'[peer'[x]] = x
      BY DEF PeersMutual
    <3>2. CASE x \in {a, b}
      BY <2>6, <3>1, <3>2
    <3>3. CASE x \notin {a, b}
      <4>1. peer'[x] = peer[x] /\ peer[x] \notin {a, b}
        BY <2>4, <2>5, <3>1, <3>3
      <4>2. peer[x] \in Parties
        BY <1>1, <3>1, <4>1 DEF BrHalf
      <4>3. peer[peer[x]] = x
        BY <1>2, <3>1, <4>1 DEF PeersMutual
      <4>4. QED
        BY <2>5, <4>1, <4>2, <4>3
    <3>4. QED
      BY <3>2, <3>3
  <2>8. LeaversAlone'
    <3>1. ASSUME NEW x \in Parties, state'[x] \in {"terminated", "gone"},
                 NEW y \in Parties, peer'[y] = x
          PROVE  y \in Hit(Halved)'
      <4>1. CASE y \in {a, b}
        BY <2>1, <2>2, <2>6, <3>1, <4>1
      <4>2. CASE y \notin {a, b}
        BY <1>2, <2>2, <2>5, <3>1, <4>2 DEF LeaversAlone
      <4>3. QED
        BY <4>1, <4>2
    <3>2. ASSUME NEW x \in Parties, state'[x] \in {"terminated", "gone"}, peer'[x] # NoPeer
          PROVE  x \in Hit(Halved)'
      <4>1. CASE x \in {a, b}
        BY <2>1, <2>2, <2>6, <3>2, <4>1
      <4>2. CASE x \notin {a, b}
        BY <1>2, <2>2, <2>5, <3>2, <4>2 DEF LeaversAlone
      <4>3. QED
        BY <4>1, <4>2
    <3>3. QED
      BY <3>1, <3>2 DEF LeaversAlone
  <2>9. QED
    BY <2>7, <2>8
<1>6. ASSUME NEW C \in SUBSET Parties,
             peer' = [y \in Parties |-> IF y \in C THEN NoPeer ELSE peer[y]],
             \A y \in Parties \ C : peer[y] \in C => y \in Hit(Halved)',
             \A x \in Parties : \/ state'[x] = state[x] \/ state'[x] = "ended"
                                \/ x \in C \/ state[x] = "terminated"
      PROVE  PeersMutual' /\ LeaversAlone'
  <2>1. \A y \in Parties : peer'[y] = IF y \in C THEN NoPeer ELSE peer[y]
    BY <1>6
  <2>2. PeersMutual'
    <3>1. SUFFICES ASSUME NEW x \in Parties, peer'[x] # NoPeer, x \notin Hit(Halved)'
                   PROVE  peer'[peer'[x]] = x
      BY DEF PeersMutual
    <3>2. x \notin C /\ peer'[x] = peer[x] /\ peer[x] \notin C
      BY <1>6, <2>1, <3>1
    <3>3. peer[x] \in Parties /\ peer[peer[x]] = x
      BY <1>1, <1>2, <3>1, <3>2 DEF PeersMutual, BrHalf
    <3>4. QED
      BY <2>1, <3>2, <3>3
  <2>3. ASSUME NEW x \in Parties, state'[x] \in {"terminated", "gone"},
               NEW y \in Parties, peer'[y] = x
        PROVE  y \in Hit(Halved)'
    <3>1. y \notin C /\ peer[y] = x
      BY <1>1, <2>1, <2>3
    <3>2. CASE x \in C
      BY <1>6, <3>1, <3>2
    <3>3. CASE x \notin C
      <4>1. state[x] \in {"terminated", "gone"}
        BY <1>6, <2>3, <3>3
      <4>2. QED
        BY <1>2, <3>1, <4>1 DEF LeaversAlone
    <3>4. QED
      BY <3>2, <3>3
  <2>4. ASSUME NEW x \in Parties, state'[x] \in {"terminated", "gone"}, peer'[x] # NoPeer
        PROVE  x \in Hit(Halved)'
    <3>1. x \notin C /\ peer[x] # NoPeer
      BY <2>1, <2>4
    <3>2. state[x] \in {"terminated", "gone"}
      BY <1>6, <2>4, <3>1
    <3>3. QED
      BY <1>2, <3>1, <3>2 DEF LeaversAlone
  <2>5. QED
    BY <2>2, <2>3, <2>4 DEF LeaversAlone
<1>7. ASSUME NEW C \in SUBSET Parties, \A y \in Torn(C) : <<"torn", y>> \in brFlaws'
      PROVE  \A y \in Parties \ C : peer[y] \in C => y \in Hit(Halved)'
  <2>1. TAKE y \in Parties \ C
  <2>2. HAVE peer[y] \in C
  <2>3. y \in Torn(C)
    BY <1>1, <2>2 DEF Torn
  <2>4. QED
    BY <1>3, <1>7, <2>3 DEF Halved
<1>8. ASSUME NEW j \in Jobs, Detached(j)
      PROVE  PeersMutual' /\ LeaversAlone'
  <2>1. PICK C : /\ peer' = [y \in Parties |-> IF y \in C THEN NoPeer ELSE peer[y]]
                 /\ \A y \in Torn(C) : <<"torn", y>> \in brFlaws'
    BY <1>8 DEF Detached
  <2>2. /\ peer' = [y \in Parties |-> IF y \in C \cap Parties THEN NoPeer ELSE peer[y]]
        /\ \A y \in Torn(C \cap Parties) : <<"torn", y>> \in brFlaws'
    BY <1>1, <2>1 DEF Torn, BrHalf
  <2>3. state' = state
    BY <1>8 DEF Detached
  <2>4. QED
    BY <1>6, <1>7, <2>2, <2>3
<1>9. ASSUME NEW x \in Parties, TerminationBegins(x)
      PROVE  PeersMutual' /\ LeaversAlone'
  <2>1. \A y \in Parties : y # x => state'[y] = state[y]
    BY <1>9 DEF TerminationBegins
  <2>2. CASE peer[x] = NoPeer
    <3>1. peer' = [y \in Parties |-> IF y \in {x} THEN NoPeer ELSE peer[y]]
      BY <1>1, <1>9, <2>2 DEF TerminationBegins
    <3>2. \A y \in Parties \ {x} : peer[y] \in {x} => y \in Hit(Halved)'
      BY <1>1, <1>2, <2>2 DEF PeersMutual
    <3>3. QED
      BY <1>6, <2>1, <3>1, <3>2
  <2>3. CASE peer[x] # NoPeer
    <3>1. peer' = [y \in Parties |-> IF y \in {x, peer[x]} THEN NoPeer ELSE peer[y]]
      BY <1>9, <2>3 DEF TerminationBegins
    <3>2. \A y \in Torn({x, peer[x]}) : <<"torn", y>> \in brFlaws'
      BY <1>9, <2>3 DEF TerminationBegins
    <3>3. {x, peer[x]} \in SUBSET Parties
      BY <1>1, <2>3 DEF BrHalf
    <3>4. QED
      BY <1>6, <1>7, <2>1, <3>1, <3>2, <3>3
  <2>4. QED
    BY <2>2, <2>3
<1>10. ASSUME NEW x \in Parties, LegGone(x)
       PROVE  PeersMutual' /\ LeaversAlone'
  <2>1. \A y \in Parties : y # x => state'[y] = state[y]
    BY <1>10 DEF LegGone
  <2>2. peer' = [y \in Parties |-> IF y \in {x} THEN NoPeer ELSE peer[y]]
    BY <1>1, <1>10 DEF LegGone
  <2>3. \A y \in Parties \ {x} : peer[y] \in {x} => y \in Hit(Halved)'
    BY <1>2, <1>10 DEF LegGone, LeaversAlone
  <2>4. QED
    BY <1>6, <2>1, <2>2, <2>3
<1>11. ASSUME NEW j \in Jobs,
             \/ \E a, b \in Parties : BridgeBegins(j, a, b)
             \/ Resynced(j) \/ EndpointRefused(j) \/ RollbackBegins(j) \/ RetentionRefused(j)
             \/ Retained(j) \/ SyncBegins(j) \/ Hosted(j) \/ BridgeBound(j) \/ Published(j)
             \/ RoutingCleared(j)
             \/ \E x \in Parties : UnbridgeBegins(j, x) \/ EndpointAsked(j, x) \/ EndpointEnsured(j, x)
      PROVE  peer' = peer /\ state' = state
  BY <1>11 DEF BridgeBegins, Resynced, EndpointRefused, RollbackBegins, RetentionRefused, Retained,
              SyncBegins, Hosted, BridgeBound, Published, RoutingCleared, UnbridgeBegins,
              EndpointAsked, EndpointEnsured, Over
<1>12. ASSUME NEW x \in Parties, LegEnds(x)
       PROVE  peer' = peer /\ \A y \in Parties : state'[y] = state[y] \/ state'[y] = "ended"
  BY <1>12 DEF LegEnds, BrTypes
<1>13. QED
  BY <1>4, <1>5, <1>8, <1>9, <1>10, <1>11, <1>12 DEF BrNext

\* A command is changed by its own steps only.
LEMMA BrWhoSteps ==
    ASSUME BridgingAssumption, BrTypes, BrNext, NEW k \in Jobs
    PROVE  \/ command'[k] = command[k]
           \/ At(k, "none") /\ command'[k].id = begun + 1
           \/ \E x \in Parties :
                 \/ EndpointEnsured(k, x) \/ Resynced(k) \/ EndpointRefused(k) \/ RollbackBegins(k)
                 \/ Retained(k) \/ RetentionRefused(k) \/ PeersSet(k) \/ SyncBegins(k) \/ Hosted(k)
                 \/ BridgeBound(k) \/ RoutingFails(k) \/ Published(k) \/ RoutingCleared(k)
                 \/ Detached(k)
<1>1. command \in [Jobs -> BrCommand]
  BY DEF BrTypes
<1>2. ASSUME NEW j \in Jobs, j # k, BrCommandStep(j)
      PROVE  command'[k] = command[k]
  BY <1>1, <1>2 DEF BrCommandStep
<1>3. ASSUME NEW j \in Jobs, NEW x \in Parties, NEW y \in Parties,
             BridgeBegins(j, x, y) \/ EndpointAsked(j, x) \/ UnbridgeBegins(j, x)
      PROVE  command'[k] = command[k] \/ (At(k, "none") /\ command'[k].id = begun + 1)
  <2>1. CASE j # k
    BY <1>2, <1>3, <2>1, BrBegins
  <2>2. CASE j = k
    <3>1. At(k, "none") /\ begun' = begun + 1
      BY <1>3, <2>2 DEF BridgeBegins, EndpointAsked, UnbridgeBegins, Begins
    <3>2. PICK c \in BrCommand : /\ command' = [command EXCEPT ![j] = c]
                                 /\ \/ begun' = begun
                                    \/ c.id = begun + 1
      BY <1>3, BrBegins DEF BrCommandStep
    <3>3. command'[k] = c
      BY <1>1, <2>2, <3>2
    <3>4. begun \in Nat
      BY DEF BrTypes
    <3>5. QED
      BY <3>1, <3>2, <3>3, <3>4
  <2>3. QED
    BY <2>1, <2>2
<1>4. ASSUME NEW j \in Jobs, NEW x \in Parties, j # k,
             \/ EndpointEnsured(j, x) \/ Resynced(j) \/ EndpointRefused(j) \/ RollbackBegins(j)
             \/ Retained(j) \/ RetentionRefused(j) \/ PeersSet(j) \/ SyncBegins(j) \/ Hosted(j)
             \/ BridgeBound(j) \/ RoutingFails(j) \/ Published(j) \/ RoutingCleared(j)
             \/ Detached(j)
      PROVE  command'[k] = command[k]
  BY <1>2, <1>4, BrGoesOn
<1>5. ASSUME NEW x \in Parties, LegEnds(x) \/ TerminationBegins(x) \/ LegGone(x)
      PROVE  command' = command
  BY <1>5 DEF LegEnds, TerminationBegins, LegGone
<1>6. QED
  BY <1>3, <1>4, <1>5, BrSteps

\* A command that waits to set the peers waits until it sets them.
LEMMA BrSettersWait ==
    ASSUME BridgingAssumption, BrTypes, BrNext, NEW k \in Jobs, At(k, "setting")
    PROVE  command'[k] = command[k] \/ PeersSet(k)
<1>1. SUFFICES ASSUME command'[k] # command[k]
               PROVE  PeersSet(k)
  OBVIOUS
<1>2. ASSUME NEW x \in Parties,
             \/ EndpointEnsured(k, x) \/ Resynced(k) \/ EndpointRefused(k) \/ RollbackBegins(k)
             \/ Retained(k) \/ RetentionRefused(k) \/ SyncBegins(k) \/ Hosted(k)
             \/ BridgeBound(k) \/ RoutingFails(k) \/ Published(k) \/ RoutingCleared(k)
             \/ Detached(k)
      PROVE  FALSE
  BY <1>2 DEF EndpointEnsured, Resynced, EndpointRefused, RollbackBegins, Retained,
              RetentionRefused, SyncBegins, Hosted, BridgeBound, RoutingFails, Published,
              RoutingCleared, Detached, At
<1>3. ~At(k, "none")
  BY DEF At
<1>4. QED
  BY <1>1, <1>2, <1>3, BrWhoSteps

Retaining == {"setting", "syncing", "hosting", "binding", "publishing"}

\* A ticket in a slot is of a command under way only if that command has
\* taken it, for these two legs.
TicketsOwned ==
    \A j \in Jobs, x \in Parties : slot[x].ticket # 0 /\ slot[x].ticket = command[j].id =>
        /\ command[j].at \in Retaining /\ ~command[j].same
        /\ {x, slot[x].with} = {command[j].a, command[j].b}

LEMMA BrOwnStep ==
    ASSUME BridgingAssumption, BrTypes, BrNext, NEW k \in Jobs
    PROVE  \/ command'[k] = command[k]
           \/ command'[k].id \in {0, begun + 1}
           \/ command[k].at \notin Retaining /\ command'[k].id = command[k].id /\ ~Retained(k)
           \/ Retained(k)
           \/ /\ command[k].at \in Retaining /\ command'[k].at \in Retaining
              /\ command'[k].id = command[k].id /\ command'[k].same = command[k].same
              /\ command'[k].a = command[k].a /\ command'[k].b = command[k].b
<1>1. command \in [Jobs -> BrCommand] /\ command[k] \in BrCommand
  BY DEF BrTypes
<1>2. ASSUME Done(k)
      PROVE  command'[k].id = 0
  BY <1>1, <1>2 DEF Done, NoCommand
<1>3. ASSUME NEW stage \in Retaining, command[k].at \in Retaining, Goes(k, stage)
      PROVE  /\ command'[k].at \in Retaining
             /\ command'[k].id = command[k].id /\ command'[k].same = command[k].same
             /\ command'[k].a = command[k].a /\ command'[k].b = command[k].b
  BY <1>1, <1>3 DEF Goes, BrCommand
<1>4. CASE PeersSet(k) \/ SyncBegins(k) \/ Hosted(k) \/ BridgeBound(k)
  <2>1. command[k].at \in Retaining
    BY <1>4 DEF PeersSet, SyncBegins, Hosted, BridgeBound, At, Retaining
  <2>2. Goes(k, "syncing") \/ Goes(k, "hosting") \/ Goes(k, "binding") \/ Goes(k, "publishing")
    BY <1>4 DEF PeersSet, SyncBegins, Hosted, BridgeBound
  <2>3. QED
    BY <1>3, <2>1, <2>2 DEF Retaining
<1>5. CASE EndpointRefused(k) \/ RetentionRefused(k) \/ RoutingFails(k) \/ Published(k)
  BY <1>2, <1>5 DEF EndpointRefused, RetentionRefused, RoutingFails, Published, Over
<1>6. ASSUME NEW x \in Parties,
             EndpointEnsured(k, x) \/ Resynced(k) \/ RollbackBegins(k) \/ RoutingCleared(k)
                 \/ Detached(k)
      PROVE  /\ command[k].at \notin Retaining /\ ~Retained(k)
             /\ command'[k].id \in {0, command[k].id}
  <2>1. command[k].at \in {"ensuring", "resyncing", "detaching", "detached"}
    BY <1>6 DEF EndpointEnsured, Resynced, RollbackBegins, RoutingCleared, Detached, At
  <2>2. command[k].at \notin Retaining /\ ~Retained(k)
    BY <2>1 DEF Retaining, Retained, At
  <2>3. begun' = begun /\ BrCommandStep(k)
    BY <1>6, BrGoesOn
  <2>4. PICK c \in BrCommand : /\ command' = [command EXCEPT ![k] = c]
                               /\ c.id \in {0, command[k].id} \/ begun' = begun + 1
    BY <2>3 DEF BrCommandStep
  <2>5. command'[k] = c /\ begun \in Nat
    BY <1>1, <2>4 DEF BrTypes
  <2>6. QED
    BY <2>2, <2>3, <2>4, <2>5
<1>7. QED
  BY <1>4, <1>5, <1>6, BrWhoSteps

\* The two legs of a ticket name each other, and the ticket is held.
SlotsPaired ==
    \A x \in Parties : slot[x].ticket # 0 =>
        LET y == slot[x].with IN
        /\ slot[x].ticket \in held /\ y # x
        /\ (slot[y].ticket = slot[x].ticket /\ slot[y].with = x) \/ x \in Hit({"overwritten"})

\* A ticket that is held stands in a slot, unless one was overwritten.
HeldStands == \A t \in held : t \in Tickets(slot) \/ Hit({"overwritten"}) # {}

BrSlots == TicketsPaired /\ SlotsPaired /\ HeldStands

\* The slots after a bridge is retained.
LEMMA BrRetains ==
    ASSUME BridgingAssumption, BrTypes, TicketsOwned, NEW j \in Jobs, Retained(j), ~command[j].same
    PROVE  LET a == command[j].a  b == command[j].b  id == command[j].id IN
           /\ a \in Parties /\ b \in Parties /\ a # b /\ id # 0
           /\ \A x \in Parties : slot'[x] = IF x = a THEN [ticket |-> id, with |-> b]
                                            ELSE IF x = b THEN [ticket |-> id, with |-> a]
                                            ELSE slot[x]
           /\ held' = held \cup {id}
           /\ \A x \in Parties : slot[x].ticket # id
           /\ \A x \in {a, b} : slot[x].ticket # 0 =>
                  x \in Hit({"overwritten"})' /\ slot[x].with \in Hit({"overwritten"})'
<1> DEFINE a == command[j].a  b == command[j].b  id == command[j].id
<1>1. command[j].at = "activating"
  BY DEF Retained, At
<1>2. a \in Parties /\ b \in Parties /\ a # b /\ id # 0
  BY <1>1, BrPairLegs DEF BrPaired
<1>3. slot' = [slot EXCEPT ![a] = [ticket |-> id, with |-> b], ![b] = [ticket |-> id, with |-> a]]
  BY DEF Retained
<1>4. \A x \in Parties : slot'[x] = IF x = a THEN [ticket |-> id, with |-> b]
                                    ELSE IF x = b THEN [ticket |-> id, with |-> a]
                                    ELSE slot[x]
  BY <1>2, <1>3 DEF BrTypes
<1>5. \A x \in Parties : slot[x].ticket # id
  BY <1>1, <1>2 DEF TicketsOwned, Retaining
<1>6. ASSUME NEW x \in {a, b}, slot[x].ticket # 0
      PROVE  x \in Hit({"overwritten"})' /\ slot[x].with \in Hit({"overwritten"})'
  <2>1. x \in Parties /\ slot[x].with \in Parties /\ NoPeer \notin Parties
    BY <1>2, <1>6, BrSlotFacts DEF BridgingAssumption
  <2>2. {x, slot[x].with} \subseteq UNION {IF slot[y].ticket # 0 THEN {y, slot[y].with} ELSE {}
                                           : y \in {a, b}}
    BY <1>6
  <2>3. <<"overwritten", x>> \in brFlaws' /\ <<"overwritten", slot[x].with>> \in brFlaws'
    BY <2>1, <2>2 DEF Retained, Wrong
  <2>4. QED
    BY <2>3, BrHits
<1>7. held' = held \cup {id}
  BY DEF Retained
<1>8. QED
  BY <1>2, <1>4, <1>5, <1>6, <1>7

LEMMA BrSlotsKept ==
    ASSUME BridgingAssumption, BrTypes, TicketsOwned, BrSlots, BrNext
    PROVE  BrSlots'
<1>1. \A x \in Hit({"overwritten"}) : x \in Hit({"overwritten"})'
  BY BrHitGrows
<1>2. TicketsPaired /\ SlotsPaired /\ HeldStands
  BY DEF BrSlots
<1>3. CASE UNCHANGED <<slot, held>>
  <2>1. Tickets(slot') = Tickets(slot)
    BY <1>3 DEF Tickets
  <2>2. TicketsPaired' /\ SlotsPaired'
    BY <1>1, <1>2, <1>3 DEF TicketsPaired, SlotsPaired
  <2>3. HeldStands'
    BY <1>1, <1>2, <1>3, <2>1 DEF HeldStands
  <2>4. QED
    BY <2>2, <2>3 DEF BrSlots
<1>4. ASSUME NEW F, Frees(F)
      PROVE  BrSlots'
  <2>1. \A x \in Parties : slot'[x] = IF x \in F THEN NoTicket ELSE slot[x]
    BY <1>4 DEF Frees
  <2>2. NoTicket.ticket = 0
    BY DEF NoTicket
  <2>3. \A x \in Parties : slot'[x].ticket # 0 => x \notin F /\ slot'[x] = slot[x]
    BY <2>1, <2>2
  <2>4. \A x \in F, y \in Parties : slot[y].ticket = slot[x].ticket => y \in F
    BY <1>4 DEF Frees
  <2>5. TicketsPaired'
    BY <1>2, <2>3 DEF TicketsPaired
  <2>6. ASSUME NEW x \in Parties, slot'[x].ticket # 0
        PROVE  LET y == slot'[x].with IN
               /\ slot'[x].ticket \in held' /\ y # x
               /\ (slot'[y].ticket = slot'[x].ticket /\ slot'[y].with = x) \/ x \in Hit({"overwritten"})'
    <3> DEFINE y == slot[x].with
    <3>1. x \notin F /\ slot'[x] = slot[x] /\ slot[x].ticket # 0
      BY <2>3, <2>6
    <3>2. y \in Parties
      BY <3>1, BrSlotFacts
    <3>3. /\ slot[x].ticket \in held /\ y # x
          /\ (slot[y].ticket = slot[x].ticket /\ slot[y].with = x) \/ x \in Hit({"overwritten"})
      BY <1>2, <3>1 DEF SlotsPaired
    <3>4. slot[x].ticket \in Tickets(slot')
      BY <3>1 DEF Tickets
    <3>5. slot[x].ticket \in held'
      BY <1>4, <3>3, <3>4 DEF Frees
    <3>6. slot[y].ticket = slot[x].ticket => slot'[y] = slot[y]
      BY <2>1, <2>4, <3>1, <3>2
    <3>7. QED
      BY <1>1, <3>1, <3>3, <3>5, <3>6
  <2>7. HeldStands'
    BY <1>1, <1>2, <1>4 DEF HeldStands, Frees
  <2>8. QED
    BY <2>5, <2>6, <2>7 DEF BrSlots, SlotsPaired
<1>5. ASSUME NEW j \in Jobs, Retained(j), ~command[j].same
      PROVE  BrSlots'
  <2> DEFINE a == command[j].a  b == command[j].b  id == command[j].id
  <2>1. /\ a \in Parties /\ b \in Parties /\ a # b /\ id # 0
        /\ \A x \in Parties : slot'[x] = IF x = a THEN [ticket |-> id, with |-> b]
                                         ELSE IF x = b THEN [ticket |-> id, with |-> a]
                                         ELSE slot[x]
        /\ held' = held \cup {id}
        /\ \A x \in Parties : slot[x].ticket # id
        /\ \A x \in {a, b} : slot[x].ticket # 0 =>
               x \in Hit({"overwritten"})' /\ slot[x].with \in Hit({"overwritten"})'
    BY <1>5, BrRetains
  <2> HIDE DEF a, b, id
  <2>2. TicketsPaired'
    <3>1. SUFFICES ASSUME NEW x \in Parties, NEW y \in Parties, x # y, slot'[x].ticket # 0,
                          slot'[x].ticket = slot'[y].ticket
                   PROVE  slot'[x].with = y /\ slot'[y].with = x
      BY DEF TicketsPaired
    <3>2. CASE x \in {a, b}
      <4>1. y \in {a, b}
        BY <2>1, <3>1, <3>2
      <4>2. QED
        BY <2>1, <3>1, <3>2, <4>1
    <3>3. CASE x \notin {a, b}
      <4>1. slot'[x] = slot[x] /\ y \notin {a, b}
        BY <2>1, <3>1, <3>3
      <4>2. slot'[y] = slot[y]
        BY <2>1, <4>1
      <4>3. QED
        BY <1>2, <3>1, <4>1, <4>2 DEF TicketsPaired
    <3>4. QED
      BY <3>2, <3>3
  <2>3. ASSUME NEW x \in Parties, slot'[x].ticket # 0
        PROVE  LET y == slot'[x].with IN
               /\ slot'[x].ticket \in held' /\ y # x
               /\ (slot'[y].ticket = slot'[x].ticket /\ slot'[y].with = x) \/ x \in Hit({"overwritten"})'
    <3>1. CASE x \in {a, b}
      BY <2>1, <3>1
    <3>2. CASE x \notin {a, b}
      <4> DEFINE y == slot[x].with
      <4>1. slot'[x] = slot[x] /\ slot[x].ticket # 0
        BY <2>1, <2>3, <3>2
      <4>2. y \in Parties
        BY <4>1, BrSlotFacts
      <4>3. /\ slot[x].ticket \in held /\ y # x
            /\ (slot[y].ticket = slot[x].ticket /\ slot[y].with = x) \/ x \in Hit({"overwritten"})
        BY <1>2, <4>1 DEF SlotsPaired
      <4> HIDE DEF y
      <4>4. slot[y].ticket = slot[x].ticket /\ slot[y].with = x /\ y \in {a, b}
                => x \in Hit({"overwritten"})'
        BY <2>1, <4>1, <4>2
      <4>5. y \notin {a, b} => slot'[y] = slot[y]
        BY <2>1, <4>2
      <4>6. QED
        BY <1>1, <2>1, <4>1, <4>3, <4>4, <4>5 DEF y
    <3>3. QED
      BY <3>1, <3>2
  <2>4. ASSUME NEW t \in held', Hit({"overwritten"})' = {}
        PROVE  t \in Tickets(slot')
    <3>1. CASE t = id
      <4>1. slot'[a].ticket = id
        BY <2>1
      <4>2. QED
        BY <2>1, <3>1, <4>1 DEF Tickets
    <3>2. CASE t # id
      <4>1. t \in held /\ t # 0
        BY <2>1, <2>4, <3>2 DEF BrTypes
      <4>2. PICK x \in Parties : slot[x].ticket = t
        BY <1>1, <1>2, <2>4, <4>1 DEF HeldStands, Tickets
      <4>3. x \notin {a, b}
        BY <2>1, <2>4, <4>1, <4>2
      <4>4. slot'[x].ticket = t
        BY <2>1, <4>2, <4>3
      <4>5. QED
        BY <4>4 DEF Tickets
    <3>3. QED
      BY <3>1, <3>2
  <2>5. QED
    BY <2>2, <2>3, <2>4 DEF BrSlots, SlotsPaired, HeldStands
<1>6. QED
  BY <1>2, <1>3, <1>4, <1>5, BrSlotStep

LEMMA BrOwnersKept ==
    ASSUME BridgingAssumption, BrTypes, TicketsPaired, TicketsOwned, BrNext
    PROVE  TicketsOwned'
<1>1. SUFFICES ASSUME NEW k \in Jobs, NEW x \in Parties, slot'[x].ticket # 0,
                      slot'[x].ticket = command'[k].id
               PROVE  /\ command'[k].at \in Retaining /\ ~command'[k].same
                      /\ {x, slot'[x].with} = {command'[k].a, command'[k].b}
  BY DEF TicketsOwned
<1>2. slot[x].ticket # 0 => slot[x].ticket # begun + 1
  <2>1. slot[x].ticket # 0 => slot[x].ticket \in 1 .. begun
    BY BrSlotFacts
  <2>2. begun \in Nat
    BY DEF BrTypes
  <2>3. QED
    BY <2>1, <2>2
<1>3. ASSUME slot'[x] = slot[x], ~(Retained(k) /\ ~command[k].same)
      PROVE  /\ command'[k].at \in Retaining /\ ~command'[k].same
             /\ {x, slot'[x].with} = {command'[k].a, command'[k].b}
  <2>1. CASE command'[k] = command[k]
    <3>1. slot[x].ticket # 0 /\ slot[x].ticket = command[k].id
      BY <1>1, <1>3, <2>1
    <3>2. /\ command[k].at \in Retaining /\ ~command[k].same
          /\ {x, slot[x].with} = {command[k].a, command[k].b}
      BY <3>1 DEF TicketsOwned
    <3>3. QED
      BY <1>3, <2>1, <3>2
  <2>2. CASE command'[k].id \in {0, begun + 1}
    BY <1>1, <1>2, <1>3, <2>2
  <2>3. CASE command[k].at \notin Retaining /\ command'[k].id = command[k].id
    BY <1>1, <1>3, <2>3 DEF TicketsOwned
  <2>4. CASE Retained(k)
    <3>1. command[k].at \notin Retaining
      BY <2>4 DEF Retained, At, Retaining
    <3>2. command'[k].id = command[k].id
      BY <2>4 DEF Retained, BrTypes, BrCommand
    <3>3. QED
      BY <2>3, <3>1, <3>2
  <2>5. CASE /\ command[k].at \in Retaining /\ command'[k].at \in Retaining
             /\ command'[k].id = command[k].id /\ command'[k].same = command[k].same
             /\ command'[k].a = command[k].a /\ command'[k].b = command[k].b
    BY <1>1, <1>3, <2>5 DEF TicketsOwned
  <2>6. QED
    BY <2>1, <2>2, <2>3, <2>4, <2>5, BrOwnStep
<1>4. CASE UNCHANGED <<slot, held>>
  <2>1. CASE Retained(k) /\ ~command[k].same
    <3>1. \A y \in Parties : slot[y].ticket # command[k].id
      BY <2>1, BrRetains
    <3>2. command'[k].id = command[k].id
      BY <2>1 DEF Retained, BrTypes, BrCommand
    <3>3. QED
      BY <1>1, <1>4, <3>1, <3>2
  <2>2. QED
    BY <1>3, <1>4, <2>1
<1>5. ASSUME NEW xs \in SUBSET Parties, Frees(FreedBy(xs))
      PROVE  slot'[x] = slot[x]
  <2>1. slot'[x] \in {NoTicket, slot[x]}
    BY <1>5 DEF Frees
  <2>2. NoTicket.ticket = 0
    BY DEF NoTicket
  <2>3. QED
    BY <1>1, <2>1, <2>2
<1>6. ASSUME NEW xs \in SUBSET Parties, Frees(FreedBy(xs)), Retained(k), ~command[k].same
      PROVE  FALSE
  <2>1. \A y \in Parties : slot[y].ticket # command[k].id
    BY <1>6, BrRetains
  <2>2. command'[k].id = command[k].id
    BY <1>6 DEF Retained, BrTypes, BrCommand
  <2>3. QED
    BY <1>1, <1>5, <1>6, <2>1, <2>2
<1>7. ASSUME NEW j \in Jobs, Retained(j), ~command[j].same
      PROVE  /\ command'[k].at \in Retaining /\ ~command'[k].same
             /\ {x, slot'[x].with} = {command'[k].a, command'[k].b}
  <2> DEFINE a == command[j].a  b == command[j].b  id == command[j].id
  <2>1. /\ a \in Parties /\ b \in Parties /\ a # b /\ id # 0
        /\ \A y \in Parties : slot'[y] = IF y = a THEN [ticket |-> id, with |-> b]
                                         ELSE IF y = b THEN [ticket |-> id, with |-> a]
                                         ELSE slot[y]
        /\ \A y \in Parties : slot[y].ticket # id
    BY <1>7, BrRetains
  <2>2. /\ command'[j].at = "setting" /\ command'[j].id = id /\ command'[j].a = a
        /\ command'[j].b = b /\ ~command'[j].same
        /\ \A m \in Jobs : m # j => command'[m] = command[m]
    BY <1>7 DEF Retained, BrTypes, BrCommand
  <2> HIDE DEF a, b, id
  <2>3. CASE k = j
    <3>1. x \in {a, b}
      BY <1>1, <2>1, <2>2, <2>3
    <3>2. {x, slot'[x].with} = {a, b}
      BY <2>1, <3>1
    <3>3. QED
      BY <2>2, <2>3, <3>2 DEF Retaining
  <2>4. CASE k # j
    <3>1. x \notin {a, b}
      <4>1. command[k].id = id => id = 0
        BY <2>4 DEF BrTypes, id
      <4>2. QED
        BY <1>1, <2>1, <2>2, <2>4, <4>1
    <3>2. slot'[x] = slot[x] /\ command'[k] = command[k]
      BY <2>1, <2>2, <2>4, <3>1
    <3>3. QED
      BY <1>1, <3>2 DEF TicketsOwned
  <2>5. QED
    BY <2>3, <2>4
<1>8. QED
  BY <1>3, <1>4, <1>5, <1>6, <1>7, BrSlotStep

\* A command is about to set the peers of this leg.
Setting(x) == \E k \in Jobs : At(k, "setting") /\ x \in {command[k].a, command[k].b}
\* It is the one whose ticket the leg has.
SlotSetting(x) ==
    \E k \in Jobs : /\ At(k, "setting") /\ slot[x].ticket = command[k].id
                    /\ {x, slot[x].with} = {command[k].a, command[k].b}

\* What undoes a bridge.
Undone == Halved \cup {"unreleased", "swept"}

\* A leg with a ticket is bridged with the other leg of the ticket, or will be.
SlotsBridge ==
    \A x \in Parties : slot[x].ticket # 0 =>
        peer[x] = slot[x].with \/ x \in Hit(Undone) \/ SlotSetting(x)

\* A bridged leg has a ticket, or somebody is about to bridge it again.
BridgesTicketed ==
    \A x \in Parties : peer[x] # NoPeer =>
        slot[x].ticket # 0 \/ x \in Hit(Undone \cup {"unheld", "stolen"}) \/ Setting(x)

LEMMA BrSettersStay ==
    ASSUME BridgingAssumption, BrTypes, BrNext, ~\E j \in Jobs : PeersSet(j)
    PROVE  /\ \A x \in Parties : Setting(x) => Setting(x)'
           /\ \A x \in Parties : SlotSetting(x) /\ slot'[x] = slot[x] => SlotSetting(x)'
<1>1. \A k \in Jobs : At(k, "setting") => command'[k] = command[k]
  BY BrSettersWait
<1>2. QED
  BY <1>1 DEF Setting, SlotSetting, At

\* Peers are deleted, and the tickets of some of these legs released: of all
\* but one at least, so that no two of them are left with a ticket.
LEMMA BrClears ==
    ASSUME BridgingAssumption, BrTypes, BrSlots, SlotsBridge, BridgesTicketed, BrNext,
           ~\E j \in Jobs : PeersSet(j),
           NEW C \in SUBSET Parties, NEW R \in SUBSET C, Frees(FreedBy(R)),
           \A x, y \in C : x # y => x \in R \/ y \in R,
           peer' = [y \in Parties |-> IF y \in C THEN NoPeer ELSE peer[y]],
           \A y \in Torn(C) : <<"torn", y>> \in brFlaws'
    PROVE  SlotsBridge' /\ BridgesTicketed'
<1> DEFINE Hurt == Undone \cup {"unheld", "stolen"}
<1>1. /\ \A x \in Hit(Undone) : x \in Hit(Undone)'
      /\ \A x \in Hit(Hurt) : x \in Hit(Hurt)'
  BY BrHitGrows
<1>2. \A x : <<"torn", x>> \in brFlaws' => x \in Hit(Undone)' /\ x \in Hit(Hurt)'
  BY BrHits DEF Undone, Halved
<1>3. Undone \subseteq Hurt
  OBVIOUS
<1>4. \A x \in Hit(Undone) : x \in Hit(Hurt)
  BY <1>3, BrHitMore
<1> HIDE DEF Hurt
<1>5. \A x \in Parties : slot'[x] = IF x \in FreedBy(R) THEN NoTicket ELSE slot[x]
  BY DEF Frees
<1>6. NoTicket.ticket = 0 /\ NoPeer \notin Parties
  BY DEF NoTicket, BridgingAssumption
<1>7. ASSUME NEW x \in Parties, slot'[x].ticket # 0
      PROVE  peer'[x] = slot'[x].with \/ x \in Hit(Undone)' \/ SlotSetting(x)'
  <2>1. x \notin FreedBy(R) /\ slot'[x] = slot[x] /\ slot[x].ticket # 0
    BY <1>5, <1>6, <1>7
  <2>2. CASE x \in Hit(Undone) \/ SlotSetting(x)
    BY <1>1, <2>1, <2>2, BrSettersStay
  <2>3. CASE peer[x] = slot[x].with
    <3> DEFINE z == slot[x].with
    <3>1. z \in Parties /\ z # x /\ z # NoPeer
      BY <1>6, <2>1, BrSlotFacts DEF BrSlots, SlotsPaired
    <3>2. CASE x \notin C
      BY <2>1, <2>3, <3>2
    <3>3. CASE x \in C /\ z \notin C
      <4>1. x \in Torn(C)
        BY <2>3, <3>1, <3>3 DEF Torn
      <4>2. QED
        BY <1>2, <4>1
    <3>4. CASE x \in C /\ z \in C
      <4>1. x \notin R
        BY <2>1 DEF FreedBy
      <4>2. z \in R
        BY <3>1, <3>4, <4>1
      <4>3. slot[z].ticket # slot[x].ticket
        BY <2>1, <4>2 DEF FreedBy
      <4>4. x \in Hit({"overwritten"})
        BY <2>1, <4>3 DEF BrSlots, SlotsPaired
      <4>5. x \in Hit(Undone)
        BY <4>4, BrHitMore DEF Undone, Halved
      <4>6. QED
        BY <1>1, <4>5
    <3>5. QED
      BY <3>2, <3>3, <3>4
  <2>4. QED
    BY <2>1, <2>2, <2>3 DEF SlotsBridge
<1>8. ASSUME NEW x \in Parties, peer'[x] # NoPeer
      PROVE  slot'[x].ticket # 0 \/ x \in Hit(Hurt)' \/ Setting(x)'
  <2>1. x \notin C /\ peer'[x] = peer[x]
    BY <1>8
  <2>2. CASE slot[x].ticket = 0
    <3>1. x \in Hit(Hurt) \/ Setting(x)
      BY <1>8, <2>1, <2>2 DEF BridgesTicketed, Hurt
    <3>2. QED
      BY <1>1, <3>1, BrSettersStay
  <2>3. CASE slot[x].ticket # 0 /\ x \notin FreedBy(R)
    BY <1>5, <2>3
  <2>4. CASE slot[x].ticket # 0 /\ x \in FreedBy(R)
    <3>1. slot[x].with \in C
      BY <2>1, <2>4 DEF FreedBy
    <3>2. CASE peer[x] = slot[x].with
      <4>1. x \in Torn(C)
        BY <1>8, <2>1, <3>1, <3>2 DEF Torn
      <4>2. QED
        BY <1>2, <4>1
    <3>3. CASE x \in Hit(Undone)
      BY <1>1, <1>4, <3>3
    <3>4. CASE SlotSetting(x)
      <4>1. Setting(x)
        BY <3>4 DEF SlotSetting, Setting
      <4>2. QED
        BY <4>1, BrSettersStay
    <3>5. QED
      BY <2>4, <3>2, <3>3, <3>4 DEF SlotsBridge
  <2>5. QED
    BY <2>2, <2>3, <2>4
<1>9. QED
  BY <1>7, <1>8 DEF SlotsBridge, BridgesTicketed, Hurt

\* Peers are deleted, the tickets are kept, and the legs are noted.
LEMMA BrClearsOnly ==
    ASSUME BridgingAssumption, BrTypes, SlotsBridge, BridgesTicketed, BrNext,
           ~\E j \in Jobs : PeersSet(j), slot' = slot, NEW C \in SUBSET Parties,
           peer' = [y \in Parties |-> IF y \in C THEN NoPeer ELSE peer[y]],
           \A x \in C : slot[x].ticket # 0 =>
               x \in Hit(Undone)' \/ peer[x] # slot[x].with
    PROVE  SlotsBridge' /\ BridgesTicketed'
<1> DEFINE Hurt == Undone \cup {"unheld", "stolen"}
<1>1. /\ \A x \in Hit(Undone) : x \in Hit(Undone)'
      /\ \A x \in Hit(Hurt) : x \in Hit(Hurt)'
  BY BrHitGrows
<1>2. ASSUME NEW x \in Parties, slot[x].ticket # 0
      PROVE  peer'[x] = slot[x].with \/ x \in Hit(Undone)' \/ SlotSetting(x)'
  <2>1. CASE x \in Hit(Undone) \/ SlotSetting(x)
    BY <1>1, <2>1, BrSettersStay
  <2>2. CASE peer[x] = slot[x].with
    BY <1>2, <2>2
  <2>3. QED
    BY <1>2, <2>1, <2>2 DEF SlotsBridge
<1>3. ASSUME NEW x \in Parties, peer'[x] # NoPeer
      PROVE  slot[x].ticket # 0 \/ x \in Hit(Hurt)' \/ Setting(x)'
  <2>1. peer[x] # NoPeer
    BY <1>3
  <2>2. QED
    BY <1>1, <2>1, BrSettersStay DEF BridgesTicketed
<1>4. QED
  BY <1>2, <1>3 DEF SlotsBridge, BridgesTicketed

LEMMA BrBridgesStill ==
    ASSUME BridgingAssumption, BrTypes, SlotsBridge, BridgesTicketed, BrNext,
           ~\E j \in Jobs : PeersSet(j), peer' = peer,
           \A x \in Parties : slot'[x] = slot[x] \/ (SlotSetting(x) /\ Setting(x))'
    PROVE  SlotsBridge' /\ BridgesTicketed'
<1> DEFINE Hurt == Undone \cup {"unheld", "stolen"}
<1>1. /\ \A x \in Hit(Undone) : x \in Hit(Undone)'
      /\ \A x \in Hit(Hurt) : x \in Hit(Hurt)'
  BY BrHitGrows
<1>2. /\ \A x \in Parties : Setting(x) => Setting(x)'
      /\ \A x \in Parties : SlotSetting(x) /\ slot'[x] = slot[x] => SlotSetting(x)'
  BY BrSettersStay
<1>3. ASSUME NEW x \in Parties, slot'[x].ticket # 0
      PROVE  peer'[x] = slot'[x].with \/ x \in Hit(Undone)' \/ SlotSetting(x)'
  <2>1. CASE slot'[x] = slot[x]
    BY <1>1, <1>2, <1>3, <2>1 DEF SlotsBridge
  <2>2. QED
    BY <2>1
<1>4. ASSUME NEW x \in Parties, peer'[x] # NoPeer
      PROVE  slot'[x].ticket # 0 \/ x \in Hit(Hurt)' \/ Setting(x)'
  <2>1. CASE slot'[x] = slot[x]
    BY <1>1, <1>2, <1>4, <2>1 DEF BridgesTicketed
  <2>2. QED
    BY <2>1
<1>5. QED
  BY <1>3, <1>4 DEF SlotsBridge, BridgesTicketed

LEMMA BrBridgesRetained ==
    ASSUME BridgingAssumption, BrTypes, TicketsOwned, SlotsBridge, BridgesTicketed, BrNext,
           ~\E j \in Jobs : PeersSet(j), NEW j \in Jobs, Retained(j)
    PROVE  SlotsBridge' /\ BridgesTicketed'
<1>1. peer' = peer
  BY DEF Retained
<1>2. CASE command[j].same
  BY <1>1, <1>2, BrBridgesStill DEF Retained
<1>3. CASE ~command[j].same
  <2> DEFINE a == command[j].a  b == command[j].b  id == command[j].id
  <2>1. /\ a \in Parties /\ b \in Parties /\ a # b
        /\ \A x \in Parties : slot'[x] = IF x = a THEN [ticket |-> id, with |-> b]
                                         ELSE IF x = b THEN [ticket |-> id, with |-> a]
                                         ELSE slot[x]
    BY <1>3, BrRetains
  <2>2. /\ command'[j].at = "setting" /\ command'[j].id = id
        /\ command'[j].a = a /\ command'[j].b = b
    BY DEF Retained, BrTypes, BrCommand
  <2> HIDE DEF a, b, id
  <2>3. ASSUME NEW x \in {a, b}
        PROVE  (SlotSetting(x) /\ Setting(x))'
    <3>1. slot'[x].ticket = id /\ {x, slot'[x].with} = {a, b}
      BY <2>1
    <3>2. QED
      BY <2>2, <3>1 DEF SlotSetting, Setting, At
  <2>4. \A x \in Parties : slot'[x] = slot[x] \/ (SlotSetting(x) /\ Setting(x))'
    BY <2>1, <2>3
  <2>5. QED
    BY <1>1, <2>4, BrBridgesStill
<1>4. QED
  BY <1>2, <1>3

LEMMA BrBridgesSet ==
    ASSUME BridgingAssumption, BrTypes, BrSlots, SlotsBridge, BridgesTicketed, BrNext,
           NEW j \in Jobs, PeersSet(j)
    PROVE  SlotsBridge' /\ BridgesTicketed'
<1> DEFINE Hurt == Undone \cup {"unheld", "stolen"}
           a == command[j].a  b == command[j].b
<1>1. /\ \A x \in Hit(Undone) : x \in Hit(Undone)'
      /\ \A x \in Hit(Hurt) : x \in Hit(Hurt)'
  BY BrHitGrows
<1>2. a \in Parties /\ b \in Parties /\ a # b /\ NoPeer \notin Parties
  BY BrPairLegs DEF PeersSet, At, BrPaired, BridgingAssumption
<1>3. /\ \A x \in Torn({a, b}) : <<"overwritten", x>> \in brFlaws'
      /\ \A x \in {a, b} : slot[x].ticket = 0 => <<"unheld", x>> \in brFlaws'
      /\ slot' = slot
  BY DEF PeersSet
<1>4. \A x : <<"overwritten", x>> \in brFlaws' => x \in Hit(Undone)'
  BY BrHits DEF Undone, Halved
<1>5. \A x : <<"unheld", x>> \in brFlaws' => x \in Hit(Hurt)'
  BY BrHits
<1>6. \A x \in Parties : peer'[x] = IF x = a THEN b ELSE IF x = b THEN a ELSE peer[x]
  BY <1>2 DEF PeersSet, BrTypes
<1>7. \A k \in Jobs : k # j => command'[k] = command[k]
  BY DEF PeersSet, Goes, BrTypes
<1>8. ASSUME NEW x \in Parties, SlotSetting(x), {x, slot[x].with} # {a, b}
      PROVE  SlotSetting(x)'
  BY <1>3, <1>7, <1>8 DEF SlotSetting, At
<1>9. ASSUME NEW x \in Parties, Setting(x), x \notin {a, b}
      PROVE  Setting(x)'
  BY <1>7, <1>9 DEF Setting, At
<1> HIDE DEF a, b, Hurt
<1>10. ASSUME NEW x \in Parties, slot[x].ticket # 0
       PROVE  peer'[x] = slot[x].with \/ x \in Hit(Undone)' \/ SlotSetting(x)'
  <2>1. CASE x \notin {a, b}
    BY <1>1, <1>6, <1>8, <1>10, <2>1 DEF SlotsBridge
  <2>2. CASE x \in {a, b} /\ {x, slot[x].with} = {a, b}
    BY <1>2, <1>6, <2>2
  <2>3. CASE x \in {a, b} /\ {x, slot[x].with} # {a, b}
    <3>1. slot[x].with \in Parties /\ slot[x].with # x
      BY <1>10, BrSlotFacts DEF BrSlots, SlotsPaired
    <3>2. slot[x].with \notin {a, b}
      BY <2>3, <3>1
    <3>3. peer[x] = slot[x].with => x \in Torn({a, b})
      BY <1>2, <2>3, <3>1, <3>2 DEF Torn
    <3>4. QED
      BY <1>1, <1>3, <1>4, <1>8, <1>10, <2>3, <3>3 DEF SlotsBridge
  <2>4. QED
    BY <2>1, <2>2, <2>3
<1>11. ASSUME NEW x \in Parties, peer'[x] # NoPeer
       PROVE  slot[x].ticket # 0 \/ x \in Hit(Hurt)' \/ Setting(x)'
  <2>1. CASE x \notin {a, b}
    BY <1>1, <1>6, <1>9, <1>11, <2>1 DEF BridgesTicketed, Hurt
  <2>2. CASE x \in {a, b}
    BY <1>3, <1>5, <2>2
  <2>3. QED
    BY <2>1, <2>2
<1>12. QED
  BY <1>3, <1>10, <1>11 DEF SlotsBridge, BridgesTicketed, Hurt

LEMMA BrBridgesFail ==
    ASSUME BridgingAssumption, BrTypes, BrSlots, TicketsOwned, SlotsBridge, BridgesTicketed, BrNext,
           ~\E j \in Jobs : PeersSet(j), NEW j \in Jobs, RoutingFails(j)
    PROVE  SlotsBridge' /\ BridgesTicketed'
<1> DEFINE Hurt == Undone \cup {"unheld", "stolen"}
           a == command[j].a  b == command[j].b  id == command[j].id
<1>1. /\ \A x \in Hit(Undone) : x \in Hit(Undone)'
      /\ \A x \in Hit(Hurt) : x \in Hit(Hurt)'
  BY BrHitGrows
<1>2. a \in Parties /\ b \in Parties /\ a # b /\ id # 0 /\ NoPeer \notin Parties
  BY BrPairLegs DEF RoutingFails, At, BrPaired, BridgingAssumption
<1>3. \A x \in {a, b} : x \in Hit(Undone)' /\ x \in Hit(Hurt)'
  <2>1. \A x \in {a, b} : <<"muted", x>> \in brFlaws'
    BY <1>2 DEF RoutingFails
  <2>2. QED
    BY <2>1, BrHits DEF Undone, Halved
<1>4. \A x \in Parties : x \notin {a, b} => peer'[x] = peer[x]
  BY <1>2 DEF RoutingFails, BrTypes
<1>5. /\ \A x \in Parties : slot'[x] \in {NoTicket, slot[x]}
      /\ \A x \in Parties : slot'[x] # slot[x] => ~command[j].same /\ x \in FreedBy({a})
  <2>1. CASE slot' = slot
    BY <2>1
  <2>2. CASE slot' # slot
    <3>1. ~command[j].same /\ GivesBack(ReleaseSlots({a}, slot))
      BY <1>2, <2>2, BrReleaseOne DEF RoutingFails
    <3>2. Frees(FreedBy({a}))
      BY <1>2, <3>1, BrReleaseFrees DEF BrSlots
    <3>3. QED
      BY <3>1, <3>2 DEF Frees
  <2>3. QED
    BY <2>1, <2>2
<1>6. NoTicket.ticket = 0
  BY DEF NoTicket
<1>7. ASSUME NEW x \in Parties, x \notin {a, b}, slot'[x] # slot[x]
      PROVE  x \in Hit(Hurt)'
  <2>1. slot[x].with = a /\ slot[a].ticket = slot[x].ticket /\ slot[x].ticket # 0
    BY <1>5, <1>7 DEF FreedBy
  <2>2. slot[a].with = x
    BY <1>2, <1>7, <2>1 DEF BrSlots, TicketsPaired
  <2>3. slot[a].ticket # id
    BY <1>2, <1>7, <2>1, <2>2 DEF TicketsOwned
  <2>4. <<"stolen", x>> \in Stolen(a, id)
    BY <2>1, <2>2, <2>3 DEF Stolen
  <2>5. <<"stolen", x>> \in brFlaws'
    BY <1>5, <1>7, <2>4 DEF RoutingFails
  <2>6. QED
    BY <2>5, BrHits
<1> HIDE DEF a, b, id, Hurt
<1>8. ASSUME NEW x \in Parties, slot'[x].ticket # 0
      PROVE  peer'[x] = slot'[x].with \/ x \in Hit(Undone)' \/ SlotSetting(x)'
  <2>1. slot'[x] = slot[x]
    BY <1>5, <1>6, <1>8
  <2>2. QED
    BY <1>1, <1>3, <1>4, <1>8, <2>1, BrSettersStay DEF SlotsBridge
<1>9. ASSUME NEW x \in Parties, peer'[x] # NoPeer
      PROVE  slot'[x].ticket # 0 \/ x \in Hit(Hurt)' \/ Setting(x)'
  <2>1. CASE x \in {a, b} \/ slot'[x] # slot[x]
    BY <1>3, <1>7, <2>1
  <2>2. CASE x \notin {a, b} /\ slot'[x] = slot[x]
    BY <1>1, <1>4, <1>9, <2>2, BrSettersStay DEF BridgesTicketed, Hurt
  <2>3. QED
    BY <2>1, <2>2
<1>10. QED
  BY <1>8, <1>9 DEF SlotsBridge, BridgesTicketed, Hurt

LEMMA BrBridgesPublished ==
    ASSUME BridgingAssumption, BrTypes, BrSlots, TicketsOwned, LeaversAlone, SlotsBridge,
           BridgesTicketed, BrNext, ~\E j \in Jobs : PeersSet(j), NEW j \in Jobs, Published(j)
    PROVE  SlotsBridge' /\ BridgesTicketed'
<1> DEFINE Hurt == Undone \cup {"unheld", "stolen"}
           a == command[j].a  b == command[j].b  id == command[j].id
<1>1. /\ \A x \in Hit(Undone) : x \in Hit(Undone)'
      /\ \A x \in Hit(Hurt) : x \in Hit(Hurt)'
  BY BrHitGrows
<1>2. a \in Parties /\ b \in Parties /\ a # b /\ id # 0 /\ NoPeer \notin Parties
  BY BrPairLegs DEF Published, At, BrPaired, BridgingAssumption
<1>3. peer' = peer
  BY DEF Published
<1>4. /\ \A x \in Parties : slot'[x] \in {NoTicket, slot[x]}
      /\ \A x \in Parties : slot'[x] # slot[x] =>
            /\ x \in FreedBy({a}) /\ (~Known(a) \/ ~Known(b))
            /\ Stolen(a, id) \subseteq brFlaws'
  <2>1. CASE slot' = slot
    BY <2>1
  <2>2. CASE slot' # slot
    <3>1. /\ ~Known(a) \/ ~Known(b)
          /\ GivesBack(ReleaseSlots({a}, slot)) /\ Stolen(a, id) \subseteq brFlaws'
      BY <1>2, <2>2, BrReleaseOne DEF Published
    <3>2. Frees(FreedBy({a}))
      BY <1>2, <3>1, BrReleaseFrees DEF BrSlots
    <3>3. QED
      BY <3>1, <3>2 DEF Frees
  <2>3. QED
    BY <2>1, <2>2
<1>5. NoTicket.ticket = 0
  BY DEF NoTicket
<1>6. ASSUME NEW x \in Parties, slot'[x] # slot[x], peer[x] # NoPeer
      PROVE  x \in Hit(Hurt)'
  <2>1. slot[x].ticket # 0 /\ slot[a].ticket = slot[x].ticket /\ x \in {a, slot[a].with}
    <3>1. /\ slot[x].ticket # 0
          /\ x = a \/ (slot[x].with = a /\ slot[a].ticket = slot[x].ticket)
      BY <1>4, <1>6 DEF FreedBy
    <3>2. CASE x = a
      BY <3>1, <3>2
    <3>3. CASE x # a
      <4>1. slot[a].with = x
        BY <1>2, <3>1, <3>3 DEF BrSlots, TicketsPaired
      <4>2. QED
        BY <3>1, <3>3, <4>1
    <3>4. QED
      BY <3>2, <3>3
  <2>2. CASE slot[a].ticket # id
    <3>1. <<"stolen", x>> \in Stolen(a, id)
      BY <2>1, <2>2 DEF Stolen
    <3>2. <<"stolen", x>> \in brFlaws'
      BY <1>4, <1>6, <3>1
    <3>3. QED
      BY <3>2, BrHits
  <2>3. CASE slot[a].ticket = id
    <3>1. {x, slot[x].with} = {a, b}
      BY <1>2, <2>1, <2>3 DEF TicketsOwned
    <3>2. ~SlotSetting(x)
      <4>1. SUFFICES ASSUME NEW k \in Jobs, At(k, "setting"), slot[x].ticket = command[k].id
                     PROVE  FALSE
        BY DEF SlotSetting
      <4>2. command[k].id = command[j].id /\ command[k].id # 0
        BY <1>2, <2>1, <2>3, <4>1
      <4>3. k = j
        BY <4>2 DEF BrTypes
      <4>4. QED
        BY <4>1, <4>3 DEF At, Published
    <3>3. CASE peer[x] = slot[x].with
      <4>1. ~Known(a) \/ ~Known(b)
        BY <1>4, <1>6
      <4>2. x \in Hit(Halved)
        BY <1>2, <1>6, <3>1, <3>3, <4>1 DEF LeaversAlone, Known
      <4>3. x \in Hit(Hurt)
        BY <4>2, BrHitMore DEF Undone
      <4>4. QED
        BY <1>1, <4>3
    <3>4. CASE x \in Hit(Undone)
      <4>1. x \in Hit(Hurt)
        BY <3>4, BrHitMore
      <4>2. QED
        BY <1>1, <4>1
    <3>5. QED
      BY <2>1, <3>2, <3>3, <3>4 DEF SlotsBridge
  <2>4. QED
    BY <2>2, <2>3
<1> HIDE DEF a, b, id, Hurt
<1>7. ASSUME NEW x \in Parties, slot'[x].ticket # 0
      PROVE  peer'[x] = slot'[x].with \/ x \in Hit(Undone)' \/ SlotSetting(x)'
  <2>1. slot'[x] = slot[x]
    BY <1>4, <1>5, <1>7
  <2>2. QED
    BY <1>1, <1>3, <1>7, <2>1, BrSettersStay DEF SlotsBridge
<1>8. ASSUME NEW x \in Parties, peer'[x] # NoPeer
      PROVE  slot'[x].ticket # 0 \/ x \in Hit(Hurt)' \/ Setting(x)'
  <2>1. CASE slot'[x] # slot[x]
    BY <1>3, <1>6, <1>8, <2>1
  <2>2. CASE slot'[x] = slot[x]
    BY <1>1, <1>3, <1>8, <2>2, BrSettersStay DEF BridgesTicketed, Hurt
  <2>3. QED
    BY <2>1, <2>2
<1>9. QED
  BY <1>7, <1>8 DEF SlotsBridge, BridgesTicketed, Hurt

LEMMA BrLeast ==
    ASSUME NEW S \in SUBSET Nat, S # {}
    PROVE  \E n \in S : \A m \in S : n =< m
<1>1. IsWellFoundedOn(OpToRel(<, Nat), Nat)
  BY NatLessThanWellFounded
<1>2. PICK n \in S : \A m \in S : <<m, n>> \notin OpToRel(<, Nat)
  BY <1>1, WFMin
<1>3. \A m \in S : ~(m < n)
  BY <1>2 DEF OpToRel
<1>4. QED
  BY <1>3

\* The legs whose peers a command takes, and whose tickets it gives back.
LEMMA BrDetaches ==
    ASSUME BridgingAssumption, BrTypes, TicketsPaired, NEW j \in Jobs, Detached(j)
    PROVE  \E C \in SUBSET ToSet(command[j].legs) :
              /\ C \in SUBSET Parties
              /\ peer' = [y \in Parties |-> IF y \in C THEN NoPeer ELSE peer[y]]
              /\ \A y \in Torn(C) : <<"torn", y>> \in brFlaws'
              /\ \/ slot' = slot /\ \A x \in ToSet(command[j].legs) : <<"unreleased", x>> \in brFlaws'
                 \/ \E R \in SUBSET C : /\ Frees(FreedBy(R)) /\ C = ToSet(command[j].legs)
                                        /\ \A x, y \in C : x # y => x \in R \/ y \in R
<1> DEFINE legs == command[j].legs
           gone == {i \in 1 .. Len(legs) : ~Known(legs[i])}
           last == IF gone = {} THEN Len(legs) ELSE CHOOSE i \in gone : \A k \in gone : i =< k
           C == {legs[i] : i \in 1 .. last}
           L == ToSet(legs)
           alone == command[j].b = NoPeer
<1>1. /\ legs \in Seq(Parties) /\ Len(legs) \in Nat \ {0}
      /\ alone => Len(legs) \in {1, 2}
  <2>1. command[j] \in BrCommand /\ BrAbout(command[j]) /\ command[j].at = "detached"
    BY DEF BrTypes, Detached, At
  <2>2. legs \in Seq(Parties) /\ legs # <<>> /\ (alone => Len(legs) =< 2)
    BY <2>1 DEF BrCommand, BrAbout
  <2>3. Len(legs) \in Nat \ {0}
    BY <2>2
  <2> DEFINE n == Len(legs)
  <2>4. ASSUME alone
        PROVE  n \in {1, 2}
    <3>1. n \in Nat /\ n # 0 /\ n =< 2
      BY <2>2, <2>3, <2>4
    <3> HIDE DEF n
    <3>2. QED
      BY <3>1
  <2> HIDE DEF alone
  <2>5. QED
    BY <2>2, <2>3, <2>4
<1>2. last \in 1 .. Len(legs)
  <2>1. CASE gone = {}
    BY <1>1, <2>1
  <2>2. CASE gone # {}
    <3>1. gone \in SUBSET Nat
      BY <1>1
    <3> HIDE DEF gone
    <3>2. \E n \in gone : \A m \in gone : n =< m
      BY <2>2, <3>1, BrLeast
    <3>5. last \in gone
      BY <2>2, <3>2
    <3>6. QED
      BY <3>5 DEF gone
  <2>3. QED
    BY <2>1, <2>2
<1>3. L = {legs[i] : i \in 1 .. Len(legs)} /\ L \in SUBSET Parties
  BY <1>1 DEF ToSet
<1>4. C \in SUBSET L /\ C \in SUBSET Parties
  <2>1. \A i \in 1 .. last : i \in 1 .. Len(legs)
    BY <1>1, <1>2
  <2> HIDE DEF last, gone, L
  <2>2. C \in SUBSET L
    BY <1>3, <2>1
  <2>3. QED
    BY <1>3, <2>2
<1>5. /\ peer' = [y \in Parties |-> IF y \in C THEN NoPeer ELSE peer[y]]
      /\ \A y \in Torn(C) : <<"torn", y>> \in brFlaws'
  BY DEF Detached
<1>6. CASE gone # {}
  <2>1. slot' = slot /\ \A x \in L : <<"unreleased", x>> \in brFlaws'
    BY <1>6 DEF Detached
  <2> HIDE DEF C, L, gone, last
  <2>2. QED
    BY <1>4, <1>5, <2>1 DEF L
<1>7. CASE gone = {}
  <2>1. C = L
    BY <1>3, <1>7
  <2>2. /\ alone /\ Len(legs) = 1 => GivesBack(slot)
        /\ alone /\ Len(legs) # 1 => GivesBack(ReleaseSlots({legs[1]}, slot))
        /\ ~alone => GivesBack(ReleaseSlots(L, slot))
    BY <1>7 DEF Detached
  <2> HIDE DEF last, gone
  <2>3. CASE alone /\ Len(legs) = 1
    <3>1. ReleaseSlots({}, slot) = [y \in Parties |-> slot[y]] /\ slot = [y \in Parties |-> slot[y]]
      BY DEF ReleaseSlots, BrTypes
    <3>2. Frees(FreedBy({}))
      BY <2>2, <2>3, <3>1, BrReleaseFrees
    <3>3. \A x, y \in L : x = y
      BY <1>3, <2>3
    <3> HIDE DEF C, L
    <3>4. QED
      BY <1>4, <1>5, <2>1, <3>2, <3>3 DEF L
  <2>4. CASE alone /\ Len(legs) # 1
    <3>1. Len(legs) = 2
      BY <1>1, <2>4
    <3>2. L = {legs[1], legs[2]} /\ {legs[1]} \in SUBSET Parties
      BY <1>1, <1>3, <3>1
    <3>3. Frees(FreedBy({legs[1]}))
      BY <2>2, <2>4, <3>2, BrReleaseFrees
    <3>4. {legs[1]} \in SUBSET L /\ \A x, y \in L : x # y => x \in {legs[1]} \/ y \in {legs[1]}
      BY <3>2
    <3> HIDE DEF C, L
    <3>5. QED
      BY <1>4, <1>5, <2>1, <3>3, <3>4 DEF L
  <2>5. CASE ~alone
    <3>1. Frees(FreedBy(L))
      BY <1>3, <2>2, <2>5, BrReleaseFrees
    <3> HIDE DEF C, L
    <3>2. QED
      BY <1>4, <1>5, <2>1, <3>1 DEF L
  <2>6. QED
    BY <2>3, <2>4, <2>5
<1>8. QED
  BY <1>6, <1>7

LEMMA BrBridgesDetached ==
    ASSUME BridgingAssumption, BrTypes, BrSlots, SlotsBridge, BridgesTicketed, BrNext,
           ~\E j \in Jobs : PeersSet(j), NEW j \in Jobs, Detached(j)
    PROVE  SlotsBridge' /\ BridgesTicketed'
<1>1. PICK C \in SUBSET ToSet(command[j].legs) :
              /\ C \in SUBSET Parties
              /\ peer' = [y \in Parties |-> IF y \in C THEN NoPeer ELSE peer[y]]
              /\ \A y \in Torn(C) : <<"torn", y>> \in brFlaws'
              /\ \/ slot' = slot /\ \A x \in ToSet(command[j].legs) : <<"unreleased", x>> \in brFlaws'
                 \/ \E R \in SUBSET C : /\ Frees(FreedBy(R)) /\ C = ToSet(command[j].legs)
                                        /\ \A x, y \in C : x # y => x \in R \/ y \in R
  BY BrDetaches DEF BrSlots
<1>2. CASE slot' = slot /\ \A x \in ToSet(command[j].legs) : <<"unreleased", x>> \in brFlaws'
  <2>1. \A x \in C : x \in Hit(Undone)'
    <3>1. \A x \in C : <<"unreleased", x>> \in brFlaws'
      BY <1>1, <1>2
    <3>2. QED
      BY <3>1, BrHits DEF Undone
  <2>2. QED
    BY <1>1, <1>2, <2>1, BrClearsOnly
<1>3. CASE \E R \in SUBSET C : /\ Frees(FreedBy(R)) /\ C = ToSet(command[j].legs)
                               /\ \A x, y \in C : x # y => x \in R \/ y \in R
  BY <1>1, <1>3, BrClears
<1>4. QED
  BY <1>1, <1>2, <1>3

LEMMA BrBridgesEnd ==
    ASSUME BridgingAssumption, BrTypes, BrSlots, LeaversAlone, SlotsBridge, BridgesTicketed, BrNext,
           ~\E j \in Jobs : PeersSet(j), NEW x \in Parties, TerminationBegins(x) \/ LegGone(x)
    PROVE  SlotsBridge' /\ BridgesTicketed'
<1>1. NoPeer \notin Parties /\ peer \in [Parties -> BrHalf]
  BY DEF BrTypes, BridgingAssumption
<1>2. CASE TerminationBegins(x) /\ peer[x] = NoPeer
  <2>1. peer' = peer /\ slot' = slot
    BY <1>1, <1>2 DEF TerminationBegins
  <2>2. QED
    BY <2>1, BrBridgesStill
<1>3. CASE TerminationBegins(x) /\ peer[x] # NoPeer
  <2> DEFINE C == {x, peer[x]}
  <2>1. C \in SUBSET Parties /\ {x} \in SUBSET C
    BY <1>1, <1>3 DEF BrHalf
  <2>2. /\ peer' = [y \in Parties |-> IF y \in C THEN NoPeer ELSE peer[y]]
        /\ \A y \in Torn(C) : <<"torn", y>> \in brFlaws'
    BY <1>3 DEF TerminationBegins
  <2>3. CASE Known(peer[x])
    <3>1. GivesBack(ReleaseSlots({x}, slot))
      BY <1>3, <2>3, BrReleaseOne DEF TerminationBegins
    <3>2. Frees(FreedBy({x}))
      BY <3>1, BrReleaseFrees DEF BrSlots
    <3>3. \A y, z \in C : y # z => y \in {x} \/ z \in {x}
      OBVIOUS
    <3> HIDE DEF C
    <3>4. QED
      BY <2>1, <2>2, <3>2, <3>3, BrClears
  <2>4. CASE ~Known(peer[x])
    <3>1. slot' = slot /\ \A y \in C : <<"swept", y>> \in brFlaws'
      BY <1>3, <2>4 DEF TerminationBegins
    <3>2. \A y \in C : y \in Hit(Undone)'
      BY <3>1, BrHits DEF Undone
    <3> HIDE DEF C
    <3>3. QED
      BY <2>1, <2>2, <3>1, <3>2, BrClearsOnly
  <2>5. QED
    BY <2>3, <2>4
<1>4. CASE LegGone(x)
  <2>1. slot' = slot /\ state[x] = "terminated"
    BY <1>4 DEF LegGone
  <2>2. peer' = [y \in Parties |-> IF y \in {x} THEN NoPeer ELSE peer[y]]
    BY <1>1, <1>4 DEF LegGone
  <2>3. slot[x].ticket # 0 => x \in Hit(Undone)' \/ peer[x] # slot[x].with
    <3>1. slot[x].ticket # 0 /\ peer[x] = slot[x].with => x \in Hit(Halved)
      BY <1>1, <2>1, BrSlotFacts DEF LeaversAlone
    <3>2. x \in Hit(Halved) => x \in Hit(Undone)
      BY BrHitMore DEF Undone
    <3>3. QED
      BY <3>1, <3>2, BrHitGrows
  <2>4. {x} \in SUBSET Parties
    OBVIOUS
  <2>5. QED
    BY <2>1, <2>2, <2>3, <2>4, BrClearsOnly
<1>5. QED
  BY <1>2, <1>3, <1>4

LEMMA BrBridgesKept ==
    ASSUME BridgingAssumption, BrTypes, LeaversAlone, BrSlots, TicketsOwned, SlotsBridge,
           BridgesTicketed, BrNext
    PROVE  SlotsBridge' /\ BridgesTicketed'
<1>1. CASE \E j \in Jobs : PeersSet(j)
  BY <1>1, BrBridgesSet
<1>2. CASE ~\E j \in Jobs : PeersSet(j)
  <2>1. ASSUME NEW j \in Jobs,
               \/ \E a, b \in Parties : BridgeBegins(j, a, b)
               \/ Resynced(j) \/ EndpointRefused(j) \/ RollbackBegins(j) \/ RetentionRefused(j)
               \/ SyncBegins(j) \/ Hosted(j) \/ BridgeBound(j) \/ RoutingCleared(j)
               \/ \E x \in Parties : UnbridgeBegins(j, x) \/ EndpointAsked(j, x) \/ EndpointEnsured(j, x)
        PROVE  peer' = peer /\ slot' = slot
    BY <2>1 DEF BridgeBegins, Resynced, EndpointRefused, RollbackBegins, RetentionRefused,
                SyncBegins, Hosted, BridgeBound, RoutingCleared, UnbridgeBegins,
                EndpointAsked, EndpointEnsured, Over
  <2>2. ASSUME NEW x \in Parties, LegEnds(x)
        PROVE  peer' = peer /\ slot' = slot
    BY <2>2 DEF LegEnds
  <2>3. CASE peer' = peer /\ slot' = slot
    BY <1>2, <2>3, BrBridgesStill
  <2>4. ASSUME NEW j \in Jobs, Retained(j) \/ RoutingFails(j) \/ Published(j) \/ Detached(j)
        PROVE  SlotsBridge' /\ BridgesTicketed'
    BY <1>2, <2>4, BrBridgesRetained, BrBridgesFail, BrBridgesPublished, BrBridgesDetached
  <2>5. ASSUME NEW x \in Parties, TerminationBegins(x) \/ LegGone(x)
        PROVE  SlotsBridge' /\ BridgesTicketed'
    BY <1>2, <2>5, BrBridgesEnd
  <2>6. QED
    BY <1>2, <2>1, <2>2, <2>3, <2>4, <2>5 DEF BrNext
<1>3. QED
  BY <1>1, <1>2

-----------------------------------------------------------------------------
(* The routing of sound.                                                     *)

\* No leg is its own peer.
PeersProper == \A x \in Parties : peer[x] = x => x \in Hit(Halved)

\* The worker's bridges have two ends.
RoutesPaired == \A x \in Parties : routed[x] # NoPeer => routed[routed[x]] = x

\* Sound goes between the legs of a bridge only, but for a leg on its way out.
RoutesBridge ==
    \A x \in Parties : routed[x] # NoPeer /\ peer[x] # routed[x] =>
        \/ x \in Hit(Undone \cup {"crossed"}) \/ routed[x] \in Hit({"crossed", "swept"})
        \/ state[x] = "terminated" \/ state[routed[x]] = "terminated"

LEMMA BrProperKept ==
    ASSUME BridgingAssumption, BrTypes, PeersProper, BrNext
    PROVE  PeersProper'
<1>1. NoPeer \notin Parties
  BY DEF BridgingAssumption
<1>2. \A x \in Hit(Halved) : x \in Hit(Halved)'
  BY BrHitGrows
<1>3. ASSUME \A x \in Parties : peer'[x] \in {NoPeer, peer[x]}
      PROVE  PeersProper'
  BY <1>1, <1>2, <1>3 DEF PeersProper
<1>4. ASSUME NEW j \in Jobs, PeersSet(j) \/ RoutingFails(j)
      PROVE  PeersProper'
  <2> DEFINE a == command[j].a  b == command[j].b
  <2>1. a \in Parties /\ b \in Parties /\ a # b
    BY <1>4, BrPairLegs DEF PeersSet, RoutingFails, At, BrPaired
  <2>2. \A x \in Parties \ {a, b} : peer'[x] = peer[x]
    BY <1>4, <2>1 DEF PeersSet, RoutingFails, BrTypes
  <2>3. CASE PeersSet(j)
    <3>1. peer'[a] = b /\ peer'[b] = a
      BY <2>1, <2>3 DEF PeersSet, BrTypes
    <3> HIDE DEF a, b
    <3>2. QED
      BY <1>2, <2>1, <2>2, <3>1 DEF PeersProper
  <2>4. CASE RoutingFails(j)
    <3>1. \A x \in {a, b} : <<"muted", x>> \in brFlaws'
      BY <1>1, <2>1, <2>4 DEF RoutingFails
    <3>2. \A x \in {a, b} : x \in Hit(Halved)'
      BY <3>1, BrHits DEF Halved
    <3> HIDE DEF a, b
    <3>3. QED
      BY <1>2, <2>2, <3>2 DEF PeersProper
  <2>5. QED
    BY <1>4, <2>3, <2>4
<1>5. ASSUME NEW j \in Jobs,
             \/ \E a, b \in Parties : BridgeBegins(j, a, b)
             \/ Resynced(j) \/ EndpointRefused(j) \/ RollbackBegins(j) \/ RetentionRefused(j)
             \/ Retained(j) \/ SyncBegins(j) \/ Hosted(j) \/ BridgeBound(j) \/ Published(j)
             \/ RoutingCleared(j) \/ Detached(j)
             \/ \E x \in Parties : UnbridgeBegins(j, x) \/ EndpointAsked(j, x) \/ EndpointEnsured(j, x)
      PROVE  \A x \in Parties : peer'[x] \in {NoPeer, peer[x]}
  BY <1>5 DEF BridgeBegins, Resynced, EndpointRefused, RollbackBegins, RetentionRefused, Retained,
              SyncBegins, Hosted, BridgeBound, Published, RoutingCleared, Detached, UnbridgeBegins,
              EndpointAsked, EndpointEnsured, Over
<1>6. ASSUME NEW x \in Parties, LegEnds(x) \/ TerminationBegins(x) \/ LegGone(x)
      PROVE  \A y \in Parties : peer'[y] \in {NoPeer, peer[y]}
  BY <1>6 DEF LegEnds, TerminationBegins, LegGone, BrTypes
<1>7. QED
  BY <1>3, <1>4, <1>5, <1>6 DEF BrNext

\* How sound is routed by a step: legs are taken out, and two may be merged.
LEMMA BrRoutedStep ==
    ASSUME BridgingAssumption, BrTypes, BrNext
    PROVE  \/ routed' = routed
           \/ \E xs \in SUBSET Parties : routed' = Split(xs)
           \/ \E a, b \in Parties : Merge(a, b) /\ peer' = peer /\ state' = state
<1>1. \A x \in Parties : peer[x] # NoPeer => peer[x] \in Parties
  BY DEF BrTypes, BrHalf
<1>2. ASSUME NEW j \in Jobs, Resynced(j) \/ BridgeBound(j)
      PROVE  \E a, b \in Parties : Merge(a, b) /\ peer' = peer /\ state' = state
  <2>1. command[j] \in BrCommand /\ BrAbout(command[j])
    BY DEF BrTypes
  <2>2. CASE BridgeBound(j)
    <3>1. command[j].a \in Parties /\ command[j].b \in Parties
      BY <2>2, BrPairLegs DEF BridgeBound, At, BrPaired
    <3>2. QED
      BY <2>2, <3>1 DEF BridgeBound
  <2>3. CASE Resynced(j)
    <3>1. command[j].legs \in Seq(Parties) /\ Len(command[j].legs) = 2
      BY <2>1, <2>3 DEF Resynced, At, BrAbout, BrCommand
    <3>2. command[j].legs[1] \in Parties /\ command[j].legs[2] \in Parties
      BY <3>1
    <3>3. QED
      BY <2>3, <3>2 DEF Resynced
  <2>4. QED
    BY <1>2, <2>2, <2>3
<1>3. ASSUME NEW j \in Jobs, \/ \E x \in Parties : EndpointEnsured(j, x)
                             \/ SyncBegins(j) \/ RoutingCleared(j)
      PROVE  routed' = routed \/ \E xs \in SUBSET Parties : routed' = Split(xs)
  <2>1. CASE RoutingCleared(j)
    <3>1. command[j].legs \in Seq(Parties)
      BY DEF BrTypes, BrCommand
    <3>2. ToSet(command[j].legs) \in SUBSET Parties
      BY <3>1 DEF ToSet
    <3>3. QED
      BY <2>1, <3>2 DEF RoutingCleared
  <2>2. CASE SyncBegins(j)
    <3>1. command[j].a \in Parties /\ command[j].b \in Parties
      BY <2>2, BrPairLegs DEF SyncBegins, At, BrPaired
    <3>2. {command[j].a, command[j].b} \in SUBSET Parties
      BY <3>1
    <3>3. QED
      BY <2>2, <3>2 DEF SyncBegins
  <2>3. ASSUME NEW x \in Parties, EndpointEnsured(j, x)
        PROVE  routed' = routed \/ \E xs \in SUBSET Parties : routed' = Split(xs)
    <3>1. CASE Stands(x, peer[x])
      <4>1. {x, peer[x]} \in SUBSET Parties
        BY <1>1, <3>1 DEF Stands
      <4>2. QED
        BY <2>3, <3>1, <4>1 DEF EndpointEnsured
    <3>2. QED
      BY <2>3, <3>1 DEF EndpointEnsured
  <2>4. QED
    BY <1>3, <2>1, <2>2, <2>3
<1>4. ASSUME NEW j \in Jobs,
             \/ \E a, b \in Parties : BridgeBegins(j, a, b)
             \/ EndpointRefused(j) \/ RollbackBegins(j) \/ RetentionRefused(j)
             \/ Retained(j) \/ PeersSet(j) \/ Hosted(j) \/ RoutingFails(j) \/ Published(j)
             \/ Detached(j) \/ \E x \in Parties : UnbridgeBegins(j, x) \/ EndpointAsked(j, x)
      PROVE  routed' = routed
  BY <1>4 DEF BridgeBegins, EndpointRefused, RollbackBegins, RetentionRefused, Retained, PeersSet,
              Hosted, RoutingFails, Published, Detached, UnbridgeBegins, EndpointAsked, Over
<1>5. ASSUME NEW x \in Parties, LegEnds(x) \/ TerminationBegins(x) \/ LegGone(x)
      PROVE  routed' = routed \/ \E xs \in SUBSET Parties : routed' = Split(xs)
  <2>1. {x} \in SUBSET Parties
    OBVIOUS
  <2>2. QED
    BY <1>5, <2>1 DEF LegEnds, TerminationBegins, LegGone
<1>6. QED
  BY <1>2, <1>3, <1>4, <1>5 DEF BrNext

LEMMA BrMergeIs ==
    ASSUME BridgingAssumption, BrTypes, NEW a \in Parties, NEW b \in Parties, Merge(a, b)
    PROVE  /\ \A x \in Parties :
                 routed'[x] = IF x = b THEN a ELSE IF x = a THEN b
                              ELSE IF routed[x] \in {a, b} THEN NoPeer ELSE routed[x]
           /\ \/ peer[a] = b /\ peer[b] = a
              \/ \A x \in {a, b, routed[a], routed[b]} \ {NoPeer} : <<"crossed", x>> \in brFlaws'
  BY DEF Merge, Split, Wrong

LEMMA BrRoutesPairedKept ==
    ASSUME BridgingAssumption, BrTypes, RoutesPaired, BrNext
    PROVE  RoutesPaired'
<1>1. /\ NoPeer \notin Parties
      /\ \A x \in Parties : routed[x] # NoPeer => routed[x] \in Parties
  BY DEF BridgingAssumption, BrTypes, BrHalf
<1>2. ASSUME NEW xs \in SUBSET Parties, routed' = Split(xs)
      PROVE  RoutesPaired'
  <2>1. \A x \in Parties : routed'[x] = IF x \in xs \/ routed[x] \in xs THEN NoPeer ELSE routed[x]
    BY <1>2 DEF Split
  <2>2. QED
    BY <1>1, <2>1 DEF RoutesPaired
<1>3. ASSUME NEW a \in Parties, NEW b \in Parties, Merge(a, b)
      PROVE  RoutesPaired'
  <2>1. \A x \in Parties :
            routed'[x] = IF x = b THEN a ELSE IF x = a THEN b
                         ELSE IF routed[x] \in {a, b} THEN NoPeer ELSE routed[x]
    BY <1>3, BrMergeIs
  <2>2. QED
    BY <1>1, <2>1 DEF RoutesPaired
<1>4. QED
  BY <1>2, <1>3, BrRoutedStep DEF RoutesPaired

LEMMA BrRoutesBridgeKept ==
    ASSUME BridgingAssumption, BrTypes, TicketsPaired, PeersProper, RoutesBridge, BrNext
    PROVE  RoutesBridge'
<1> DEFINE Worn == Undone \cup {"crossed"}
           Left == {"crossed", "swept"}
           Fine(x) == \/ x \in Hit(Worn) \/ routed[x] \in Hit(Left)
                      \/ state[x] = "terminated" \/ state[routed[x]] = "terminated"
<1>1. /\ NoPeer \notin Parties
      /\ \A x \in Parties : routed[x] # NoPeer => routed[x] \in Parties
      /\ \A x \in Parties : peer[x] # NoPeer => peer[x] \in Parties
  BY DEF BridgingAssumption, BrTypes, BrHalf
<1>2. /\ \A x \in Hit(Worn) : x \in Hit(Worn)'
      /\ \A x \in Hit(Left) : x \in Hit(Left)'
  BY BrHitGrows
<1>3. /\ \A w \in Worn : \A x : <<w, x>> \in brFlaws' => x \in Hit(Worn)'
      /\ \A w \in Left : \A x : <<w, x>> \in brFlaws' => x \in Hit(Left)'
  BY BrHits
<1>4. \A x \in Hit(Halved) : x \in Hit(Worn)'
  <2>1. Halved \subseteq Worn
    BY DEF Undone
  <2>2. QED
    BY <2>1, <1>2, BrHitMore
<1>w. /\ {"overwritten", "torn", "late", "muted", "unreleased", "swept", "crossed"} \subseteq Worn
      /\ {"crossed", "swept"} \subseteq Left
  BY DEF Undone, Halved
<1>5. \A x \in Parties : routed[x] # NoPeer /\ peer[x] # routed[x] => Fine(x)
  BY DEF RoutesBridge
<1>6. ASSUME NEW x \in Parties, Fine(x), routed'[x] = routed[x], routed[x] # NoPeer,
             \A y \in Parties : state[y] = "terminated" => state'[y] = "terminated"
      PROVE  Fine(x)'
  <2>1. routed[x] \in Parties
    BY <1>1, <1>6
  <2> HIDE DEF Worn, Left
  <2>2. QED
    BY <1>2, <1>6, <2>1
<1>7. ASSUME \A x \in Parties : routed'[x] # NoPeer /\ peer'[x] # routed'[x] => Fine(x)'
      PROVE  RoutesBridge'
  BY <1>7 DEF RoutesBridge
<1> HIDE DEF Worn, Left, Fine
<1>8. ASSUME NEW xs, routed' = routed \/ routed' = Split(xs)
      PROVE  \A x \in Parties : routed'[x] # NoPeer =>
                 routed'[x] = routed[x] /\ (routed' # routed => x \notin xs /\ routed[x] \notin xs)
  BY <1>8 DEF Split
<1>9. ASSUME peer' = peer, NEW xs, routed' = routed \/ routed' = Split(xs),
             \A y \in Parties : state[y] = "terminated" => state'[y] = "terminated"
      PROVE  RoutesBridge'
  BY <1>5, <1>6, <1>7, <1>8, <1>9
<1>10. ASSUME NEW a \in Parties, NEW b \in Parties, Merge(a, b), peer' = peer, state' = state
       PROVE  RoutesBridge'
  <2>1. /\ \A x \in Parties :
                 routed'[x] = IF x = b THEN a ELSE IF x = a THEN b
                              ELSE IF routed[x] \in {a, b} THEN NoPeer ELSE routed[x]
        /\ \/ peer[a] = b /\ peer[b] = a
           \/ \A x \in {a, b, routed[a], routed[b]} \ {NoPeer} : <<"crossed", x>> \in brFlaws'
    BY <1>10, BrMergeIs
  <2>2. ASSUME NEW x \in {a, b}, peer'[x] # routed'[x]
        PROVE  Fine(x)'
    <3>1. <<"crossed", x>> \in brFlaws'
      BY <1>1, <1>10, <2>1, <2>2
    <3>2. x \in Hit(Worn)'
      BY <1>3, <1>w, <3>1
    <3>3. QED
      BY <3>2 DEF Fine
  <2>3. QED
    BY <1>5, <1>6, <1>7, <1>10, <2>1, <2>2
<1>11. ASSUME NEW j \in Jobs, PeersSet(j) \/ RoutingFails(j)
       PROVE  RoutesBridge'
  <2> DEFINE a == command[j].a  b == command[j].b
  <2>1. a \in Parties /\ b \in Parties /\ a # b
    BY <1>11, BrPairLegs DEF PeersSet, RoutingFails, At, BrPaired
  <2>2. /\ \A x \in Parties \ {a, b} : peer'[x] = peer[x]
        /\ routed' = routed /\ state' = state
    BY <1>11, <2>1 DEF PeersSet, RoutingFails, BrTypes
  <2>3. ASSUME NEW x \in {a, b}, routed[x] # NoPeer, peer'[x] # routed[x]
        PROVE  Fine(x)'
    <3>1. CASE RoutingFails(j)
      <4>1. <<"muted", x>> \in brFlaws'
        BY <1>1, <2>1, <2>3, <3>1 DEF RoutingFails
      <4>2. QED
        BY <1>3, <1>w, <4>1 DEF Fine
    <3>2. CASE PeersSet(j)
      <4>1. routed[x] \notin {a, b} \ {x}
        BY <2>1, <2>3, <3>2 DEF PeersSet, BrTypes
      <4>2. CASE peer[x] # routed[x]
        BY <1>5, <1>6, <2>1, <2>2, <2>3, <4>2
      <4>3. CASE peer[x] = routed[x] /\ peer[x] = x
        BY <1>4, <2>1, <4>3 DEF PeersProper, Fine
      <4>4. CASE peer[x] = routed[x] /\ peer[x] # x
        <5>1. x \in Torn({a, b})
          BY <2>1, <2>3, <4>1, <4>4 DEF Torn
        <5>2. <<"overwritten", x>> \in brFlaws'
          BY <3>2, <5>1 DEF PeersSet
        <5>3. QED
          BY <1>3, <1>w, <5>2 DEF Fine
      <4>5. QED
        BY <4>2, <4>3, <4>4
    <3>3. QED
      BY <1>11, <3>1, <3>2
  <2> HIDE DEF a, b
  <2>4. QED
    BY <1>5, <1>6, <1>7, <2>2, <2>3
<1>12. ASSUME NEW j \in Jobs, Detached(j)
       PROVE  RoutesBridge'
  <2>1. PICK C \in SUBSET ToSet(command[j].legs) :
            peer' = [y \in Parties |-> IF y \in C THEN NoPeer ELSE peer[y]]
    BY <1>12, BrDetaches
  <2>2. /\ routed' = routed /\ state' = state
        /\ \A x \in ToSet(command[j].legs) : routed[x] # NoPeer => <<"crossed", x>> \in brFlaws'
    BY <1>12 DEF Detached
  <2>3. ASSUME NEW x \in Parties, x \in C, routed[x] # NoPeer
        PROVE  Fine(x)'
    <3>1. <<"crossed", x>> \in brFlaws'
      BY <2>2, <2>3
    <3>2. QED
      BY <1>3, <1>w, <3>1 DEF Fine
  <2>4. QED
    BY <1>5, <1>6, <1>7, <2>1, <2>2, <2>3
<1>13. ASSUME NEW x \in Parties, TerminationBegins(x)
       PROVE  RoutesBridge'
  <2> DEFINE p == peer[x]
  <2>1. /\ routed' = routed
        /\ \A y \in Parties : y # x => state'[y] = state[y]
        /\ state[x] = "ended"
        /\ state'[x] = "terminated" \/ (p # NoPeer /\ \A y \in {x, p} : <<"swept", y>> \in brFlaws')
    BY <1>1, <1>13 DEF TerminationBegins, BrTypes
  <2>2. \A y \in Parties : peer'[y] = IF p # NoPeer /\ y \in {x, p} THEN NoPeer ELSE peer[y]
    BY <1>13 DEF TerminationBegins
  <2>3. \A y \in Parties : state[y] = "terminated" => state'[y] = "terminated"
    BY <2>1
  <2>4. Fine(x)'
    BY <1>3, <1>w, <2>1 DEF Fine
  <2>5. ASSUME NEW y \in Parties, y = p, y # x, routed[y] # NoPeer
        PROVE  Fine(y)'
    <3>1. CASE peer[y] # routed[y]
      BY <1>5, <1>6, <2>1, <2>3, <2>5, <3>1
    <3>2. CASE peer[y] = routed[y] /\ peer[y] = x
      BY <1>3, <1>w, <2>1, <2>5, <3>2 DEF Fine
    <3>3. CASE peer[y] = y
      BY <1>4, <3>3 DEF PeersProper, Fine
    <3>4. CASE peer[y] = routed[y] /\ peer[y] \notin {x, y}
      <4>1. y \in Torn({x, p})
        BY <2>5, <3>4 DEF Torn
      <4>2. <<"torn", y>> \in brFlaws'
        BY <1>1, <1>13, <2>5, <4>1 DEF TerminationBegins
      <4>3. QED
        BY <1>3, <1>w, <4>2 DEF Fine
    <3>5. QED
      BY <3>1, <3>2, <3>3, <3>4
  <2> HIDE DEF p
  <2>6. QED
    BY <1>5, <1>6, <1>7, <2>1, <2>2, <2>3, <2>4, <2>5
<1>14. ASSUME NEW x \in Parties, LegGone(x)
       PROVE  RoutesBridge'
  <2>1. /\ routed' = Split({x})
        /\ \A y \in Parties : y # x => state'[y] = state[y] /\ peer'[y] = peer[y]
    BY <1>14 DEF LegGone, BrTypes
  <2>2. ASSUME NEW y \in Parties, routed'[y] # NoPeer, peer'[y] # routed'[y]
        PROVE  Fine(y)'
    <3>1. routed'[y] = routed[y] /\ y # x /\ routed[y] # x /\ routed[y] \in Parties
      BY <1>1, <2>1, <2>2 DEF Split
    <3>2. Fine(y)
      BY <1>5, <2>1, <2>2, <3>1
    <3>3. state'[y] = state[y] /\ state'[routed[y]] = state[routed[y]]
      BY <2>1, <3>1
    <3>4. QED
      BY <1>2, <3>1, <3>2, <3>3 DEF Fine
  <2>3. QED
    BY <1>7, <2>2
<1>15. ASSUME NEW j \in Jobs,
              \/ \E a, b \in Parties : BridgeBegins(j, a, b)
              \/ EndpointRefused(j) \/ RollbackBegins(j) \/ RetentionRefused(j)
              \/ Retained(j) \/ SyncBegins(j) \/ Hosted(j) \/ Published(j) \/ RoutingCleared(j)
              \/ Resynced(j) \/ BridgeBound(j)
              \/ \E x \in Parties : UnbridgeBegins(j, x) \/ EndpointAsked(j, x) \/ EndpointEnsured(j, x)
       PROVE  peer' = peer /\ state' = state
  BY <1>15 DEF BridgeBegins, EndpointRefused, RollbackBegins, RetentionRefused, Retained,
               SyncBegins, Hosted, Published, RoutingCleared, Resynced, BridgeBound, UnbridgeBegins,
               EndpointAsked, EndpointEnsured, Over
<1>16. ASSUME NEW x \in Parties, LegEnds(x)
       PROVE  peer' = peer /\ \A y \in Parties : state[y] = "terminated" => state'[y] = "terminated"
  BY <1>16 DEF LegEnds, BrTypes
<1>17. ASSUME peer' = peer, \A y \in Parties : state[y] = "terminated" => state'[y] = "terminated"
       PROVE  RoutesBridge'
  BY <1>9, <1>10, <1>17, BrRoutedStep
<1>18. QED
  BY <1>11, <1>12, <1>13, <1>14, <1>15, <1>16, <1>17 DEF BrNext

\* A command routes the sound of a bridge, or has cut it to take it down.
RoutingBy(k, x, y) ==
    \/ command[k].at \in {"syncing", "hosting", "binding"} /\ {x, y} = {command[k].a, command[k].b}
    \/ command[k].at = "resyncing" /\ {x, y} = {command[k].legs[1], command[k].legs[2]}
    \/ command[k].at = "detached" /\ x \in ToSet(command[k].legs)

Cut == Halved \cup {"crossed", "unreleased"}

\* Why a bridge may be without sound.
Excused(x) ==
    \/ x \in Hit(Cut) \/ \E k \in Jobs : RoutingBy(k, x, peer[x])
    \/ state[x] # "live" \/ state[peer[x]] # "live"

\* A bridge has its sound.
BridgesRouted == \A x \in Parties : peer[x] # NoPeer /\ routed[x] # peer[x] => Excused(x)

LEMMA BrDeadStay ==
    ASSUME BridgingAssumption, BrTypes, BrNext, NEW x \in Parties, state[x] # "live"
    PROVE  state'[x] # "live"
<1>1. ASSUME NEW y \in Parties, TerminationBegins(y) \/ LegGone(y)
      PROVE  state'[x] # "live"
  BY <1>1 DEF TerminationBegins, LegGone, BrTypes
<1>2. ASSUME NEW y \in Parties, LegEnds(y)
      PROVE  state'[x] # "live"
  BY <1>2 DEF LegEnds, BrTypes
<1>3. ASSUME NEW j \in Jobs,
             \/ \E a, b \in Parties : BridgeBegins(j, a, b)
             \/ Resynced(j) \/ EndpointRefused(j) \/ RollbackBegins(j) \/ RetentionRefused(j)
             \/ Retained(j) \/ PeersSet(j) \/ SyncBegins(j) \/ Hosted(j) \/ BridgeBound(j)
             \/ RoutingFails(j) \/ Published(j) \/ RoutingCleared(j) \/ Detached(j)
             \/ \E y \in Parties : UnbridgeBegins(j, y) \/ EndpointAsked(j, y) \/ EndpointEnsured(j, y)
      PROVE  state' = state
  BY <1>3 DEF BridgeBegins, Resynced, EndpointRefused, RollbackBegins, RetentionRefused, Retained,
              PeersSet, SyncBegins, Hosted, BridgeBound, RoutingFails, Published, RoutingCleared,
              Detached, UnbridgeBegins, EndpointAsked, EndpointEnsured, Over
<1>4. QED
  BY <1>1, <1>2, <1>3 DEF BrNext

\* A bridge whose halves and sound a step leaves alone stays as it is, if its
\* commands do.
LEMMA BrExcused ==
    ASSUME BridgingAssumption, BrTypes, BridgesRouted, BrNext,
           \A x \in Parties :
               peer'[x] # NoPeer /\ routed'[x] # peer'[x] /\ ~Excused(x)' =>
                   /\ peer'[x] = peer[x] /\ routed[x] # peer[x]
                   /\ \A k \in Jobs : RoutingBy(k, x, peer[x]) => RoutingBy(k, x, peer[x])'
    PROVE  BridgesRouted'
<1>1. SUFFICES ASSUME NEW x \in Parties, peer'[x] # NoPeer, routed'[x] # peer'[x], ~Excused(x)'
               PROVE  FALSE
  BY DEF BridgesRouted
<1>2. /\ peer'[x] = peer[x] /\ routed[x] # peer[x]
      /\ \A k \in Jobs : RoutingBy(k, x, peer[x]) => RoutingBy(k, x, peer[x])'
  BY <1>1
<1>3. Excused(x) /\ peer[x] \in Parties
  BY <1>1, <1>2 DEF BridgesRouted, BrTypes, BrHalf
<1>4. x \in Hit(Cut) => x \in Hit(Cut)'
  BY BrHitGrows
<1>5. /\ state[x] # "live" => state'[x] # "live"
      /\ state[peer[x]] # "live" => state'[peer[x]] # "live"
  BY <1>3, BrDeadStay
<1>6. (\E k \in Jobs : RoutingBy(k, x, peer[x])) => \E k \in Jobs : RoutingBy(k, x, peer[x])'
  BY <1>2
<1>7. QED
  BY <1>1, <1>2, <1>3, <1>4, <1>5, <1>6 DEF Excused

\* Legs that are taken out of the bridges of the worker leave a bridge that
\* was one of the media service, or its halves were not each other's.
LEMMA BrSplitCuts ==
    ASSUME BridgingAssumption, BrTypes, RoutesPaired, PeersMutual, NEW xs \in SUBSET Parties,
           NEW x \in Parties \ xs, routed[x] = peer[x], peer[x] \in xs
    PROVE  /\ routed[peer[x]] = x
           /\ peer[peer[x]] = x \/ x \in Hit(Halved)
<1>1. peer[x] # NoPeer
  BY DEF BridgingAssumption
<1>2. QED
  BY <1>1 DEF RoutesPaired, PeersMutual

\* What does not change for the commands that route.
LEMMA BrRoutersStay ==
    ASSUME BridgingAssumption, BrTypes, BrNext, NEW k \in Jobs, NEW x, NEW y, RoutingBy(k, x, y)
    PROVE  \/ RoutingBy(k, x, y)'
           \/ SyncBegins(k) \/ BridgeBound(k) \/ RoutingFails(k) \/ Resynced(k)
           \/ EndpointRefused(k) \/ RollbackBegins(k) \/ Detached(k)
<1>1. CASE command'[k] = command[k]
  BY <1>1 DEF RoutingBy
<1>2. command[k].at \in {"syncing", "hosting", "binding", "resyncing", "detached"}
  BY DEF RoutingBy
<1>3. ~At(k, "none")
  BY <1>2 DEF At
<1>4. ASSUME NEW z \in Parties, EndpointEnsured(k, z) \/ Retained(k) \/ RetentionRefused(k)
                                \/ PeersSet(k) \/ Published(k) \/ RoutingCleared(k)
      PROVE  FALSE
  BY <1>2, <1>4 DEF EndpointEnsured, Retained, RetentionRefused, PeersSet, Published,
                    RoutingCleared, At
<1>5. CASE Hosted(k)
  <2>1. command'[k].at = "binding" /\ command'[k].a = command[k].a /\ command'[k].b = command[k].b
    BY <1>5 DEF Hosted, Goes, BrTypes, BrCommand
  <2>2. command[k].at = "hosting"
    BY <1>5 DEF Hosted, At
  <2>3. QED
    BY <2>1, <2>2 DEF RoutingBy
<1>6. QED
  BY <1>1, <1>3, <1>4, <1>5, BrWhoSteps

LEMMA BrOthersWait ==
    ASSUME BridgingAssumption, BrTypes, NEW j \in Jobs, BrCommandStep(j)
    PROVE  \A k \in Jobs : k # j =>
              /\ command'[k] = command[k]
              /\ \A x, y : RoutingBy(k, x, y) => RoutingBy(k, x, y)'
<1>1. \A k \in Jobs : k # j => command'[k] = command[k]
  BY DEF BrCommandStep, BrTypes
<1>2. QED
  BY <1>1 DEF RoutingBy

\* A bridge is taken out, to be merged anew.
LEMMA BrRoutedOpens ==
    ASSUME BridgingAssumption, BrTypes, RoutesPaired, PeersMutual, BridgesRouted, BrNext,
           NEW j \in Jobs, BrCommandStep(j), NEW a \in Parties, NEW b \in Parties,
           peer[a] = b, peer[b] = a, routed' = Split({a, b}), peer' = peer,
           \A x, y : RoutingBy(j, x, y) => {x, y} = {a, b},
           \A x, y : {x, y} = {a, b} => RoutingBy(j, x, y)'
    PROVE  BridgesRouted'
<1>1. SUFFICES ASSUME NEW x \in Parties, peer'[x] # NoPeer, routed'[x] # peer'[x], ~Excused(x)'
               PROVE  /\ routed[x] # peer[x]
                      /\ \A k \in Jobs : RoutingBy(k, x, peer[x]) => RoutingBy(k, x, peer[x])'
  BY BrExcused
<1>2. {x, peer[x]} # {a, b}
  <2>1. SUFFICES ASSUME {x, peer[x]} = {a, b}
                 PROVE  FALSE
    OBVIOUS
  <2>2. RoutingBy(j, x, peer[x])'
    BY <2>1 DEF RoutingBy
  <2>3. QED
    BY <1>1, <2>2 DEF Excused
<1>3. \A k \in Jobs : RoutingBy(k, x, peer[x]) => RoutingBy(k, x, peer[x])'
  <2>1. ~RoutingBy(j, x, peer[x])
    BY <1>2
  <2>2. \A k \in Jobs : k # j /\ RoutingBy(k, x, peer[x]) => RoutingBy(k, x, peer[x])'
    BY BrOthersWait
  <2>3. QED
    BY <2>1, <2>2
<1>4. ASSUME routed[x] = peer[x]
      PROVE  FALSE
  <2>1. x \notin {a, b}
    BY <1>2
  <2>2. peer[x] \in {a, b}
    BY <1>1, <1>4, <2>1 DEF Split
  <2>3. x \in Hit(Halved)
    BY <1>4, <2>1, <2>2, BrSplitCuts
  <2>4. x \in Hit(Cut)
    BY <2>3, BrHitMore DEF Cut
  <2>5. QED
    BY <1>1, <2>4, BrHitGrows DEF Excused
<1>5. QED
  BY <1>3, <1>4

\* A bridge is merged.
LEMMA BrRoutedMerges ==
    ASSUME BridgingAssumption, BrTypes, RoutesPaired, PeersMutual, BridgesRouted, BrNext,
           NEW j \in Jobs, BrCommandStep(j), NEW a \in Parties, NEW b \in Parties,
           Merge(a, b), peer' = peer,
           \A x, y : RoutingBy(j, x, y) => {x, y} = {a, b}
    PROVE  BridgesRouted'
<1>1. SUFFICES ASSUME NEW x \in Parties, peer'[x] # NoPeer, routed'[x] # peer'[x], ~Excused(x)'
               PROVE  /\ routed[x] # peer[x]
                      /\ \A k \in Jobs : RoutingBy(k, x, peer[x]) => RoutingBy(k, x, peer[x])'
  BY BrExcused
<1>2. /\ \A y \in Parties : routed'[y] = IF y = b THEN a ELSE IF y = a THEN b
                                         ELSE IF routed[y] \in {a, b} THEN NoPeer ELSE routed[y]
      /\ \/ peer[a] = b /\ peer[b] = a
         \/ \A y \in {a, b, routed[a], routed[b]} \ {NoPeer} : <<"crossed", y>> \in brFlaws'
  BY BrMergeIs
<1>3. NoPeer \notin Parties
  BY DEF BridgingAssumption
<1>4. <<"crossed", x>> \notin brFlaws'
  <2>1. <<"crossed", x>> \in brFlaws' => x \in Hit(Cut)'
    BY BrHits DEF Cut
  <2>2. QED
    BY <1>1, <2>1 DEF Excused
<1>5. x \notin {a, b}
  BY <1>1, <1>2, <1>3, <1>4
<1>6. \A k \in Jobs : RoutingBy(k, x, peer[x]) => RoutingBy(k, x, peer[x])'
  <2>1. ~RoutingBy(j, x, peer[x])
    BY <1>5
  <2>2. \A k \in Jobs : k # j /\ RoutingBy(k, x, peer[x]) => RoutingBy(k, x, peer[x])'
    BY BrOthersWait
  <2>3. QED
    BY <2>1, <2>2
<1>7. ASSUME routed[x] = peer[x]
      PROVE  FALSE
  <2>1. peer[x] \in {a, b}
    BY <1>1, <1>2, <1>5, <1>7
  <2>2. routed[peer[x]] = x /\ (peer[peer[x]] = x \/ x \in Hit(Halved))
    <3>1. {a, b} \in SUBSET Parties
      OBVIOUS
    <3>2. QED
      BY <1>5, <1>7, <2>1, <3>1, BrSplitCuts
  <2>3. x \in Hit(Halved)
    BY <1>2, <1>3, <1>4, <1>5, <2>1, <2>2
  <2>4. x \in Hit(Cut)
    BY <2>3, BrHitMore DEF Cut
  <2>5. QED
    BY <1>1, <2>4, BrHitGrows DEF Excused
<1>8. QED
  BY <1>6, <1>7

LEMMA BrRoutedJobs ==
    ASSUME BridgingAssumption, BrTypes, RoutesPaired, PeersMutual, BridgesRouted, BrNext,
           NEW j \in Jobs, SyncBegins(j) \/ BridgeBound(j) \/ Resynced(j) \/ RoutingFails(j)
                           \/ EndpointRefused(j) \/ RollbackBegins(j)
    PROVE  BridgesRouted'
<1> DEFINE a == command[j].a  b == command[j].b  l == command[j].legs
<1>1. /\ NoPeer \notin Parties /\ command \in [Jobs -> BrCommand]
      /\ command[j] \in BrCommand /\ BrAbout(command[j])
  BY DEF BrTypes, BridgingAssumption
<1>2. BrCommandStep(j)
  <2>1. \E x \in Parties : TRUE
    <3>1. command[j].at # "none"
      BY DEF SyncBegins, BridgeBound, Resynced, RoutingFails, EndpointRefused, RollbackBegins, At
    <3>2. QED
      BY <1>1, <3>1 DEF BrAbout
  <2>2. QED
    BY <2>1, BrGoesOn
<1>3. \A k \in Jobs : k # j => \A x, y : RoutingBy(k, x, y) => RoutingBy(k, x, y)'
  BY <1>2, BrOthersWait
<1>4. \A w \in Cut : \A x : <<w, x>> \in brFlaws' => x \in Hit(Cut)'
  BY BrHits
<1>5. \A x \in Hit(Halved) : x \in Hit(Cut)'
  BY BrHitMore, BrHitGrows DEF Cut
<1>6. ASSUME \A x \in Parties : peer'[x] # NoPeer /\ ~Excused(x)' =>
                 peer'[x] = peer[x] /\ routed'[x] = routed[x] /\ ~RoutingBy(j, x, peer[x])
      PROVE  BridgesRouted'
  <2>1. SUFFICES ASSUME NEW x \in Parties, peer'[x] # NoPeer, routed'[x] # peer'[x], ~Excused(x)'
                 PROVE  /\ peer'[x] = peer[x] /\ routed[x] # peer[x]
                        /\ \A k \in Jobs : RoutingBy(k, x, peer[x]) => RoutingBy(k, x, peer[x])'
    BY BrExcused
  <2>2. peer'[x] = peer[x] /\ routed[x] # peer[x] /\ ~RoutingBy(j, x, peer[x])
    BY <1>6, <2>1
  <2>3. \A k \in Jobs : k # j /\ RoutingBy(k, x, peer[x]) => RoutingBy(k, x, peer[x])'
    BY <1>3, <2>2
  <2>4. QED
    BY <2>2, <2>3
<1>7. CASE SyncBegins(j) \/ BridgeBound(j) \/ RoutingFails(j)
  <2>1. a \in Parties /\ b \in Parties /\ a # b
    BY <1>7, BrPairLegs DEF SyncBegins, BridgeBound, RoutingFails, At, BrPaired
  <2>2. \A x, y : RoutingBy(j, x, y) => {x, y} = {a, b}
    BY <1>7 DEF SyncBegins, BridgeBound, RoutingFails, At, RoutingBy
  <2>3. CASE SyncBegins(j) /\ Stands(a, b)
    <3>1. peer[a] = b /\ peer[b] = a /\ routed' = Split({a, b}) /\ peer' = peer
      BY <2>3 DEF SyncBegins, Stands
    <3>2. command'[j].at = "hosting" /\ command'[j].a = a /\ command'[j].b = b
      BY <1>1, <2>3 DEF SyncBegins, Goes, BrCommand
    <3>3. \A x, y : {x, y} = {a, b} => RoutingBy(j, x, y)'
      BY <3>2 DEF RoutingBy
    <3> HIDE DEF a, b
    <3>4. QED
      BY <1>2, <2>1, <2>2, <3>1, <3>3, BrRoutedOpens
  <2>4. CASE SyncBegins(j) /\ ~Stands(a, b)
    <3>1. peer' = peer /\ routed' = routed /\ state' = state
      BY <2>4 DEF SyncBegins
    <3>2. ASSUME NEW x \in Parties, peer[x] # NoPeer, {x, peer[x]} = {a, b}
          PROVE  Excused(x)'
      <4>1. CASE peer[peer[x]] # x
        BY <1>5, <3>2, <4>1 DEF PeersMutual, Excused
      <4>2. CASE peer[peer[x]] = x
        <5>1. peer[a] = b /\ peer[b] = a /\ b # NoPeer
          BY <1>1, <2>1, <3>2, <4>2
        <5>2. state[x] # "live" \/ state[peer[x]] # "live"
          BY <2>4, <3>2, <5>1 DEF Stands
        <5>3. QED
          BY <3>1, <5>2 DEF Excused
      <4>3. QED
        BY <4>1, <4>2
    <3> HIDE DEF a, b
    <3>3. QED
      BY <1>6, <2>2, <3>1, <3>2
  <2>5. CASE BridgeBound(j)
    <3>1. Merge(a, b) /\ peer' = peer
      BY <2>5 DEF BridgeBound
    <3> HIDE DEF a, b
    <3>2. QED
      BY <1>2, <2>1, <2>2, <3>1, BrRoutedMerges
  <2>6. CASE RoutingFails(j)
    <3>1. \A x \in Parties : x \notin {a, b} => peer'[x] = peer[x]
      BY <2>1, <2>6 DEF RoutingFails, BrTypes
    <3>2. routed' = routed /\ \A x \in {a, b} : <<"muted", x>> \in brFlaws'
      BY <1>1, <2>1, <2>6 DEF RoutingFails
    <3>3. \A x \in {a, b} : Excused(x)'
      BY <1>4, <3>2 DEF Excused, Cut, Halved
    <3> HIDE DEF a, b
    <3>4. QED
      BY <1>6, <2>2, <3>1, <3>2, <3>3
  <2>7. QED
    BY <1>7, <2>3, <2>4, <2>5, <2>6
<1>8. CASE At(j, "resyncing") /\ (Resynced(j) \/ EndpointRefused(j) \/ RollbackBegins(j))
  <2>1. l \in Seq(Parties) /\ Len(l) = 2
    BY <1>1, <1>8 DEF At, BrAbout, BrCommand
  <2>2. l[1] \in Parties /\ l[2] \in Parties /\ ToSet(l) = {l[1], l[2]}
    BY <2>1 DEF ToSet
  <2>3. \A x, y : RoutingBy(j, x, y) => {x, y} = {l[1], l[2]}
    BY <1>8 DEF At, RoutingBy
  <2>4. CASE Resynced(j)
    <3>1. Merge(l[1], l[2]) /\ peer' = peer
      BY <2>4 DEF Resynced
    <3> HIDE DEF l
    <3>2. QED
      BY <1>2, <2>2, <2>3, <3>1, BrRoutedMerges
  <2>5. CASE EndpointRefused(j) \/ RollbackBegins(j)
    <3>1. peer' = peer /\ routed' = routed /\ Wrong("muted", ToSet(l))
      BY <1>8, <2>5 DEF EndpointRefused, RollbackBegins, Unrouted
    <3>2. \A x \in ToSet(l) : <<"muted", x>> \in brFlaws'
      BY <1>1, <2>2, <3>1 DEF Wrong
    <3>3. \A x \in ToSet(l) : Excused(x)'
      BY <1>4, <3>2 DEF Excused, Cut, Halved
    <3> HIDE DEF l
    <3>4. QED
      BY <1>6, <2>2, <2>3, <3>1, <3>3
  <2>6. QED
    BY <1>8, <2>4, <2>5
<1>9. CASE At(j, "ensuring") /\ (EndpointRefused(j) \/ RollbackBegins(j))
  <2>1. \A x, y : ~RoutingBy(j, x, y)
    BY <1>9 DEF At, RoutingBy
  <2>2. peer' = peer /\ routed' = routed
    BY <1>9 DEF EndpointRefused, RollbackBegins
  <2>3. QED
    BY <1>6, <2>1, <2>2
<1>10. QED
  BY <1>7, <1>8, <1>9 DEF Resynced, EndpointRefused, RollbackBegins

LEMMA BrRoutedDetached ==
    ASSUME BridgingAssumption, BrTypes, TicketsPaired, BridgesRouted, BrNext,
           NEW j \in Jobs, Detached(j)
    PROVE  BridgesRouted'
<1>1. SUFFICES ASSUME NEW x \in Parties, peer'[x] # NoPeer, routed'[x] # peer'[x], ~Excused(x)'
               PROVE  /\ peer'[x] = peer[x] /\ routed[x] # peer[x]
                      /\ \A k \in Jobs : RoutingBy(k, x, peer[x]) => RoutingBy(k, x, peer[x])'
  BY BrExcused
<1>2. PICK C \in SUBSET ToSet(command[j].legs) :
              /\ peer' = [y \in Parties |-> IF y \in C THEN NoPeer ELSE peer[y]]
              /\ \/ \A y \in ToSet(command[j].legs) : <<"unreleased", y>> \in brFlaws'
                 \/ C = ToSet(command[j].legs)
  BY BrDetaches
<1>3. peer'[x] = peer[x] /\ routed[x] # peer[x]
  BY <1>1, <1>2 DEF Detached
<1>4. x \notin ToSet(command[j].legs)
  <2>1. <<"unreleased", x>> \notin brFlaws'
    <3>1. <<"unreleased", x>> \in brFlaws' => x \in Hit(Cut)'
      BY BrHits DEF Cut
    <3>2. QED
      BY <1>1, <3>1 DEF Excused
  <2>2. QED
    BY <1>1, <1>2, <2>1
<1>5. ~RoutingBy(j, x, peer[x])
  BY <1>4 DEF RoutingBy, Detached, At
<1>6. BrCommandStep(j)
  BY BrGoesOn
<1>7. \A k \in Jobs : k # j /\ RoutingBy(k, x, peer[x]) => RoutingBy(k, x, peer[x])'
  BY <1>3, <1>6, BrOthersWait
<1>8. QED
  BY <1>3, <1>5, <1>7

LEMMA BrRoutedRest ==
    ASSUME BridgingAssumption, BrTypes, RoutesPaired, PeersMutual, BridgesRouted, BrNext,
           \A k \in Jobs : ~(\/ SyncBegins(k) \/ BridgeBound(k) \/ RoutingFails(k) \/ Resynced(k)
                             \/ EndpointRefused(k) \/ RollbackBegins(k) \/ Detached(k))
    PROVE  BridgesRouted'
<1>1. NoPeer \notin Parties /\ command \in [Jobs -> BrCommand]
  BY DEF BrTypes, BridgingAssumption
<1>2. ASSUME NEW k \in Jobs, NEW x, NEW y, RoutingBy(k, x, y)
      PROVE  RoutingBy(k, x, y)'
  BY <1>2, BrRoutersStay
<1>3. \A w \in Cut : \A x : <<w, x>> \in brFlaws' => x \in Hit(Cut)'
  BY BrHits
<1>4. \A x \in Hit(Halved) : x \in Hit(Cut)'
  BY BrHitMore, BrHitGrows DEF Cut
<1>5. ASSUME \A x \in Parties : peer'[x] # NoPeer /\ routed'[x] # peer'[x] /\ ~Excused(x)' =>
                 peer'[x] = peer[x] /\ routed[x] # peer[x]
      PROVE  BridgesRouted'
  <2>1. SUFFICES ASSUME NEW x \in Parties, peer'[x] # NoPeer, routed'[x] # peer'[x], ~Excused(x)'
                 PROVE  /\ peer'[x] = peer[x] /\ routed[x] # peer[x]
                        /\ \A k \in Jobs : RoutingBy(k, x, peer[x]) => RoutingBy(k, x, peer[x])'
    BY BrExcused
  <2>2. peer'[x] = peer[x] /\ routed[x] # peer[x]
    BY <1>5, <2>1
  <2>3. QED
    BY <1>2, <2>2
<1>6. CASE peer' = peer /\ routed' = routed
  BY <1>5, <1>6
<1>7. ASSUME NEW j \in Jobs, NEW z \in Parties, EndpointEnsured(j, z), Stands(z, peer[z])
      PROVE  BridgesRouted'
  <2> DEFINE p == peer[z]
  <2>1. /\ p \in Parties /\ peer[p] = z /\ peer' = peer /\ routed' = Split({z, p})
    BY <1>7 DEF EndpointEnsured, Stands, BrTypes, BrHalf
  <2>2. command'[j].at = "resyncing" /\ command'[j].legs = <<z, p>>
    BY <1>1, <1>7 DEF EndpointEnsured, BrCommand
  <2>3. BrCommandStep(j)
    BY <1>7, BrGoesOn
  <2>4. \A x, y : {x, y} = {z, p} => RoutingBy(j, x, y)'
    BY <2>2 DEF RoutingBy
  <2>5. \A x, y : ~RoutingBy(j, x, y)
    BY <1>7 DEF EndpointEnsured, At, RoutingBy
  <2> HIDE DEF p
  <2>6. QED
    BY <2>1, <2>3, <2>4, <2>5, BrRoutedOpens DEF p
<1>8. ASSUME NEW j \in Jobs, RoutingCleared(j)
      PROVE  BridgesRouted'
  <2> DEFINE L == ToSet(command[j].legs)
  <2>1. /\ peer' = peer /\ routed' = Split(L)
        /\ \A y \in Severed(L) \ {NoPeer} : <<"crossed", y>> \in brFlaws'
    BY <1>8 DEF RoutingCleared, Wrong
  <2>2. L \in SUBSET Parties
    <3>1. command[j].legs \in Seq(Parties)
      BY <1>1 DEF BrCommand
    <3>2. QED
      BY <3>1 DEF ToSet
  <2>3. command'[j].at = "detached" /\ command'[j].legs = command[j].legs
    BY <1>1, <1>8 DEF RoutingCleared, Goes, BrCommand
  <2>4. ASSUME NEW x \in L
        PROVE  Excused(x)'
    <3>1. RoutingBy(j, x, peer[x])'
      BY <2>3 DEF RoutingBy
    <3>2. QED
      BY <3>1 DEF Excused
  <2> HIDE DEF L
  <2>5. ASSUME NEW x \in Parties, peer[x] # NoPeer, routed'[x] # peer[x], ~Excused(x)',
               routed[x] = peer[x]
        PROVE  FALSE
    <3>1. x \notin L
      BY <2>4, <2>5
    <3>2. peer[x] \in L
      BY <2>1, <2>5, <3>1 DEF Split
    <3>3. routed[peer[x]] = x /\ (peer[peer[x]] = x \/ x \in Hit(Halved))
      BY <2>2, <2>5, <3>1, <3>2, BrSplitCuts
    <3>4. CASE peer[peer[x]] = x
      <4>1. x \in Severed(L)
        BY <3>1, <3>2, <3>3, <3>4 DEF Severed
      <4>2. <<"crossed", x>> \in brFlaws'
        BY <1>1, <2>1, <4>1
      <4>3. QED
        BY <1>3, <2>5, <4>2 DEF Excused, Cut
    <3>5. QED
      BY <1>4, <2>5, <3>3, <3>4 DEF Excused
  <2>6. QED
    BY <1>5, <2>1, <2>5
<1>9. ASSUME NEW j \in Jobs, PeersSet(j)
      PROVE  BridgesRouted'
  <2> DEFINE a == command[j].a  b == command[j].b
  <2>1. a \in Parties /\ b \in Parties /\ a # b
    BY <1>9, BrPairLegs DEF PeersSet, At, BrPaired
  <2>2. \A x \in Parties : peer'[x] = IF x = a THEN b ELSE IF x = b THEN a ELSE peer[x]
    BY <1>9, <2>1 DEF PeersSet, BrTypes
  <2>3. /\ command'[j].at = "syncing" /\ command'[j].a = a /\ command'[j].b = b
        /\ routed' = routed
    BY <1>1, <1>9 DEF PeersSet, Goes, BrCommand
  <2>4. ASSUME NEW x \in {a, b}
        PROVE  Excused(x)'
    <3>1. {x, peer'[x]} = {a, b}
      BY <2>1, <2>2
    <3>2. RoutingBy(j, x, peer[x])'
      BY <2>3, <3>1 DEF RoutingBy
    <3>3. QED
      BY <3>2 DEF Excused
  <2> HIDE DEF a, b
  <2>5. QED
    BY <1>5, <2>2, <2>3, <2>4
<1>10. ASSUME NEW z \in Parties, TerminationBegins(z)
       PROVE  BridgesRouted'
  <2>1. routed' = routed /\ \A x \in Parties : peer'[x] \in {NoPeer, peer[x]}
    BY <1>10 DEF TerminationBegins
  <2>2. QED
    BY <1>5, <2>1
<1>11. ASSUME NEW z \in Parties, LegGone(z)
       PROVE  BridgesRouted'
  <2>1. /\ routed' = Split({z}) /\ peer'[z] = NoPeer /\ state'[z] = "gone"
        /\ \A x \in Parties : x # z => peer'[x] = peer[x]
    BY <1>11 DEF LegGone, BrTypes
  <2>2. ASSUME NEW x \in Parties, peer'[x] # NoPeer, routed'[x] # peer'[x], ~Excused(x)'
        PROVE  peer'[x] = peer[x] /\ routed[x] # peer[x]
    <3>1. x # z /\ peer'[x] = peer[x]
      BY <2>1, <2>2
    <3>2. peer'[x] # z
      BY <2>1, <2>2 DEF Excused
    <3>3. QED
      BY <2>1, <2>2, <3>1, <3>2 DEF Split
  <2>3. QED
    BY <1>5, <2>2
<1>12. ASSUME NEW j \in Jobs,
              \/ \E a, b \in Parties : BridgeBegins(j, a, b)
              \/ Retained(j) \/ RetentionRefused(j) \/ Hosted(j) \/ Published(j)
              \/ \E x \in Parties : \/ UnbridgeBegins(j, x) \/ EndpointAsked(j, x)
                                    \/ EndpointEnsured(j, x) /\ ~Stands(x, peer[x])
       PROVE  peer' = peer /\ routed' = routed
  BY <1>12 DEF BridgeBegins, Retained, RetentionRefused, Hosted, Published, UnbridgeBegins,
               EndpointAsked, EndpointEnsured, Over
<1>13. ASSUME NEW x \in Parties, LegEnds(x)
       PROVE  peer' = peer /\ routed' = routed
  BY <1>13 DEF LegEnds
<1>14. QED
  BY <1>6, <1>7, <1>8, <1>9, <1>10, <1>11, <1>12, <1>13 DEF BrNext

LEMMA BrRoutedKept ==
    ASSUME BridgingAssumption, BrTypes, TicketsPaired, RoutesPaired, PeersMutual, BridgesRouted,
           BrNext
    PROVE  BridgesRouted'
BY BrRoutedJobs, BrRoutedDetached, BrRoutedRest

-----------------------------------------------------------------------------
(* What bridges promise.                                                     *)

BrInv ==
    /\ BrTypes /\ PeersMutual /\ PeersProper /\ LeaversAlone /\ BrSlots /\ TicketsOwned
    /\ SlotsBridge /\ BridgesTicketed /\ RoutesPaired /\ RoutesBridge /\ BridgesRouted

LEMMA BrInitially ==
    ASSUME BridgingAssumption, BrInit
    PROVE  BrInv
<1>1. /\ MaxJobs \in Nat /\ NoPeer \notin Parties
      /\ \A x \in Parties : peer[x] = NoPeer /\ routed[x] = NoPeer /\ slot[x] = NoTicket
                            /\ state[x] = "live"
      /\ \A j \in Jobs : command[j] = NoCommand
      /\ held = {} /\ begun = 0
  BY DEF BrInit, BridgingAssumption
<1>2. NoTicket.ticket = 0 /\ NoCommand.id = 0 /\ NoCommand.at = "none"
  BY DEF NoTicket, NoCommand
<1>3. BrTypes
  <2>1. NoCommand \in BrCommand /\ BrAbout(NoCommand)
    BY DEF NoCommand, BrCommand, BrHalf, BrPaired, BrAbout
  <2>2. /\ state \in [Parties -> {"live", "ended", "terminated", "gone"}]
        /\ peer \in [Parties -> BrHalf] /\ routed \in [Parties -> BrHalf]
        /\ slot \in [Parties -> {NoTicket} \cup [ticket : 1 .. begun, with : Parties]]
    BY DEF BrInit, BrHalf
  <2>3. command \in [Jobs -> BrCommand]
    BY <2>1 DEF BrInit
  <2>4. \A j \in Jobs : command[j].id =< begun /\ BrAbout(command[j])
    BY <1>1, <1>2, <2>1
  <2>5. \A j, k \in Jobs : j # k /\ command[j].id = command[k].id => command[j].id = 0
    BY <1>1, <1>2
  <2>6. begun \in 0 .. MaxJobs /\ held \subseteq 1 .. begun
    BY <1>1
  <2>7. QED
    BY <2>2, <2>3, <2>4, <2>5, <2>6 DEF BrTypes
<1>4. PeersMutual /\ PeersProper /\ LeaversAlone
  BY <1>1 DEF PeersMutual, PeersProper, LeaversAlone
<1>5. BrSlots /\ TicketsOwned /\ SlotsBridge /\ BridgesTicketed
  BY <1>1, <1>2 DEF BrSlots, TicketsPaired, SlotsPaired, HeldStands, TicketsOwned, SlotsBridge,
                    BridgesTicketed
<1>6. RoutesPaired /\ RoutesBridge /\ BridgesRouted
  BY <1>1 DEF RoutesPaired, RoutesBridge, BridgesRouted
<1>7. QED
  BY <1>3, <1>4, <1>5, <1>6 DEF BrInv

LEMMA BrNextKeeps ==
    ASSUME BridgingAssumption, BrInv, BrNext
    PROVE  BrInv'
<1>1. /\ BrTypes /\ PeersMutual /\ PeersProper /\ LeaversAlone /\ BrSlots /\ TicketsOwned
      /\ SlotsBridge /\ BridgesTicketed /\ RoutesPaired /\ RoutesBridge /\ BridgesRouted
      /\ TicketsPaired
  BY DEF BrInv, BrSlots
<1>2. BrTypes'
  BY <1>1, BrTypesKept
<1>3. PeersMutual' /\ LeaversAlone' /\ PeersProper'
  BY <1>1, BrPeersKept, BrProperKept
<1>4. BrSlots' /\ TicketsOwned'
  BY <1>1, BrSlotsKept, BrOwnersKept
<1>5. SlotsBridge' /\ BridgesTicketed'
  BY <1>1, BrBridgesKept
<1>6. RoutesPaired' /\ RoutesBridge' /\ BridgesRouted'
  BY <1>1, BrRoutesPairedKept, BrRoutesBridgeKept, BrRoutedKept
<1>7. QED
  BY <1>2, <1>3, <1>4, <1>5, <1>6 DEF BrInv

LEMMA BrStutter ==
    ASSUME BrInv, UNCHANGED brVars
    PROVE  BrInv'
<1>1. /\ state' = state /\ peer' = peer /\ slot' = slot /\ held' = held /\ routed' = routed
      /\ command' = command /\ begun' = begun /\ brFlaws' = brFlaws
  BY DEF brVars
<1>2. BrTypes' /\ TicketsOwned'
  BY <1>1 DEF BrInv, BrTypes, TicketsOwned
<1>3. PeersMutual' /\ PeersProper' /\ LeaversAlone'
  BY <1>1 DEF BrInv, PeersMutual, PeersProper, LeaversAlone, Hit
<1>4. BrSlots'
  BY <1>1 DEF BrInv, BrSlots, TicketsPaired, SlotsPaired, HeldStands, Tickets, Hit
<1>5. SlotsBridge' /\ BridgesTicketed'
  BY <1>1 DEF BrInv, SlotsBridge, BridgesTicketed, SlotSetting, Setting, At, Hit
<1>6. RoutesPaired' /\ RoutesBridge' /\ BridgesRouted'
  BY <1>1 DEF BrInv, RoutesPaired, RoutesBridge, BridgesRouted, Excused, RoutingBy, Hit
<1>7. QED
  BY <1>2, <1>3, <1>4, <1>5, <1>6 DEF BrInv

LEMMA BrInvIsSafe ==
    ASSUME BridgingAssumption, BrInv
    PROVE  BridgingSafe
<1>1. /\ BrTypes /\ PeersMutual /\ LeaversAlone /\ SlotsPaired /\ HeldStands
      /\ SlotsBridge /\ BridgesTicketed /\ RoutesBridge /\ BridgesRouted /\ NoPeer \notin Parties
  BY DEF BrInv, BrSlots, BridgingAssumption
<1>2. BrTypeOK
  <2>1. begun \in Nat /\ begun =< MaxJobs /\ MaxJobs \in Nat
    BY <1>1 DEF BrTypes, BridgingAssumption
  <2>2. held \subseteq 1 .. begun /\ held \subseteq 1 .. MaxJobs
    BY <1>1, <2>1 DEF BrTypes
  <2>3. {NoTicket} \cup [ticket : 1 .. begun, with : Parties]
            \subseteq [ticket : 0 .. MaxJobs, with : Parties \cup {NoPeer}]
    BY <2>1 DEF NoTicket
  <2>4. slot \in [Parties -> [ticket : 0 .. MaxJobs, with : Parties \cup {NoPeer}]]
    BY <1>1, <2>3 DEF BrTypes
  <2>5. QED
    BY <1>1, <2>2, <2>4 DEF BrTypeOK, BrTypes, BrHalf
<1>3. PeersAgree
  BY <1>1 DEF PeersMutual, PeersAgree, Halved
<1> DEFINE Bad == {"overwritten", "torn", "late", "muted", "unreleased", "swept"}
<1>4. ASSUME Quiet, NEW x \in Parties
      PROVE  /\ state[x] # "live" => state[x] = "gone"
             /\ state[x] # "terminated" /\ ~Setting(x) /\ ~SlotSetting(x)
             /\ \A k \in Jobs : \A y : ~RoutingBy(k, x, y)
  BY <1>4 DEF Quiet, Setting, SlotSetting, RoutingBy, At
<1>5. \A x \in Parties : /\ peer[x] # NoPeer => peer[x] \in Parties
                         /\ routed[x] # NoPeer => routed[x] \in Parties
  BY <1>1 DEF BrTypes, BrHalf
<1>6. TicketsAreBridges
  <2>1. SUFFICES ASSUME Quiet
                 PROVE  /\ \A x \in Parties : slot[x].ticket # 0 =>
                              (peer[x] = slot[x].with /\ slot[x].ticket \in held) \/ x \in Hit(Bad)
                        /\ \A t \in held : t \in Tickets(slot) \/ Hit({"overwritten"}) # {}
    BY DEF TicketsAreBridges
  <2>2. ASSUME NEW x \in Parties, slot[x].ticket # 0
        PROVE  (peer[x] = slot[x].with /\ slot[x].ticket \in held) \/ x \in Hit(Bad)
    <3>1. slot[x].ticket \in held
      BY <1>1, <2>2 DEF SlotsPaired
    <3>2. peer[x] = slot[x].with \/ x \in Hit(Undone)
      BY <1>1, <1>4, <2>1, <2>2 DEF SlotsBridge
    <3>3. Undone = Bad
      BY DEF Undone, Halved
    <3>4. QED
      BY <3>1, <3>2, <3>3
  <2>3. QED
    BY <1>1, <2>2 DEF HeldStands
<1>7. ASSUME Quiet, NEW x \in Parties, peer[x] # NoPeer, x \notin Hit(Halved)
      PROVE  state[x] = "live" /\ state[peer[x]] = "live"
  BY <1>1, <1>4, <1>5, <1>7 DEF LeaversAlone
<1>8. BridgedIsHeld
  <2>1. SUFFICES ASSUME Quiet, NEW x \in Parties, peer[x] # NoPeer,
                        x \notin Hit(Bad \cup {"unheld", "stolen"})
                 PROVE  state[peer[x]] = "live" /\ slot[x].ticket # 0
    <3>1. Bad \cup {"unheld", "stolen"} = {"overwritten", "torn", "late", "muted", "unreleased",
                                           "swept", "unheld", "stolen"}
      OBVIOUS
    <3> HIDE DEF Bad
    <3>2. QED
      BY <3>1 DEF BridgedIsHeld
  <2>2. Undone = Bad /\ Halved \subseteq Bad \cup {"unheld", "stolen"}
    BY DEF Undone, Halved
  <2>3. x \notin Hit(Halved)
    BY <2>1, <2>2, BrHitMore
  <2>4. slot[x].ticket # 0
    BY <1>1, <1>4, <2>1, <2>2 DEF BridgesTicketed
  <2>5. QED
    BY <1>7, <2>1, <2>3, <2>4
<1>9. SoundFollowsBridge
  <2>1. SUFFICES ASSUME Quiet, NEW x \in Parties, routed[x] # peer[x], x \notin Hit(Bad \cup {"crossed"})
                 PROVE  routed[x] # NoPeer /\ routed[x] \in Hit({"crossed", "swept"})
    <3>1. Bad \cup {"crossed"} = {"crossed", "overwritten", "torn", "late", "muted", "swept",
                                  "unreleased"}
      OBVIOUS
    <3> HIDE DEF Bad
    <3>2. QED
      BY <3>1 DEF SoundFollowsBridge
  <2>2. /\ Undone \cup {"crossed"} = Bad \cup {"crossed"}
        /\ Halved \subseteq Bad \cup {"crossed"} /\ Cut \subseteq Bad \cup {"crossed"}
    BY DEF Undone, Halved, Cut
  <2>3. x \notin Hit(Undone \cup {"crossed"}) /\ x \notin Hit(Halved) /\ x \notin Hit(Cut)
    BY <2>1, <2>2, BrHitMore
  <2>4. CASE routed[x] # NoPeer
    BY <1>1, <1>4, <1>5, <2>1, <2>3, <2>4 DEF RoutesBridge
  <2>5. CASE routed[x] = NoPeer
    <3>1. peer[x] # NoPeer /\ Excused(x)
      BY <1>1, <2>1, <2>5 DEF BridgesRouted
    <3>2. FALSE
      BY <1>4, <1>7, <2>1, <2>3, <3>1 DEF Excused
    <3>3. QED
      BY <3>2
  <2>6. QED
    BY <2>4, <2>5
<1>10. QED
  BY <1>2, <1>3, <1>6, <1>8, <1>9 DEF BridgingSafe

\* However commands bridge and unbridge legs, endpoints are ensured, and legs
\* end meanwhile: a peer is mutual; at rest a leg is bridged with a live leg
\* and has a ticket that is held, a ticket that is held stands for a bridge,
\* and sound goes between the legs of a bridge and no others, but for the legs
\* a step is noted to have harmed.
THEOREM BridgingIsSafe == BrSpec => []BridgingSafe
<1>1. BrInit => BrInv
  BY BridgingAssumption, BrInitially
<1>2. BrInv /\ [BrNext]_brVars => BrInv'
  BY BridgingAssumption, BrNextKeeps, BrStutter
<1>3. BrInv => BridgingSafe
  BY BridgingAssumption, BrInvIsSafe
<1>4. QED
  BY <1>1, <1>2, <1>3, PTL DEF BrSpec

-----------------------------------------------------------------------------
(* The playback loop of a leg.                                             *)

Playback == [state : {"new", "on", "gone"}, prio : {0, 1}, duck : {0, 1}]
Source == [kind : {"none", "tone", "buffered"}, left : 0..2,
           finished : BOOLEAN, emitted : BOOLEAN]
BridgeFrame == [id : Nat, left : Nat \ {0}, ok : BOOLEAN]
Promise == {"open", "sent", "failed"}

PlTypes ==
    /\ playbacks \in [Plays -> Playback]
    /\ sources \in [Plays -> Source]
    /\ bridged \in Seq(BridgeFrame) /\ promises \in Seq(Promise)
    /\ looping \in BOOLEAN /\ lpClosed \in BOOLEAN /\ ended \subseteq Plays
    /\ job \in [on : BOOLEAN, snap : SUBSET Plays, touched : SUBSET Nat,
                consumed : SUBSET BridgeFrame]

Holds(q, i) == \E k \in DOMAIN q : q[k].id = i
Apart(q) == \A j, k \in DOMAIN q : q[j].id = q[k].id => j = k
Sent(i) == \E f \in job.consumed : f.id = i

\* A frame is queued once, and no more when it is being sent.
FramesApart ==
    /\ Apart(bridged)
    /\ \A k \in DOMAIN bridged : bridged[k].id \in 1..Len(promises)
    /\ \A f \in job.consumed : f.id \in 1..Len(promises) /\ ~Holds(bridged, f.id)

\* A promise is open while its frame is queued or sent.
PromiseInv == \A i \in 1..Len(promises) : promises[i] = "open" <=> Holds(bridged, i) \/ Sent(i)

\* The loop runs while its callback awaits a send; nothing outlives close().
LoopInv ==
    /\ ~job.on => job.consumed = {}
    /\ job.on /\ ~lpClosed => looping
    /\ lpClosed => ~looping /\ bridged = <<>> /\ Registered = {}

\* Sound belongs to a registration, and what ended was registered once.
SourceInv ==
    /\ \A m \in Plays : playbacks[m].state # "on" => sources[m] = NoSource
    /\ \A m \in ended : playbacks[m].state # "new"

PlInv ==
    /\ PlTypes /\ FramesApart /\ PromiseInv /\ LoopInv /\ SourceInv
    /\ SoundIsPlayed /\ EndIsTheEnd

LEMMA UnitTakes ==
    ASSUME NEW q \in Seq(BridgeFrame), Apart(q), q # <<>>
    PROVE  /\ q[1] \in BridgeFrame
           /\ UnitTaken(q) \in Seq(BridgeFrame) /\ Apart(UnitTaken(q))
           /\ \A i \in Nat : Holds(q, i) <=> \/ Holds(UnitTaken(q), i)
                                             \/ q[1].left = 1 /\ q[1].id = i
           /\ q[1].left = 1 => ~Holds(UnitTaken(q), q[1].id)
<1>1. 1 \in DOMAIN q /\ q[1] \in BridgeFrame /\ Len(q) \in Nat /\ DOMAIN q = 1..Len(q) /\ Len(q) >= 1
    OBVIOUS
<1>2. CASE q[1].left = 1
    <2>1. UnitTaken(q) = Tail(q)
        BY <1>2 DEF UnitTaken
    <2>2. Tail(q) \in Seq(BridgeFrame) /\ DOMAIN Tail(q) = 1..(Len(q) - 1)
        BY <1>1
    <2>3. \A k \in 1..(Len(q) - 1) : Tail(q)[k] = q[k + 1] /\ k + 1 \in DOMAIN q
        BY <1>1
    <2>4. Apart(Tail(q))
        BY <1>1, <2>2, <2>3 DEF Apart
    <2>5. ASSUME NEW i \in Nat, Holds(q, i), q[1].id # i  PROVE Holds(Tail(q), i)
        <3>1. PICK k \in DOMAIN q : q[k].id = i
            BY <2>5 DEF Holds
        <3>2. k # 1 /\ k - 1 \in 1..(Len(q) - 1) /\ k = (k - 1) + 1
            BY <3>1, <2>5, <1>1
        <3>3. Tail(q)[k - 1] = q[k]
            BY <3>2, <2>3
        <3> QED
            BY <3>1, <3>2, <3>3, <2>2 DEF Holds
    <2>6. ASSUME NEW i \in Nat, Holds(Tail(q), i)  PROVE Holds(q, i) /\ q[1].id # i
        <3>1. PICK k \in DOMAIN Tail(q) : Tail(q)[k].id = i
            BY <2>6 DEF Holds
        <3>2. k + 1 \in DOMAIN q /\ q[k + 1].id = i /\ k + 1 # 1
            BY <3>1, <2>2, <2>3
        <3> QED
            BY <3>2, <1>1 DEF Holds, Apart
    <2>7. Holds(q, q[1].id) /\ q[1].id \in Nat
        BY <1>1 DEF Holds, BridgeFrame
    <2> QED
        BY <1>1, <1>2, <2>1, <2>2, <2>4, <2>5, <2>6, <2>7
<1>3. CASE q[1].left # 1
    <2> DEFINE r == [q EXCEPT ![1].left = @ - 1]
    <2>1. UnitTaken(q) = r
        BY <1>3 DEF UnitTaken
    <2>2. [q[1] EXCEPT !.left = @ - 1] \in BridgeFrame /\ [q[1] EXCEPT !.left = @ - 1].id = q[1].id
        <3>1. q[1].left \in Nat /\ q[1].left # 0 /\ q[1].left # 1
            BY <1>1, <1>3 DEF BridgeFrame
        <3>2. q[1].left - 1 \in Nat \ {0}
            BY <3>1
        <3> QED
            BY <1>1, <3>2 DEF BridgeFrame
    <2>3. DOMAIN r = DOMAIN q /\ \A k \in DOMAIN q : r[k] = IF k = 1 THEN [q[1] EXCEPT !.left = @ - 1] ELSE q[k]
        OBVIOUS
    <2>4. r \in Seq(BridgeFrame)
        BY <1>1, <2>2
    <2>5. \A k \in DOMAIN q : r[k].id = q[k].id
        BY <2>2, <2>3
    <2> QED
        BY <1>1, <1>3, <2>1, <2>3, <2>4, <2>5 DEF Apart, Holds
<1> QED
    BY <1>2, <1>3

\* What two units take: a frame that is used up leaves the queue, the others
\* stay.
LEMMA FrameTakes ==
    ASSUME bridged \in Seq(BridgeFrame), Apart(bridged)
    PROVE  /\ AfterTake \in Seq(BridgeFrame) /\ Apart(AfterTake)
           /\ Exhausted \in SUBSET BridgeFrame /\ Touched \in SUBSET Nat
           /\ \A i \in Nat : Holds(bridged, i) <=> \/ Holds(AfterTake, i)
                                                   \/ \E f \in Exhausted : f.id = i
           /\ \A f \in Exhausted : ~Holds(AfterTake, f.id)
           /\ Touched = {} => bridged = <<>> /\ Exhausted = {}
<1> DEFINE u == UnitTaken(bridged)
<1>1. CASE bridged = <<>>
    <2>1. u = <<>> /\ AfterTake = <<>>
        BY <1>1 DEF UnitTaken, AfterTake
    <2>2. Givers = {}
        BY <1>1, <2>1 DEF Givers
    <2> QED
        BY <1>1, <2>1, <2>2 DEF Touched, Exhausted, Apart, Holds
<1>2. CASE bridged # <<>>
    <2>1. /\ bridged[1] \in BridgeFrame /\ u \in Seq(BridgeFrame) /\ Apart(u)
          /\ \A i \in Nat : Holds(bridged, i) <=> Holds(u, i) \/ (bridged[1].left = 1 /\ bridged[1].id = i)
          /\ bridged[1].left = 1 => ~Holds(u, bridged[1].id)
        BY <1>2, UnitTakes
    <2>2. bridged[1].id \in Nat
        BY <2>1 DEF BridgeFrame
    <2>3. CASE u = <<>>
        <3>1. AfterTake = <<>> /\ Givers = {bridged[1]}
            BY <1>2, <2>3 DEF AfterTake, UnitTaken, Givers
        <3>2. \A i : ~Holds(AfterTake, i) /\ ~Holds(u, i)
            BY <3>1, <2>3 DEF Holds
        <3>3. Touched = {bridged[1].id}
            BY <3>1 DEF Touched
        <3>4. \A f : f \in Exhausted <=> f = bridged[1] /\ bridged[1].left = 1
            BY <3>1 DEF Exhausted
        <3>5. \A i \in Nat : Holds(bridged, i) <=> bridged[1].left = 1 /\ bridged[1].id = i
            BY <2>1, <3>2
        <3>6. AfterTake \in Seq(BridgeFrame) /\ Apart(AfterTake)
            BY <3>1 DEF Apart
        <3> QED
            BY <2>1, <2>2, <3>2, <3>3, <3>4, <3>5, <3>6
    <2>4. CASE u # <<>>
        <3>1. /\ u[1] \in BridgeFrame /\ UnitTaken(u) \in Seq(BridgeFrame) /\ Apart(UnitTaken(u))
              /\ \A i \in Nat : Holds(u, i) <=> Holds(UnitTaken(u), i) \/ (u[1].left = 1 /\ u[1].id = i)
              /\ u[1].left = 1 => ~Holds(UnitTaken(u), u[1].id)
            BY <2>1, <2>4, UnitTakes
        <3>2. AfterTake = UnitTaken(u) /\ Givers = {bridged[1], u[1]}
            BY <1>2, <2>4 DEF AfterTake, Givers
        <3>3. u[1].id \in Nat
            BY <3>1 DEF BridgeFrame
        <3>4. Touched = {bridged[1].id, u[1].id}
            BY <3>2 DEF Touched
        <3>5. \A f : f \in Exhausted <=> \/ f = bridged[1] /\ bridged[1].left = 1
                                         \/ f = u[1] /\ u[1].left = 1
            BY <3>2 DEF Exhausted
        <3>6. Touched \in SUBSET Nat /\ Touched # {}
            BY <2>2, <3>3, <3>4
        <3>7. Exhausted \in SUBSET BridgeFrame
            BY <2>1, <3>1, <3>5
        <3>8. ASSUME NEW i \in Nat
              PROVE  Holds(bridged, i) <=> Holds(AfterTake, i) \/ \E f \in Exhausted : f.id = i
            <4>1. Holds(bridged, i) <=> \/ Holds(AfterTake, i)
                                        \/ u[1].left = 1 /\ u[1].id = i
                                        \/ bridged[1].left = 1 /\ bridged[1].id = i
                BY <2>1, <3>1, <3>2
            <4>2. (\E f \in Exhausted : f.id = i) <=>
                      \/ u[1].left = 1 /\ u[1].id = i
                      \/ bridged[1].left = 1 /\ bridged[1].id = i
                BY <3>5
            <4> QED
                BY <4>1, <4>2
        <3>9. ASSUME NEW f \in Exhausted  PROVE ~Holds(AfterTake, f.id)
            <4>1. CASE f = bridged[1] /\ bridged[1].left = 1
                BY <4>1, <2>1, <2>2, <3>1, <3>2
            <4>2. CASE f = u[1] /\ u[1].left = 1
                BY <4>2, <3>1, <3>2
            <4> QED
                BY <4>1, <4>2, <3>5
        <3>10. AfterTake \in Seq(BridgeFrame) /\ Apart(AfterTake)
            BY <3>1, <3>2
        <3> QED
            BY <3>6, <3>7, <3>8, <3>9, <3>10
    <2> QED
        BY <2>3, <2>4
<1> QED
    BY <1>1, <1>2

LEMMA PlInit == LpInit => PlInv
<1> SUFFICES ASSUME LpInit  PROVE PlInv
    OBVIOUS
<1>1. PlTypes
    <2>1. Nobody \in Playback /\ NoSource \in Source
        BY DEF Nobody, NoSource, Playback, Source
    <2>2. NoJob \in [on : BOOLEAN, snap : SUBSET Plays, touched : SUBSET Nat,
                     consumed : SUBSET BridgeFrame]
        BY DEF NoJob
    <2>3. <<>> \in Seq(BridgeFrame) /\ <<>> \in Seq(Promise)
        OBVIOUS
    <2> QED
        BY <2>1, <2>2, <2>3 DEF LpInit, PlTypes
<1>2. Registered = {} /\ job.consumed = {} /\ job.on = FALSE
    BY DEF LpInit, Registered, Nobody, NoJob
<1>3. FramesApart /\ PromiseInv /\ LoopInv
    BY <1>2 DEF LpInit, FramesApart, PromiseInv, LoopInv, Apart
<1>4. SourceInv
    BY DEF LpInit, SourceInv
<1>5. ~SoundOf(playbacks, sources)
    BY DEF LpInit, SoundOf, NoSource, Nobody
<1> QED
    BY <1>1, <1>3, <1>4, <1>5 DEF LpInit, PlInv, SoundIsPlayed, EndIsTheEnd

\* What speaks of the frames of the bridge only.
LEMMA FramesStay ==
    ASSUME FramesApart, PromiseInv, bridged' = bridged, promises' = promises,
           job'.consumed = job.consumed
    PROVE  FramesApart' /\ PromiseInv'
BY DEF FramesApart, PromiseInv, Apart, Holds, Sent

LEMMA RegisterKeeps ==
    ASSUME PlInv, NEW m \in Plays, NEW kind \in {"tone", "stream"}, NEW prio \in {0, 1},
           NEW duck \in {0, 1}, Register(m, kind, prio, duck)
    PROVE  PlInv'
<1>1. /\ playbacks[m].state = "new" /\ ~lpClosed
      /\ playbacks' = [playbacks EXCEPT ![m] = [state |-> "on", prio |-> prio, duck |-> duck]]
      /\ UNCHANGED <<bridged, promises, job, ended, lpClosed, lpFlaws>>
      /\ \/ kind = "tone" /\ looping' = TRUE
            /\ sources' = [sources EXCEPT ![m] =
                  [kind |-> "tone", left |-> 1, finished |-> TRUE, emitted |-> FALSE]]
         \/ UNCHANGED <<sources, looping>>
    BY DEF Register, Ensured
<1>2. PlTypes'
    <2>1. [state |-> "on", prio |-> prio, duck |-> duck] \in Playback
        BY DEF Playback
    <2>2. [kind |-> "tone", left |-> 1, finished |-> TRUE, emitted |-> FALSE] \in Source
        BY DEF Source
    <2>3. playbacks' \in [Plays -> Playback]
        BY <1>1, <2>1 DEF PlInv, PlTypes
    <2>4. sources' \in [Plays -> Source] /\ looping' \in BOOLEAN
        BY <1>1, <2>2 DEF PlInv, PlTypes
    <2> QED
        BY <1>1, <2>3, <2>4 DEF PlInv, PlTypes
<1>3. FramesApart' /\ PromiseInv'
    BY <1>1, FramesStay DEF PlInv
<1>4. LoopInv'
    BY <1>1 DEF PlInv, LoopInv
<1>5. \A n \in Plays : playbacks'[n] = IF n = m THEN [state |-> "on", prio |-> prio, duck |-> duck] ELSE playbacks[n]
    BY <1>1 DEF PlInv, PlTypes
<1>6. \A n \in Plays \ {m} : sources'[n] = sources[n]
    BY <1>1 DEF PlInv, PlTypes
<1>7. m \notin ended /\ sources[m] = NoSource
    BY <1>1 DEF PlInv, SourceInv
<1>8. SourceInv'
    BY <1>1, <1>5, <1>6, <1>7 DEF PlInv, PlTypes, SourceInv
<1>9. SoundIsPlayed'
    <2>1. CASE looping' = TRUE
        BY <2>1 DEF SoundIsPlayed
    <2>2. CASE UNCHANGED <<sources, looping>>
        <3>1. SoundOf(playbacks, sources)' => SoundOf(playbacks, sources)
            BY <2>2, <1>5, <1>7 DEF SoundOf, NoSource
        <3> QED
            BY <1>1, <2>2, <3>1 DEF PlInv, SoundIsPlayed
    <2> QED
        BY <1>1, <2>1, <2>2
<1>10. EndIsTheEnd'
    BY <1>1, <1>5, <1>6, <1>7 DEF PlInv, PlTypes, EndIsTheEnd, Registered
<1> QED
    BY <1>2, <1>3, <1>4, <1>8, <1>9, <1>10 DEF PlInv

LEMMA StreamKeeps ==
    ASSUME PlInv, NEW m \in Plays, AppendChunk(m) \/ FinishPlayback(m)
    PROVE  PlInv'
<1>1. /\ m \in Registered /\ ~sources[m].finished /\ looping' = TRUE
      /\ UNCHANGED <<playbacks, bridged, promises, job, ended, lpClosed, lpFlaws>>
    BY DEF AppendChunk, FinishPlayback, IsStream, Ensured
<1>2. ~lpClosed /\ playbacks[m].state = "on" /\ m \notin ended
    BY <1>1 DEF PlInv, LoopInv, EndIsTheEnd, Registered
<1>3. /\ sources' \in [Plays -> Source]
      /\ \A n \in Plays \ {m} : sources'[n] = sources[n]
    <2>1. CASE AppendChunk(m)
        BY <2>1 DEF AppendChunk, PlInv, PlTypes, Source
    <2>2. CASE FinishPlayback(m)
        BY <2>2 DEF FinishPlayback, PlInv, PlTypes, Source
    <2> QED
        BY <2>1, <2>2
<1>4. PlTypes'
    BY <1>1, <1>3 DEF PlInv, PlTypes
<1>5. FramesApart' /\ PromiseInv'
    BY <1>1, FramesStay DEF PlInv
<1>6. LoopInv' /\ SoundIsPlayed'
    BY <1>1, <1>2 DEF PlInv, LoopInv, SoundIsPlayed
<1>7. SourceInv'
    BY <1>1, <1>2, <1>3 DEF PlInv, SourceInv
<1>8. EndIsTheEnd'
    BY <1>1, <1>2, <1>3 DEF PlInv, PlTypes, EndIsTheEnd, Registered
<1> QED
    BY <1>4, <1>5, <1>6, <1>7, <1>8 DEF PlInv

LEMMA UnregisterKeeps ==
    ASSUME PlInv, NEW m \in Plays, Unregister(m)
    PROVE  PlInv'
<1>1. /\ playbacks[m].state = "on"
      /\ playbacks' = [playbacks EXCEPT ![m] = Gone] /\ sources' = [sources EXCEPT ![m] = NoSource]
      /\ UNCHANGED <<bridged, promises, looping, job, ended, lpClosed, lpFlaws>>
    BY DEF Unregister, Registered
<1>2. Gone.state = "gone" /\ Gone \in Playback /\ NoSource \in Source /\ NoSource.kind = "none"
    BY DEF Gone, Nobody, NoSource, Playback, Source
<1>3. \A n \in Plays : /\ playbacks'[n] = IF n = m THEN Gone ELSE playbacks[n]
                       /\ sources'[n] = IF n = m THEN NoSource ELSE sources[n]
    BY <1>1 DEF PlInv, PlTypes
<1>4. PlTypes'
    BY <1>1, <1>2 DEF PlInv, PlTypes
<1>5. FramesApart' /\ PromiseInv'
    BY <1>1, FramesStay DEF PlInv
<1>6. LoopInv'
    BY <1>1, <1>2, <1>3 DEF PlInv, LoopInv, Registered
<1>7. SourceInv'
    BY <1>1, <1>2, <1>3 DEF PlInv, PlTypes, SourceInv
<1>8. SoundOf(playbacks, sources)' => SoundOf(playbacks, sources)
    BY <1>2, <1>3 DEF SoundOf
<1>9. SoundIsPlayed'
    BY <1>1, <1>8 DEF PlInv, SoundIsPlayed
<1>10. EndIsTheEnd'
    BY <1>1, <1>2, <1>3 DEF PlInv, EndIsTheEnd, Registered
<1> QED
    BY <1>4, <1>5, <1>6, <1>7, <1>9, <1>10 DEF PlInv

LEMMA BridgePcmKeeps ==
    ASSUME PlInv, NEW n \in {1, 3}, SendBridgePcm(n)
    PROVE  PlInv'
<1> DEFINE f == [id |-> Len(promises) + 1, left |-> n, ok |-> TRUE]
<1>1. /\ ~lpClosed /\ bridged' = Append(bridged, f) /\ promises' = Append(promises, "open")
      /\ looping' = TRUE
      /\ UNCHANGED <<playbacks, sources, job, ended, lpClosed, lpFlaws>>
    BY DEF SendBridgePcm, Ensured
<1>2. Len(promises) \in Nat /\ Len(bridged) \in Nat /\ promises \in Seq(Promise) /\ bridged \in Seq(BridgeFrame)
    BY DEF PlInv, PlTypes
<1>3. f \in BridgeFrame /\ f.id = Len(promises) + 1
    BY <1>2 DEF BridgeFrame
<1>4. PlTypes'
    BY <1>1, <1>2, <1>3 DEF PlInv, PlTypes, Promise
<1>5. /\ Len(promises') = Len(promises) + 1
      /\ \A i \in 1..Len(promises) : promises'[i] = promises[i]
      /\ promises'[Len(promises) + 1] = "open"
    BY <1>1, <1>2
<1>6. /\ DOMAIN bridged = 1..Len(bridged) /\ DOMAIN bridged' = 1..(Len(bridged) + 1)
      /\ \A k \in DOMAIN bridged : bridged'[k] = bridged[k]
      /\ bridged'[Len(bridged) + 1] = f
    BY <1>1, <1>2, <1>3
<1>7. \A i : Holds(bridged', i) <=> Holds(bridged, i) \/ i = Len(promises) + 1
    BY <1>2, <1>3, <1>6 DEF Holds
<1>8. FramesApart'
    <2>1. \A k \in DOMAIN bridged : bridged[k].id \in 1..Len(promises)
        BY DEF PlInv, FramesApart
    <2>2. Apart(bridged')
        BY <2>1, <1>2, <1>3, <1>6 DEF PlInv, FramesApart, Apart
    <2>3. \A k \in DOMAIN bridged' : bridged'[k].id \in 1..Len(promises')
        BY <2>1, <1>2, <1>3, <1>5, <1>6
    <2>4. \A g \in job.consumed : g.id \in 1..Len(promises) /\ ~Holds(bridged, g.id)
        BY DEF PlInv, FramesApart
    <2>5. \A g \in job.consumed : g.id \in 1..Len(promises') /\ ~Holds(bridged', g.id)
        BY <2>4, <1>2, <1>5, <1>7
    <2> QED
        BY <1>1, <2>2, <2>3, <2>5 DEF FramesApart
<1>9. PromiseInv'
    <2> SUFFICES ASSUME NEW i \in 1..Len(promises')
                 PROVE  promises'[i] = "open" <=> Holds(bridged', i) \/ Sent(i)
        BY <1>1 DEF PromiseInv, Sent
    <2>1. CASE i = Len(promises) + 1
        BY <2>1, <1>5, <1>7
    <2>2. CASE i \in 1..Len(promises)
        BY <2>2, <1>2, <1>5, <1>7 DEF PlInv, PromiseInv
    <2> QED
        BY <2>1, <2>2, <1>2, <1>5
<1>10. LoopInv' /\ SoundIsPlayed'
    BY <1>1 DEF PlInv, LoopInv, SoundIsPlayed
<1>11. SourceInv' /\ EndIsTheEnd'
    BY <1>1 DEF PlInv, SourceInv, EndIsTheEnd, Registered
<1> QED
    BY <1>4, <1>8, <1>9, <1>10, <1>11 DEF PlInv

\* The end of a callback, with the sounds src: what it reports, and whether
\* the loop goes on.
LEMMA LoopEnds ==
    ASSUME PlInv, NEW s \in SUBSET Plays, NEW src \in [Plays -> Source],
           \A m \in Plays : playbacks[m].state # "on" => src[m] = NoSource,
           \A m \in ended \cap Registered : src[m].left = 0 /\ src[m].finished,
           IF lpClosed THEN bridged' = <<>> ELSE looping,
           UNCHANGED <<playbacks, lpClosed>>, Reported(s, src), Continues(s)
    PROVE  /\ ended' \in SUBSET Plays /\ sources' \in [Plays -> Source] /\ looping' \in BOOLEAN
           /\ lpClosed' => ~looping'
           /\ SourceInv' /\ SoundIsPlayed' /\ EndIsTheEnd'
<1> DEFINE fin == Finished(s, src)
<1>1. /\ ended' = ended \cup fin
      /\ sources' = [m \in Plays |-> IF m \in fin THEN [src[m] EXCEPT !.emitted = TRUE] ELSE src[m]]
    BY DEF Reported
<1>2. \A m \in fin : /\ m \in Plays /\ src[m].kind # "none" /\ src[m].finished /\ src[m].left = 0
    BY DEF Finished
<1>3. ended' \in SUBSET Plays
    BY <1>1, <1>2 DEF PlInv, PlTypes
<1>4. sources' \in [Plays -> Source]
    <2>1. \A m \in Plays : [src[m] EXCEPT !.emitted = TRUE] \in Source
        BY DEF Source
    <2> QED
        BY <1>1, <2>1
<1>5. \A m \in Plays : /\ sources'[m].left = src[m].left /\ sources'[m].finished = src[m].finished
                       /\ m \notin fin => sources'[m] = src[m]
    BY <1>1 DEF Source
<1>6. \A m \in fin : playbacks[m].state = "on"
    BY <1>2 DEF NoSource
<1>7. SourceInv'
    BY <1>1, <1>2, <1>5, <1>6 DEF PlInv, SourceInv
<1>8. EndIsTheEnd'
    BY <1>1, <1>2, <1>5, <1>3 DEF EndIsTheEnd, Registered
<1>9. looping' \in BOOLEAN /\ (lpClosed' => ~looping')
    BY DEF Continues, PlInv, PlTypes
<1>10. SoundIsPlayed'
    <2> DEFINE on == bridged' # <<>> \/ Remaining(s, sources')
    <2>1. /\ looping' = (looping /\ on /\ ~lpClosed)
          /\ lpFlaws' = lpFlaws \cup (IF ~on /\ ~lpClosed /\ SoundOf(playbacks, sources')
                                      THEN {"overlooked"} ELSE {})
        BY DEF Continues
    <2>2. CASE lpClosed
        <3>1. Registered = {} /\ bridged = <<>>
            BY <2>2 DEF PlInv, LoopInv
        <3>2. ~SoundOf(playbacks, sources')
            BY <3>1 DEF SoundOf, Registered
        <3> QED
            BY <2>2, <3>2 DEF SoundIsPlayed
    <2>3. CASE ~lpClosed /\ on
        <3>1. looping' = TRUE
            BY <2>1, <2>3 DEF PlInv, PlTypes
        <3> QED
            BY <3>1 DEF SoundIsPlayed
    <2>4. CASE ~lpClosed /\ ~on
        <3>1. SoundOf(playbacks, sources') => lpFlaws' # {}
            BY <2>1, <2>4
        <3> QED
            BY <2>4, <3>1 DEF SoundIsPlayed
    <2> QED
        BY <2>2, <2>3, <2>4
<1> QED
    BY <1>3, <1>4, <1>7, <1>8, <1>9, <1>10

\* A mixed frame takes a unit of every source that has one.
LEMMA MixTakes ==
    ASSUME PlInv
    PROVE  /\ AfterMix \in [Plays -> Source]
           /\ \A m \in Plays : /\ AfterMix[m].finished = sources[m].finished
                               /\ sources[m].left = 0 => AfterMix[m] = sources[m]
           /\ \A m \in Plays : playbacks[m].state # "on" => AfterMix[m] = NoSource
           /\ \A m \in ended \cap Registered : AfterMix[m].left = 0 /\ AfterMix[m].finished
<1>1. \A m \in Plays : sources[m] \in Source /\ (m \in Rendered => sources[m].left > 0)
    BY DEF PlInv, PlTypes, Rendered
<1>2. \A m \in Plays : AfterMix[m] = IF m \in Rendered THEN [sources[m] EXCEPT !.left = @ - 1]
                                     ELSE sources[m]
    BY DEF AfterMix
<1>3. ASSUME NEW m \in Plays
      PROVE  AfterMix[m] \in Source /\ AfterMix[m].finished = sources[m].finished
    <2>1. CASE m \in Rendered
        <3>1. sources[m].left \in 0..2 /\ sources[m].left > 0
            BY <1>1, <2>1 DEF Source
        <3>2. sources[m].left - 1 \in 0..2
            BY <3>1
        <3>3. AfterMix[m] = [sources[m] EXCEPT !.left = sources[m].left - 1]
            BY <1>2, <2>1
        <3> QED
            BY <1>1, <3>2, <3>3 DEF Source
    <2>2. CASE m \notin Rendered
        BY <1>1, <1>2, <2>2
    <2> QED
        BY <2>1, <2>2
<1>4. AfterMix \in [Plays -> Source]
    BY <1>3, <1>2 DEF AfterMix
<1>5. \A m \in Plays : sources[m].left = 0 => AfterMix[m] = sources[m]
    <2> SUFFICES ASSUME NEW m \in Plays, sources[m].left = 0  PROVE AfterMix[m] = sources[m]
        OBVIOUS
    <2>1. m \notin Rendered
        BY <1>1
    <2> QED
        BY <1>2, <2>1
<1>6. \A m \in Plays : playbacks[m].state # "on" => AfterMix[m] = NoSource
    BY <1>5 DEF PlInv, SourceInv, NoSource
<1>7. \A m \in ended \cap Registered : AfterMix[m].left = 0 /\ AfterMix[m].finished
    BY <1>5 DEF PlInv, EndIsTheEnd, Registered
<1> QED
    BY <1>3, <1>4, <1>5, <1>6, <1>7

LEMMA TickStartKeeps ==
    ASSUME PlInv, TickStarts
    PROVE  PlInv'
<1>1. /\ looping /\ ~job.on /\ bridged' = AfterTake
      /\ UNCHANGED <<playbacks, promises, lpClosed>>
    BY DEF TickStarts
<1>2. ~lpClosed /\ job.consumed = {} /\ bridged \in Seq(BridgeFrame) /\ Apart(bridged)
    BY <1>1 DEF PlInv, PlTypes, LoopInv, FramesApart
<1>3. /\ AfterTake \in Seq(BridgeFrame) /\ Apart(AfterTake)
      /\ Exhausted \in SUBSET BridgeFrame /\ Touched \in SUBSET Nat
      /\ \A i \in Nat : Holds(bridged, i) <=> Holds(AfterTake, i) \/ \E f \in Exhausted : f.id = i
      /\ \A f \in Exhausted : ~Holds(AfterTake, f.id)
      /\ Touched = {} => bridged = <<>> /\ Exhausted = {}
    BY <1>2, FrameTakes
<1>4. Len(promises) \in Nat /\ Registered \in SUBSET Plays
    BY DEF PlInv, PlTypes, Registered
<1>5. \A i \in Nat : Holds(bridged, i) => i \in 1..Len(promises)
    BY DEF PlInv, FramesApart, Holds
<1>6. ASSUME NEW k \in DOMAIN AfterTake
      PROVE  AfterTake[k].id \in Nat /\ Holds(AfterTake, AfterTake[k].id)
    <2>1. AfterTake[k] \in BridgeFrame
        BY <1>3
    <2> QED
        BY <2>1 DEF Holds, BridgeFrame
<1>7. \A f \in Exhausted : f.id \in Nat
    BY <1>3 DEF BridgeFrame
<1>8. /\ \A k \in DOMAIN AfterTake : AfterTake[k].id \in 1..Len(promises)
      /\ \A f \in Exhausted : f.id \in 1..Len(promises)
    BY <1>3, <1>5, <1>6, <1>7
<1>9. ASSUME job'.consumed = Exhausted  PROVE FramesApart' /\ PromiseInv'
    <2>1. FramesApart'
        BY <1>1, <1>3, <1>8, <1>9 DEF FramesApart
    <2>2. ASSUME NEW i \in 1..Len(promises)
          PROVE  promises[i] = "open" <=> Holds(bridged', i) \/ Sent(i)'
        <3>1. promises[i] = "open" <=> Holds(bridged, i)
            BY <1>2 DEF PlInv, PromiseInv, Sent
        <3>2. Sent(i)' <=> \E f \in Exhausted : f.id = i
            BY <1>9 DEF Sent
        <3>3. i \in Nat
            BY <1>4
        <3> QED
            BY <3>1, <3>2, <3>3, <1>1, <1>3
    <2>3. PromiseInv'
        BY <2>2, <1>1 DEF PromiseInv, Sent
    <2> QED
        BY <2>1, <2>3
<1>10. CASE Rendered # {} \/ Touched # {}
    <2>1. /\ job' = [on |-> TRUE, snap |-> Registered, touched |-> Touched,
                     consumed |-> Exhausted]
          /\ sources' = AfterMix /\ UNCHANGED <<looping, ended, lpFlaws>>
        BY <1>10 DEF TickStarts
    <2>2. FramesApart' /\ PromiseInv'
        BY <2>1, <1>9
    <2>3. PlTypes'
        BY <2>1, <1>1, <1>3, <1>4, MixTakes DEF PlInv, PlTypes
    <2>4. LoopInv'
        BY <2>1, <1>1, <1>2 DEF LoopInv
    <2>5. SourceInv' /\ EndIsTheEnd'
        BY <2>1, <1>1, MixTakes DEF PlInv, SourceInv, EndIsTheEnd, Registered
    <2>6. SoundIsPlayed'
        BY <2>1, <1>1 DEF SoundIsPlayed
    <2> QED
        BY <2>2, <2>3, <2>4, <2>5, <2>6 DEF PlInv
<1>11. CASE Rendered = {} /\ Touched = {}
    <2>1. Reported(Registered, AfterMix) /\ Continues(Registered) /\ UNCHANGED job
        BY <1>11 DEF TickStarts
    <2>2. FramesApart' /\ PromiseInv'
        BY <2>1, <1>2, <1>3, <1>9, <1>11
    <2>3. /\ ended' \in SUBSET Plays /\ sources' \in [Plays -> Source] /\ looping' \in BOOLEAN
          /\ SourceInv' /\ SoundIsPlayed' /\ EndIsTheEnd'
        BY <2>1, <1>1, <1>2, <1>4, MixTakes, LoopEnds
    <2>4. PlTypes'
        BY <2>1, <2>3, <1>1, <1>3 DEF PlInv, PlTypes
    <2>5. LoopInv'
        BY <2>1, <1>1, <1>2 DEF LoopInv
    <2> QED
        BY <2>2, <2>3, <2>4, <2>5 DEF PlInv
<1> QED
    BY <1>10, <1>11

\* A callback that comes back settles the promises of the frames it sent.
LEMMA FinalizedKeeps ==
    ASSUME PlInv, job.on, NEW ok \in BOOLEAN, Finalized(ok)
    PROVE  /\ bridged' \in Seq(BridgeFrame) /\ promises' \in Seq(Promise)
           /\ job' = NoJob /\ FramesApart' /\ PromiseInv'
           /\ bridged = <<>> <=> bridged' = <<>>
<1> DEFINE after(f) == IF f.id \in job.touched THEN [f EXCEPT !.ok = @ /\ ok] ELSE f
           answer(i) == IF \E f \in job.consumed : f.id = i
                        THEN (IF ok /\ (CHOOSE f \in job.consumed : f.id = i).ok THEN "sent"
                              ELSE "failed")
                        ELSE promises[i]
<1>1. /\ bridged' = [i \in DOMAIN bridged |-> after(bridged[i])]
      /\ promises' = [i \in DOMAIN promises |-> answer(i)]
      /\ job' = NoJob /\ job'.consumed = {}
    BY DEF Finalized, NoJob
<1>2. /\ bridged \in Seq(BridgeFrame) /\ promises \in Seq(Promise)
      /\ Len(bridged) \in Nat /\ Len(promises) \in Nat
      /\ DOMAIN bridged = 1..Len(bridged) /\ DOMAIN promises = 1..Len(promises)
    BY DEF PlInv, PlTypes
<1>3. ASSUME NEW k \in DOMAIN bridged
      PROVE  after(bridged[k]) \in BridgeFrame /\ after(bridged[k]).id = bridged[k].id
    <2>1. bridged[k] \in BridgeFrame
        BY <1>2
    <2> QED
        BY <2>1 DEF BridgeFrame
<1>4. /\ bridged' \in Seq(BridgeFrame) /\ DOMAIN bridged' = DOMAIN bridged
      /\ \A k \in DOMAIN bridged : bridged'[k].id = bridged[k].id
    <2>1. \A k \in DOMAIN bridged : bridged'[k] = after(bridged[k])
        BY <1>1
    <2>2. bridged' \in [1..Len(bridged) -> BridgeFrame]
        BY <1>1, <1>2, <1>3
    <2> QED
        BY <2>1, <2>2, <1>1, <1>2, <1>3
<1>5. \A i \in DOMAIN promises : promises[i] \in Promise /\ answer(i) \in Promise
    BY <1>2 DEF Promise
<1>6. promises' \in Seq(Promise) /\ Len(promises') = Len(promises)
    <2>1. promises' \in [1..Len(promises) -> Promise]
        BY <1>1, <1>2, <1>5
    <2> QED
        BY <2>1, <1>2
<1>7. \A i : Holds(bridged', i) <=> Holds(bridged, i)
    BY <1>4 DEF Holds
<1>8. FramesApart'
    BY <1>1, <1>4, <1>6 DEF PlInv, FramesApart, Apart
<1>9. PromiseInv'
    <2>1. ASSUME NEW i \in 1..Len(promises)  PROVE promises'[i] = "open" <=> Holds(bridged', i)
        <3>1. promises'[i] = answer(i) /\ (promises[i] = "open" <=> Holds(bridged, i) \/ Sent(i))
            BY <1>1, <1>2 DEF PlInv, PromiseInv
        <3>2. CASE Sent(i)
            <4>1. answer(i) # "open"
                BY <3>2 DEF Sent
            <4>2. ~Holds(bridged, i)
                BY <3>2 DEF PlInv, FramesApart, Sent
            <4> QED
                BY <3>1, <4>1, <4>2, <1>7
        <3>3. CASE ~Sent(i)
            <4>1. answer(i) = promises[i]
                BY <3>3 DEF Sent
            <4> QED
                BY <3>1, <3>3, <4>1, <1>7
        <3> QED
            BY <3>2, <3>3
    <2> QED
        BY <2>1, <1>1, <1>6 DEF PromiseInv, Sent
<1>10. bridged = <<>> <=> bridged' = <<>>
    BY <1>2, <1>4
<1> QED
    BY <1>1, <1>4, <1>6, <1>8, <1>9, <1>10

LEMMA TickEndKeeps ==
    ASSUME PlInv, NEW ok \in BOOLEAN, TickEnds(ok)
    PROVE  PlInv'
<1>1. /\ job.on /\ Finalized(ok) /\ Reported(job.snap, sources) /\ Continues(job.snap)
      /\ UNCHANGED <<playbacks, lpClosed>>
    BY DEF TickEnds
<1>2. /\ bridged' \in Seq(BridgeFrame) /\ promises' \in Seq(Promise)
      /\ job' = NoJob /\ FramesApart' /\ PromiseInv' /\ (bridged = <<>> <=> bridged' = <<>>)
    BY <1>1, FinalizedKeeps
<1>3. job.snap \in SUBSET Plays /\ sources \in [Plays -> Source]
    BY DEF PlInv, PlTypes
<1>4. IF lpClosed THEN bridged' = <<>> ELSE looping
    BY <1>1, <1>2 DEF PlInv, LoopInv
<1>5. \A m \in Plays : playbacks[m].state # "on" => sources[m] = NoSource
    BY DEF PlInv, SourceInv
<1>6. \A m \in ended \cap Registered : sources[m].left = 0 /\ sources[m].finished
    BY DEF PlInv, EndIsTheEnd
<1>7. /\ ended' \in SUBSET Plays /\ sources' \in [Plays -> Source] /\ looping' \in BOOLEAN
      /\ lpClosed' => ~looping'
      /\ SourceInv' /\ SoundIsPlayed' /\ EndIsTheEnd'
    BY <1>1, <1>3, <1>4, <1>5, <1>6, LoopEnds
<1>8. NoJob \in [on : BOOLEAN, snap : SUBSET Plays, touched : SUBSET Nat, consumed : SUBSET BridgeFrame]
    BY DEF NoJob
<1>9. PlTypes'
    BY <1>1, <1>2, <1>7, <1>8 DEF PlInv, PlTypes
<1>10. LoopInv'
    BY <1>1, <1>2, <1>7 DEF PlInv, LoopInv, NoJob, Registered
<1> QED
    BY <1>2, <1>7, <1>9, <1>10 DEF PlInv

LEMMA TickThrowKeeps ==
    ASSUME PlInv, TickThrows
    PROVE  PlInv'
<1>1. /\ job.on /\ Finalized(FALSE) /\ looping' = FALSE
      /\ lpFlaws' = lpFlaws \cup (IF lpClosed THEN {} ELSE {"threw"})
      /\ UNCHANGED <<playbacks, sources, ended, lpClosed>>
    BY DEF TickThrows
<1>2. /\ bridged' \in Seq(BridgeFrame) /\ promises' \in Seq(Promise)
      /\ job' = NoJob /\ FramesApart' /\ PromiseInv' /\ (bridged = <<>> <=> bridged' = <<>>)
    BY <1>1, FinalizedKeeps
<1>3. NoJob \in [on : BOOLEAN, snap : SUBSET Plays, touched : SUBSET Nat, consumed : SUBSET BridgeFrame]
    BY DEF NoJob
<1>4. PlTypes'
    BY <1>1, <1>2, <1>3 DEF PlInv, PlTypes
<1>5. LoopInv'
    BY <1>1, <1>2 DEF PlInv, LoopInv, NoJob, Registered
<1>6. SourceInv' /\ EndIsTheEnd'
    BY <1>1 DEF PlInv, SourceInv, EndIsTheEnd, Registered
<1>7. SoundIsPlayed'
    <2>1. CASE lpClosed
        <3>1. bridged' = <<>> /\ Registered = {}
            BY <2>1, <1>2 DEF PlInv, LoopInv
        <3>2. ~SoundOf(playbacks, sources)'
            BY <3>1, <1>1 DEF SoundOf, Registered
        <3> QED
            BY <3>1, <3>2 DEF SoundIsPlayed
    <2>2. CASE ~lpClosed
        BY <2>2, <1>1 DEF SoundIsPlayed
    <2> QED
        BY <2>1, <2>2
<1> QED
    BY <1>2, <1>4, <1>5, <1>6, <1>7 DEF PlInv

LEMMA CloseKeeps ==
    ASSUME PlInv, Closes
    PROVE  PlInv'
<1>1. /\ lpClosed' = TRUE /\ looping' = FALSE /\ bridged' = <<>>
      /\ promises' = [i \in DOMAIN promises |-> IF Holds(bridged, i) THEN "failed" ELSE promises[i]]
      /\ playbacks' = [m \in Plays |-> Gone] /\ sources' = [m \in Plays |-> NoSource]
      /\ UNCHANGED <<job, ended, lpFlaws>>
    BY DEF Closes, Holds
<1>2. Gone.state = "gone" /\ Gone \in Playback /\ NoSource \in Source
    BY DEF Gone, Nobody, NoSource, Playback, Source
<1>3. /\ promises \in Seq(Promise) /\ Len(promises) \in Nat /\ DOMAIN promises = 1..Len(promises)
    BY DEF PlInv, PlTypes
<1>4. promises' \in Seq(Promise) /\ Len(promises') = Len(promises)
    <2>1. promises' \in [1..Len(promises) -> Promise]
        BY <1>1, <1>3 DEF Promise
    <2> QED
        BY <2>1, <1>3
<1>5. PlTypes'
    <2>1. bridged' \in Seq(BridgeFrame)
        BY <1>1
    <2> QED
        BY <1>1, <1>2, <1>4, <2>1 DEF PlInv, PlTypes
<1>6. \A i : ~Holds(bridged', i)
    BY <1>1 DEF Holds
<1>7. FramesApart'
    BY <1>1, <1>4, <1>6 DEF PlInv, FramesApart, Apart
<1>8. PromiseInv'
    <2>1. ASSUME NEW i \in 1..Len(promises)  PROVE promises'[i] = "open" <=> Sent(i)
        <3>1. promises'[i] = IF Holds(bridged, i) THEN "failed" ELSE promises[i]
            BY <1>1, <1>3
        <3>2. Sent(i) => ~Holds(bridged, i)
            BY DEF PlInv, FramesApart, Sent
        <3> QED
            BY <3>1, <3>2 DEF PlInv, PromiseInv
    <2> QED
        BY <2>1, <1>1, <1>4, <1>6 DEF PromiseInv, Sent
<1>9. Registered' = {} /\ ~SoundOf(playbacks, sources)'
    BY <1>1, <1>2 DEF Registered, SoundOf
<1>10. LoopInv'
    BY <1>1, <1>9 DEF PlInv, LoopInv
<1>11. SourceInv'
    BY <1>1, <1>2 DEF PlInv, PlTypes, SourceInv
<1>12. SoundIsPlayed' /\ EndIsTheEnd'
    BY <1>1, <1>9 DEF SoundIsPlayed, EndIsTheEnd
<1> QED
    BY <1>5, <1>7, <1>8, <1>10, <1>11, <1>12 DEF PlInv

LEMMA PlNext == PlInv /\ [LpNext]_lpVars => PlInv'
<1> SUFFICES ASSUME PlInv, [LpNext]_lpVars  PROVE PlInv'
    OBVIOUS
<1>1. CASE LpNext
    <2>1. ASSUME NEW m \in Plays, NEW kind \in {"tone", "stream"}, NEW prio \in {0, 1},
                 NEW duck \in {0, 1}, Register(m, kind, prio, duck)
          PROVE  PlInv'
        BY <2>1, RegisterKeeps
    <2>2. ASSUME NEW m \in Plays, AppendChunk(m) \/ FinishPlayback(m)  PROVE PlInv'
        BY <2>2, StreamKeeps
    <2>3. ASSUME NEW m \in Plays, Unregister(m)  PROVE PlInv'
        BY <2>3, UnregisterKeeps
    <2>4. ASSUME NEW n \in {1, 3}, SendBridgePcm(n)  PROVE PlInv'
        BY <2>4, BridgePcmKeeps
    <2>5. ASSUME NEW ok \in BOOLEAN, TickEnds(ok)  PROVE PlInv'
        BY <2>5, TickEndKeeps
    <2>6. CASE TickStarts
        BY <2>6, TickStartKeeps
    <2>7. CASE TickThrows
        BY <2>7, TickThrowKeeps
    <2>8. CASE Closes
        BY <2>8, CloseKeeps
    <2> QED
        BY <1>1, <2>1, <2>2, <2>3, <2>4, <2>5, <2>6, <2>7, <2>8 DEF LpNext
<1>2. CASE UNCHANGED lpVars
    BY <1>2 DEF lpVars, PlInv, PlTypes, FramesApart, PromiseInv, LoopInv, SourceInv,
                SoundIsPlayed, EndIsTheEnd, Apart, Holds, Sent, Registered, SoundOf
<1> QED
    BY <1>1, <1>2

LEMMA PlSafe == PlInv => PlaybackSafe
<1> SUFFICES ASSUME PlInv  PROVE PlaybackSafe
    OBVIOUS
<1>1. LpTypeOK
    <2>1. playbacks \in [Plays -> [state : {"new", "on", "gone"}, prio : {0, 1}, duck : {0, 1}]]
        BY DEF PlInv, PlTypes, Playback
    <2>2. \A m \in Plays : sources[m].left \in 0..2
        BY DEF PlInv, PlTypes, Source
    <2>3. \A i \in DOMAIN bridged : bridged[i].left > 0
        <3>1. \A i \in DOMAIN bridged : bridged[i] \in BridgeFrame
            BY DEF PlInv, PlTypes
        <3> QED
            BY <3>1 DEF BridgeFrame
    <2> QED
        BY <2>1, <2>2, <2>3 DEF PlInv, PlTypes, LpTypeOK
<1>2. PromisesAreHeld
    <2>1. DOMAIN promises = 1..Len(promises)
        BY DEF PlInv, PlTypes
    <2> QED
        BY <2>1 DEF PlInv, PromiseInv, PromisesAreHeld, Holds, Sent
<1> QED
    BY <1>1, <1>2 DEF PlInv, PlaybackSafe

\* Every frame of a bridge has its promise kept once, by a loop that runs while
\* there is sound; a playback is reported finished when its sound was taken.
THEOREM PlaybackIsSafe == LpInit /\ [][LpNext]_lpVars => []PlaybackSafe
BY PlInit, PlNext, PlSafe, PTL
=============================================================================
