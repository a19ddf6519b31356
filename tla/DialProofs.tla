------------------------------ MODULE DialProofs ------------------------------
(***************************************************************************)
(* What a dial keeps of its attempts, tickets, legs and timers, for any    *)
(* number of targets and of waits.                                         *)
(*                                                                         *)
(* A dial that runs loses no leg because the legs that live are exactly    *)
(* its active attempts (RingingIsActive): so finalizeDial, which walks     *)
(* the active attempts, meets neither a leg that left the registry nor     *)
(* misses one that lives.  markAttemptAnswered may stop half-way at a leg  *)
(* that left the registry; what survives that stop in a sequential dial    *)
(* is its last attempt alone (LastRings), which the loop never reaches.    *)
(***************************************************************************)
EXTENDS Dial, Directory, DialWaits, FiniteSetTheorems, SequenceTheorems,
        WellFoundedInduction, TLAPS

\* While the dial runs, every leg that lives is an active attempt.
RingingIsActive == Dialing => Live \subseteq active

\* A dial that does not run has no attempt left.
NothingRings == ~Dialing => active = {}

\* A sequential dial rings the attempt it started last, or none.
LastRings == strategy = "sequential" => active \subseteq {started}

\* Only a sequential dial arms timers.
TimersAreSequential == gap \/ timers # {} => strategy = "sequential"

\* Before it is created the dial has started nothing.
Uncreated == ~Created => started = 0 /\ ~listed /\ ~finalized

IInv ==
    /\ DialSafe /\ RingingIsActive /\ NothingRings /\ LastRings
    /\ TimersAreSequential /\ Uncreated

\* The parts of the state that no invariant but the types is about.
OthersOK ==
    /\ sip \in [Attempts -> {"none", "starting", "inviting", "closed"}]
    /\ bridge \in [Attempts -> {"none", "held", "released"}]
    /\ waiting \in BOOLEAN
    /\ waits \in 0..MaxWaits

-----------------------------------------------------------------------------
(* What the handlers are made of.                                          *)

\* A set with no element but one counts at most one.
LEMMA AtMostOne ==
    ASSUME NEW e, NEW S \in SUBSET {e}
    PROVE  Cardinality(S) <= 1
<1>1. S = {} \/ S = {e}
  OBVIOUS
<1>2. Cardinality({}) = 0 /\ Cardinality({e}) = 1
  BY FS_EmptySet, FS_Singleton
<1>3. QED
  BY <1>1, <1>2

\* hangupLeg on the legs of S ends those that live, takes their tickets of a
\* winner, and makes none leave the registry.
LEMMA EndLegsLemma ==
    ASSUME DialAssumption, TypeOK, NEW S \in SUBSET Started, NEW T \in SUBSET Started,
           EndLegs(S, T), started' = started
    PROVE  /\ leg' \in [Attempts -> {"none", "live", "ending", "gone"}]
           /\ Live' = Live \ S
           /\ Gone' = Gone
           /\ Started' = Started
           /\ winnerHeld' = T \ (S \cap Live)
           /\ winnerHeld' \subseteq Started
<1>1. Started \subseteq Attempts /\ Started' = Started
  BY DEF TypeOK, Started, Attempts, DialAssumption
<1>2. \A l \in Attempts : leg'[l] = IF l \in S \cap Live THEN "ending" ELSE leg[l]
  BY DEF EndLegs
<1>3. leg' \in [Attempts -> {"none", "live", "ending", "gone"}]
  BY DEF EndLegs, TypeOK
<1>4. Live' = Live \ S
  BY <1>1, <1>2 DEF Live
<1>5. Gone' = Gone
  BY <1>1, <1>2 DEF Gone, Live
<1>6. winnerHeld' = T \ (S \cap Live)
  BY DEF EndLegs
<1>7. QED
  BY <1>1, <1>3, <1>4, <1>5, <1>6

\* finalizeDial(.., "failed", ..) of a running dial leaves nothing behind: no
\* attempt, no ticket of one, no leg that lives, no timer and no entry.
LEMMA FinalizeStep ==
    ASSUME DialAssumption, IInv, Dialing, NEW lost \in SUBSET Started,
           FinalizeFailed(lost), UNCHANGED <<plan, started, winner>>, OthersOK'
    PROVE  IInv'
<1>. DEFINE rest == active \ lost
<1>1. /\ TypeOK /\ held = active /\ active \subseteq Live /\ Live \subseteq active
      /\ Created /\ active \subseteq Started /\ winnerHeld \subseteq Started
  BY DEF IInv, DialSafe, ActiveAttemptsOwned, RingingIsActive, Uncreated, Dialing, TypeOK
<1>2. rest \cap Gone = {}
  BY <1>1 DEF Live, Gone
<1>3. Reached(rest) = rest
  BY <1>2 DEF Reached
<1>4. /\ status' = "failed" /\ finalized' = TRUE /\ gap' = FALSE /\ timers' = {}
      /\ active' = {} /\ held' = {} /\ listed' = FALSE
      /\ EndLegs(lost \cup rest, winnerHeld)
  BY <1>1, <1>2, <1>3 DEF FinalizeFailed
<1>5. /\ leg' \in [Attempts -> {"none", "live", "ending", "gone"}]
      /\ Live' = {} /\ Started' = Started /\ winnerHeld' \subseteq Started
  <2>1. lost \cup rest \in SUBSET Started /\ Live \subseteq lost \cup rest
    BY <1>1
  <2>2. /\ leg' \in [Attempts -> {"none", "live", "ending", "gone"}]
        /\ Live' = Live \ (lost \cup rest) /\ Started' = Started
        /\ winnerHeld' \subseteq Started
    <3>. HIDE DEF rest
    <3>1. QED
      BY <1>1, <1>4, <2>1, EndLegsLemma
  <2>3. QED
    BY <2>1, <2>2
<1>6. TypeOK'
  BY <1>1, <1>4, <1>5 DEF TypeOK, OthersOK, plan
<1>7. (ActiveAttemptsOwned /\ LiveLegsOwned /\ NoOrphanAttempt)'
  BY <1>4, <1>5 DEF ActiveAttemptsOwned, LiveLegsOwned, NoOrphanAttempt
<1>8. (OneAtATime /\ LastRings)'
  BY <1>4, FS_EmptySet DEF OneAtATime, LastRings
<1>9. (TimersHaveADial /\ NeverStuck /\ RingingIsActive /\ TimersAreSequential)'
  BY <1>4 DEF TimersHaveADial, NeverStuck, Dialing, RingingIsActive, TimersAreSequential
<1>10. Uncreated'
  BY <1>1 DEF Uncreated, Created, plan
<1>11. NothingRings'
  BY <1>4 DEF NothingRings
<1>12. QED
  BY <1>6, <1>7, <1>8, <1>9, <1>10, <1>11 DEF IInv, DialSafe

\* An attempt that is lost takes its ticket and its timer with it, and the
\* dial rings on, waits for the gap or is over.
LEMMA LoseStep ==
    ASSUME DialAssumption, IInv, Dialing, NEW l \in Started, Lose(l),
           UNCHANGED <<plan, started, winner>>, OthersOK'
    PROVE  IInv'
<1>1. CASE active \ {l} = {} /\ ~(strategy = "sequential" /\ Pending) /\ FinalizeFailed({l})
  <2>1. {l} \in SUBSET Started
    OBVIOUS
  <2>2. QED
    BY <1>1, <2>1, FinalizeStep
<1>2. CASE /\ GiveUp(l)
           /\ \/ active \ {l} # {} /\ UNCHANGED <<status, finalized, listed, gap>>
              \/ /\ active \ {l} = {} /\ strategy = "sequential" /\ Pending
                 /\ gap' = TRUE /\ UNCHANGED <<status, finalized, listed>>
  <2>1. /\ TypeOK /\ held = active /\ active \subseteq Live /\ Live \subseteq active
        /\ Created /\ active \subseteq Started /\ winnerHeld \subseteq Started
        /\ timers \subseteq active
    BY DEF IInv, DialSafe, ActiveAttemptsOwned, RingingIsActive, Uncreated, Dialing, TypeOK,
           TimersHaveADial
  <2>2. /\ leg' \in [Attempts -> {"none", "live", "ending", "gone"}]
        /\ Live' = Live \ {l} /\ Started' = Started
        /\ winnerHeld' \subseteq Started
    BY <1>2, <2>1, EndLegsLemma DEF GiveUp
  <2>3. /\ active' = active \ {l} /\ held' = held \ {l} /\ timers' = timers \ {l}
        /\ UNCHANGED <<status, finalized, listed, strategy, timed, targets, started, winner>>
        /\ gap' \in BOOLEAN
    BY <1>2, <2>1 DEF GiveUp, plan, TypeOK
  <2>4. TypeOK'
    BY <2>1, <2>2, <2>3 DEF TypeOK, OthersOK
  <2>5. (ActiveAttemptsOwned /\ LiveLegsOwned /\ NoOrphanAttempt)'
    BY <2>1, <2>2, <2>3 DEF IInv, DialSafe, ActiveAttemptsOwned, LiveLegsOwned,
       NoOrphanAttempt, Created, Dialing
  <2>6. LastRings'
    BY <2>3 DEF IInv, LastRings
  <2>7. OneAtATime'
    <3>1. strategy = "sequential" => Cardinality(active') <= 1
      BY <2>3, <2>6, AtMostOne DEF LastRings
    <3>2. strategy = "sequential" => (gap' => active' = {} /\ Pending')
      BY <1>2, <2>3 DEF IInv, DialSafe, OneAtATime, Pending
    <3>3. QED
      BY <2>3, <3>1, <3>2 DEF OneAtATime
  <2>8. (TimersHaveADial /\ TimersAreSequential)'
    BY <1>2, <2>1, <2>3 DEF IInv, DialSafe, TimersHaveADial, TimersAreSequential, Dialing
  <2>9. NeverStuck'
    BY <1>2, <2>3 DEF NeverStuck
  <2>10. (RingingIsActive /\ NothingRings /\ Uncreated)'
    BY <2>1, <2>2, <2>3 DEF RingingIsActive, NothingRings, Dialing, Uncreated, Created
  <2>11. QED
    BY <2>4, <2>5, <2>6, <2>7, <2>8, <2>9, <2>10 DEF IInv, DialSafe
<1>3. QED
  BY <1>1, <1>2 DEF Lose

\* markAttemptAnswered, whether its loop over the losers reaches the end of
\* the list or stops at a leg that left the registry.
LEMMA AnsweredStep ==
    ASSUME DialAssumption, IInv, Dialing, NEW l \in Started, Answered(l),
           UNCHANGED <<plan, started>>, OthersOK'
    PROVE  IInv'
<1>. DEFINE losers == Started \ {l}
<1>. DEFINE R == Reached(losers)
<1>1. /\ TypeOK /\ held = active /\ active \subseteq Live /\ Live \subseteq active
      /\ Created /\ active \subseteq Started /\ winnerHeld \subseteq Started
      /\ timers \subseteq active /\ listed /\ ~finalized
  BY DEF IInv, DialSafe, ActiveAttemptsOwned, RingingIsActive, Uncreated, Dialing, TypeOK,
         TimersHaveADial
<1>2. l \in Nat \ {0} /\ l \in 0..started /\ R \subseteq losers /\ losers \subseteq Started
  BY <1>1 DEF Started, TypeOK, Reached
<1>3. /\ winner' = l /\ status' = "answered"
      /\ EndLegs(R, winnerHeld \cup {l})
      /\ UNCHANGED <<strategy, timed, targets, started>>
  BY DEF Answered, plan
<1>4. /\ leg' \in [Attempts -> {"none", "live", "ending", "gone"}]
      /\ Live' = Live \ R /\ Started' = Started
      /\ winnerHeld' = (winnerHeld \cup {l}) \ (R \cap Live)
      /\ winnerHeld' \subseteq Started
  <2>. HIDE DEF R, losers
  <2>1. R \in SUBSET Started /\ winnerHeld \cup {l} \in SUBSET Started
    BY <1>1, <1>2
  <2>2. QED
    BY <1>1, <1>3, <2>1, EndLegsLemma
<1>5. l \in winnerHeld'
  BY <1>2, <1>4
<1>6. CASE losers \cap Gone = {}
  <2>1. R = losers
    BY <1>6 DEF Reached
  <2>2. /\ finalized' = TRUE /\ listed' = FALSE /\ gap' = FALSE /\ timers' = {}
        /\ active' = {} /\ held' = {}
    BY <1>1, <1>6 DEF Answered
  <2>3. Live' \subseteq {l}
    BY <1>4, <2>1 DEF Live
  <2>4. TypeOK'
    BY <1>1, <1>2, <1>3, <1>4, <2>2 DEF TypeOK, OthersOK
  <2>5. (ActiveAttemptsOwned /\ LiveLegsOwned /\ NoOrphanAttempt)'
    BY <1>3, <1>5, <2>2, <2>3 DEF ActiveAttemptsOwned, LiveLegsOwned, NoOrphanAttempt
  <2>6. (OneAtATime /\ LastRings)'
    BY <2>2, FS_EmptySet DEF OneAtATime, LastRings
  <2>7. /\ (TimersHaveADial /\ NeverStuck /\ RingingIsActive)'
        /\ (NothingRings /\ TimersAreSequential)'
    BY <2>2 DEF TimersHaveADial, NeverStuck, Dialing, RingingIsActive, NothingRings,
       TimersAreSequential
  <2>8. Uncreated'
    BY <1>1, <1>3 DEF Uncreated, Created
  <2>9. QED
    BY <2>4, <2>5, <2>6, <2>7, <2>8 DEF IInv, DialSafe
<1>7. CASE losers \cap Gone # {}
  <2>1. /\ active' = active \ R /\ held' = held \ R /\ timers' = timers \ {l}
        /\ UNCHANGED <<finalized, listed, gap>>
    BY <1>7 DEF Answered
  <2>2. TypeOK'
    BY <1>1, <1>2, <1>3, <1>4, <2>1 DEF TypeOK, OthersOK
  <2>3. (ActiveAttemptsOwned /\ LiveLegsOwned /\ NoOrphanAttempt)'
    BY <1>1, <1>3, <1>4, <2>1 DEF ActiveAttemptsOwned, LiveLegsOwned, NoOrphanAttempt, Created
  <2>4. LastRings'
    BY <1>3, <2>1 DEF IInv, LastRings
  <2>5. OneAtATime'
    <3>1. strategy = "sequential" => Cardinality(active') <= 1
      BY <1>3, <2>4, AtMostOne DEF LastRings
    <3>2. strategy = "sequential" => (gap' => active' = {} /\ Pending')
      BY <1>3, <2>1 DEF IInv, DialSafe, OneAtATime, Pending
    <3>3. QED
      BY <1>3, <3>1, <3>2 DEF OneAtATime
  <2>6. timers' \subseteq active'
    <3>1. SUFFICES ASSUME NEW m \in timers, m # l PROVE m \notin R
      BY <1>1, <2>1
    <3>2. m = started /\ m \in Live
      BY <1>1, <3>1 DEF IInv, LastRings, TimersAreSequential
    <3>3. PICK g \in losers : g \in Gone
      BY <1>7
    <3>4. g # m /\ g \in 1..started /\ started \in Nat
      BY <1>1, <3>2, <3>3 DEF Live, Gone, Started, TypeOK
    <3>5. ~(m <= g)
      BY <3>2, <3>4
    <3>6. QED
      BY <3>3, <3>5 DEF Reached
  <2>7. (TimersHaveADial /\ TimersAreSequential)'
    BY <1>3, <2>1, <2>6 DEF IInv, DialSafe, TimersHaveADial, TimersAreSequential, Dialing
  <2>8. (NeverStuck /\ RingingIsActive /\ NothingRings /\ Uncreated)'
    BY <1>1, <1>2, <1>3, <1>4, <2>1 DEF NeverStuck, RingingIsActive, NothingRings, Dialing,
       Uncreated, Created
  <2>9. QED
    BY <2>2, <2>3, <2>4, <2>5, <2>6, <2>7, <2>8 DEF IInv, DialSafe
<1>8. QED
  BY <1>6, <1>7

\* A leg that ends where no attempt is lost by it: only its ticket goes.
LEMMA EndsAloneStep ==
    ASSUME DialAssumption, IInv, NEW l \in Started, Dialing => l \notin Live,
           EndLegs({l}, winnerHeld),
           UNCHANGED <<plan, started, winner, status, finalized, listed, active, held,
                       gap, timers>>, OthersOK'
    PROVE  IInv'
<1>1. /\ TypeOK /\ {l} \in SUBSET Started /\ winnerHeld \in SUBSET Started
      /\ started' = started
  BY DEF IInv, DialSafe, TypeOK
<1>2. /\ leg' \in [Attempts -> {"none", "live", "ending", "gone"}]
      /\ Live' = Live \ {l} /\ Started' = Started
      /\ winnerHeld' = winnerHeld \ ({l} \cap Live)
      /\ winnerHeld' \subseteq Started
  BY <1>1, EndLegsLemma
<1>3. TypeOK'
  BY <1>1, <1>2 DEF TypeOK, OthersOK, plan
<1>4. l \notin active
  BY DEF IInv, DialSafe, ActiveAttemptsOwned, NothingRings
<1>5. (ActiveAttemptsOwned /\ LiveLegsOwned /\ NoOrphanAttempt)'
  BY <1>1, <1>2, <1>4 DEF IInv, DialSafe, ActiveAttemptsOwned, LiveLegsOwned,
     NoOrphanAttempt, Created, plan
<1>6. (OneAtATime /\ LastRings)'
  BY DEF IInv, DialSafe, OneAtATime, LastRings, Pending, plan
<1>7. (TimersHaveADial /\ NeverStuck /\ TimersAreSequential)'
  BY DEF IInv, DialSafe, TimersHaveADial, NeverStuck, TimersAreSequential, Dialing, plan
<1>8. (RingingIsActive /\ NothingRings /\ Uncreated)'
  BY <1>1, <1>2 DEF IInv, RingingIsActive, NothingRings, Dialing, Uncreated, Created, plan
<1>9. QED
  BY <1>3, <1>5, <1>6, <1>7, <1>8 DEF IInv, DialSafe

-----------------------------------------------------------------------------
(* The actions.                                                            *)

\* createDial starts the attempts 1..n of a parallel dial, 1 of a sequential.
LEMMA CreateDialStep ==
    ASSUME DialAssumption, IInv, NEW s \in {"parallel", "sequential"},
           NEW n \in 1..MaxTargets, NEW t \in BOOLEAN, CreateDial(s, n, t)
    PROVE  IInv'
<1>. DEFINE k == IF s = "parallel" THEN n ELSE 1
<1>1. /\ TypeOK /\ started = 0 /\ ~finalized /\ ~Created /\ winner = 0
      /\ winnerHeld = {} /\ gap = FALSE
  <2>1. TypeOK /\ started = 0 /\ ~finalized /\ ~listed /\ ~Created
    BY DEF IInv, DialSafe, Uncreated, CreateDial
  <2>2. gap = FALSE /\ winner = 0 /\ winnerHeld = {}
    BY <2>1 DEF IInv, DialSafe, TimersHaveADial, Dialing, TypeOK, Started
  <2>3. QED
    BY <2>1, <2>2
<1>2. /\ k \in 1..n /\ n \in Nat
      /\ (IF s = "parallel" THEN 1..n ELSE {1}) = 1..k
      /\ Cardinality(1..k) = k
      /\ 1..k \subseteq Attempts /\ k # 0 /\ (s = "sequential" => 1..k = {k})
  <2>1. n \in Nat /\ n >= 1 /\ n <= MaxTargets /\ MaxTargets \in Nat
    BY DEF DialAssumption
  <2>2. k \in Nat /\ 1 <= k /\ k <= n /\ (s # "parallel" => k = 1) /\ (s = "parallel" => k = n)
    BY <2>1
  <2>. HIDE DEF k
  <2>3. Cardinality(1..k) = k
    BY <2>2, FS_Interval
  <2>4. k = 1 => 1..k = {1} /\ 1..k = {k}
    BY <2>2
  <2>5. (IF s = "parallel" THEN 1..n ELSE {1}) = 1..k
    BY <2>2, <2>4
  <2>6. 1..k \subseteq Attempts /\ k \in 1..n
    BY <2>1, <2>2 DEF Attempts
  <2>7. QED
    BY <2>1, <2>2, <2>3, <2>4, <2>5, <2>6
<1>3. /\ strategy' = s /\ targets' = n /\ timed' = t /\ listed' = TRUE /\ started' = k
      /\ active' = 1..k /\ held' = 1..k
      /\ leg' = [l \in Attempts |-> IF l \in 1..k THEN "live" ELSE "none"]
      /\ sip' = [l \in Attempts |-> IF l \in 1..k THEN "starting" ELSE "none"]
      /\ timers' \in {{}, 1..k} /\ (timers' # {} => s = "sequential")
      /\ UNCHANGED <<status, finalized, winner, winnerHeld, gap, bridge, waiting, waits>>
  <2>. HIDE DEF k
  <2>1. QED
    BY <1>2 DEF CreateDial, waiters
<1>4. Started' = 1..k /\ Live' = 1..k
  <2>. HIDE DEF k
  <2>1. QED
    BY <1>2, <1>3 DEF Started, Live
<1>. HIDE DEF k
<1>5. TypeOK'
  BY <1>1, <1>2, <1>3, <1>4 DEF TypeOK, DialAssumption
<1>6. (ActiveAttemptsOwned /\ LiveLegsOwned /\ NoOrphanAttempt)'
  BY <1>1, <1>3, <1>4 DEF ActiveAttemptsOwned, LiveLegsOwned, NoOrphanAttempt, Created
<1>7. LastRings'
  BY <1>2, <1>3 DEF LastRings
<1>8. OneAtATime'
  BY <1>1, <1>3, <1>7, AtMostOne DEF OneAtATime, LastRings
<1>9. (TimersHaveADial /\ NeverStuck /\ TimersAreSequential)'
  BY <1>1, <1>2, <1>3 DEF TimersHaveADial, NeverStuck, TimersAreSequential, Dialing
<1>10. (RingingIsActive /\ NothingRings /\ Uncreated)'
  BY <1>1, <1>3, <1>4 DEF RingingIsActive, NothingRings, Dialing, Uncreated, Created
<1>11. QED
  BY <1>5, <1>6, <1>7, <1>8, <1>9, <1>10 DEF IInv, DialSafe

\* startNextAttempt, when the gap timer fires.
LEMMA GapOverStep ==
    ASSUME DialAssumption, IInv, GapOver
    PROVE  IInv'
<1>. DEFINE l == started + 1
<1>1. /\ TypeOK /\ held = active /\ active \subseteq Live /\ Live \subseteq active
      /\ Created /\ active = {} /\ Pending /\ strategy = "sequential" /\ timers = {}
      /\ listed /\ ~finalized
  BY DEF IInv, DialSafe, ActiveAttemptsOwned, RingingIsActive, Uncreated, Dialing,
         TimersHaveADial, TimersAreSequential, OneAtATime, GapOver
<1>2. /\ l \in Nat /\ l \in Attempts /\ started' = l /\ l \in 0..targets
      /\ 1..l = (1..started) \cup {l} /\ l \notin 1..started /\ started \in Nat
      /\ 0..started \subseteq 0..l
  BY <1>1 DEF TypeOK, Pending, Attempts, DialAssumption, GapOver
<1>. HIDE DEF l
<1>3. /\ started' = l /\ gap' = FALSE /\ active' = {l} /\ held' = {l}
      /\ leg' = [leg EXCEPT ![l] = "live"] /\ sip' = [sip EXCEPT ![l] = "starting"]
      /\ timers' \in {{}, {l}}
      /\ UNCHANGED <<strategy, timed, targets, status, finalized, listed, winner, winnerHeld,
                     bridge, waiting, waits>>
  BY <1>1, <1>2 DEF GapOver, plan, waiters, l
<1>4. Started' = Started \cup {l} /\ Live' = {l}
  <2>1. Started' = Started \cup {l} /\ Started \subseteq Attempts
    BY <1>1, <1>2 DEF Started, TypeOK, Attempts, DialAssumption
  <2>2. \A m \in Started : leg'[m] = leg[m]
    BY <1>1, <1>2, <1>3, <2>1 DEF Started, TypeOK
  <2>3. leg'[l] = "live"
    BY <1>1, <1>2, <1>3 DEF TypeOK
  <2>4. QED
    BY <1>1, <2>1, <2>2, <2>3 DEF Live
<1>5. TypeOK'
  BY <1>1, <1>2, <1>3, <1>4 DEF TypeOK
<1>6. (ActiveAttemptsOwned /\ LiveLegsOwned /\ NoOrphanAttempt)'
  BY <1>1, <1>3, <1>4 DEF ActiveAttemptsOwned, LiveLegsOwned, NoOrphanAttempt, Created
<1>7. LastRings'
  BY <1>3 DEF LastRings
<1>8. OneAtATime'
  BY <1>3, <1>7, AtMostOne DEF OneAtATime, LastRings
<1>9. (TimersHaveADial /\ NeverStuck /\ TimersAreSequential)'
  BY <1>1, <1>3 DEF TimersHaveADial, NeverStuck, TimersAreSequential, Dialing
<1>10. (RingingIsActive /\ NothingRings /\ Uncreated)'
  BY <1>1, <1>3, <1>4 DEF RingingIsActive, NothingRings, Dialing, Uncreated, Created
<1>11. QED
  BY <1>5, <1>6, <1>7, <1>8, <1>9, <1>10 DEF IInv, DialSafe

\* A step that only moves the SIP transaction, the bridge or the waits.
LEMMA QuietStep ==
    ASSUME DialAssumption, IInv,
           UNCHANGED <<plan, started, status, finalized, listed, active, held, winner,
                       winnerHeld, gap, timers, leg>>, OthersOK'
    PROVE  IInv'
<1>1. TypeOK'
  BY DEF IInv, DialSafe, TypeOK, OthersOK, Started, plan
<1>2. Live' = Live /\ Dialing' = Dialing /\ Pending' = Pending /\ Created' = Created
  BY DEF Live, Started, Dialing, Pending, Created, plan
<1>3. QED
  BY <1>1, <1>2 DEF IInv, DialSafe, ActiveAttemptsOwned, LiveLegsOwned, NoOrphanAttempt,
     OneAtATime, TimersHaveADial, NeverStuck, RingingIsActive, NothingRings, LastRings,
     TimersAreSequential, Uncreated, plan

\* The clean-up of a leg that ended takes it out of the registry.
LEMMA DetachStep ==
    ASSUME DialAssumption, IInv, NEW l \in Started, Detach(l)
    PROVE  IInv'
<1>1. TypeOK /\ leg[l] = "ending" /\ leg' = [leg EXCEPT ![l] = "gone"] /\ Started' = Started
  BY DEF IInv, DialSafe, Detach, Started
<1>2. TypeOK'
  BY <1>1 DEF TypeOK, Detach, plan, waiters
<1>3. Started \subseteq Attempts
  BY <1>1 DEF TypeOK, Started, Attempts, DialAssumption
<1>4. /\ Live' = Live /\ Dialing' = Dialing /\ Pending' = Pending /\ Created' = Created
      /\ UNCHANGED <<strategy, timed, targets, started, status, finalized, listed, active,
                     held, winner, winnerHeld, gap, timers>>
  BY <1>1, <1>3 DEF TypeOK, Live, Dialing, Pending, Created, plan, Detach
<1>5. QED
  BY <1>2, <1>4 DEF IInv, DialSafe, ActiveAttemptsOwned, LiveLegsOwned, NoOrphanAttempt,
     OneAtATime, TimersHaveADial, NeverStuck, RingingIsActive, NothingRings, LastRings,
     TimersAreSequential, Uncreated

\* A reject of an attempt: one that counts is lost, one that left the
\* registry or comes after the dial's end only ends its leg.
LEMMA RefusedStep ==
    ASSUME DialAssumption, IInv, NEW l \in Started, Refused(l)
    PROVE  IInv'
<1>1. OthersOK' /\ UNCHANGED <<plan, started, winner>>
  BY DEF IInv, DialSafe, TypeOK, OthersOK, Refused, waiters
<1>2. CASE Dialing /\ Lose(l)
  BY <1>1, <1>2, LoseStep
<1>3. CASE /\ Dialing => l \in Gone
           /\ EndLegs({l}, winnerHeld)
           /\ UNCHANGED <<status, finalized, listed, active, held, gap, timers>>
  <2>1. Dialing => l \notin Live
    BY <1>3 DEF Live, Gone
  <2>2. QED
    BY <1>1, <1>3, <2>1, EndsAloneStep
<1>4. QED
  BY <1>2, <1>3 DEF Refused

\* A leg that lives ends: a running dial loses an attempt by it, a dial that
\* is over at most the ticket of its winner.
LEMMA LegEndsStep ==
    ASSUME DialAssumption, IInv, NEW l \in Started, LegEnds(l)
    PROVE  IInv'
<1>1. OthersOK' /\ UNCHANGED <<plan, started, winner>>
  BY DEF IInv, DialSafe, TypeOK, OthersOK, LegEnds, waiters
<1>2. CASE l \in active /\ Dialing
  BY <1>1, <1>2, LoseStep DEF LegEnds
<1>3. CASE ~(l \in active /\ Dialing)
  <2>1. Dialing => l \notin Live
    BY <1>3 DEF IInv, RingingIsActive
  <2>2. QED
    BY <1>1, <1>3, <2>1, EndsAloneStep DEF LegEnds
<1>4. QED
  BY <1>2, <1>3

\* A leg that call.bridge retains counts as the winner if it still rings.
LEMMA BridgeStep ==
    ASSUME DialAssumption, IInv, NEW l \in Started, Bridge(l)
    PROVE  IInv'
<1>1. OthersOK' /\ UNCHANGED <<plan, started>>
  BY DEF IInv, DialSafe, TypeOK, OthersOK, Bridge, waiters
<1>2. CASE Dialing /\ winner = 0 /\ l \in active
  BY <1>1, <1>2, AnsweredStep DEF Bridge
<1>3. CASE ~(Dialing /\ winner = 0 /\ l \in active)
  BY <1>1, <1>3, QuietStep DEF Bridge
<1>4. QED
  BY <1>2, <1>3

-----------------------------------------------------------------------------
(* The theorems.                                                           *)

LEMMA InitHolds ==
    ASSUME DialAssumption, Init
    PROVE  IInv
<1>1. Started = {} /\ Live = {} /\ ~Created /\ ~Dialing
  BY DEF Init, Started, Live, Created, Dialing
<1>2. TypeOK
  <2>1. 0 \in 0..MaxTargets /\ 0 \in 0..MaxWaits /\ 0 \in 0..0
    BY DEF DialAssumption
  <2>2. QED
    BY <1>1, <2>1 DEF Init, TypeOK
<1>3. QED
  BY <1>1, <1>2, FS_EmptySet DEF Init, IInv, DialSafe, ActiveAttemptsOwned, LiveLegsOwned,
     NoOrphanAttempt, OneAtATime, TimersHaveADial, NeverStuck, RingingIsActive, NothingRings,
     LastRings, TimersAreSequential, Uncreated

LEMMA StepHolds ==
    ASSUME DialAssumption, IInv, [Next]_vars
    PROVE  IInv'
<1>. DEFINE Rest == UNCHANGED <<plan, started, winner>> /\ OthersOK'
<1>1. TypeOK
  BY DEF IInv, DialSafe
<1>2. ASSUME NEW s \in {"parallel", "sequential"}, NEW n \in 1..MaxTargets,
             NEW t \in BOOLEAN, CreateDial(s, n, t)
      PROVE  IInv'
  BY <1>2, CreateDialStep
<1>3. CASE GapOver
  BY <1>3, GapOverStep
<1>4. ASSUME NEW l \in Started, AttemptTimeout(l)
      PROVE  IInv'
  <2>1. Rest /\ Dialing /\ Lose(l)
    BY <1>1, <1>4 DEF TypeOK, OthersOK, AttemptTimeout, waiters
  <2>2. QED
    BY <2>1, LoseStep
<1>5. ASSUME NEW l \in Started, Invite(l)
      PROVE  IInv'
  <2>1. OthersOK'
    BY <1>1, <1>5 DEF TypeOK, OthersOK, Invite, waiters
  <2>2. QED
    BY <1>5, <2>1, QuietStep DEF Invite
<1>6. ASSUME NEW l \in Started, Refused(l)
      PROVE  IInv'
  BY <1>6, RefusedStep
<1>7. ASSUME NEW l \in Started, StartupFails(l)
      PROVE  IInv'
  <2>1. Rest /\ Dialing /\ FinalizeFailed({l}) /\ {l} \in SUBSET Started
    BY <1>1, <1>7 DEF TypeOK, OthersOK, StartupFails, waiters
  <2>2. QED
    BY <2>1, FinalizeStep
<1>8. ASSUME NEW l \in Started, Answer(l)
      PROVE  IInv'
  <2>1. OthersOK'
    BY <1>1, <1>8 DEF TypeOK, OthersOK, Answer, waiters
  <2>2. QED
    BY <1>8, <2>1, AnsweredStep DEF Answer
<1>9. ASSUME NEW l \in Started, Bridge(l)
      PROVE  IInv'
  BY <1>9, BridgeStep
<1>10. ASSUME NEW l \in Started, Unbridge(l)
       PROVE  IInv'
  <2>1. OthersOK'
    BY <1>1, <1>10 DEF TypeOK, OthersOK, Unbridge, waiters
  <2>2. QED
    BY <1>10, <2>1, QuietStep DEF Unbridge
<1>11. ASSUME NEW l \in Started, LegEnds(l)
       PROVE  IInv'
  BY <1>11, LegEndsStep
<1>12. ASSUME NEW l \in Started, Detach(l)
       PROVE  IInv'
  BY <1>12, DetachStep
<1>13. CASE BreakDial \/ FreeTtl
  <2>1. Rest /\ Dialing /\ FinalizeFailed({}) /\ {} \in SUBSET Started
    BY <1>1, <1>13 DEF TypeOK, OthersOK, BreakDial, FreeTtl, waiters
  <2>2. QED
    BY <2>1, FinalizeStep
<1>14. CASE WaitBegins \/ WaitEnds
  <2>1. OthersOK'
    <3>1. CASE WaitBegins
      <4>1. waits + 1 \in 0..MaxWaits
        BY <1>1, <3>1 DEF TypeOK, WaitBegins, DialAssumption
      <4>2. QED
        BY <1>1, <3>1, <4>1 DEF TypeOK, OthersOK, WaitBegins
    <3>2. CASE WaitEnds
      BY <1>1, <3>2 DEF TypeOK, OthersOK, WaitEnds
    <3>3. QED
      BY <1>14, <3>1, <3>2
  <2>2. QED
    BY <1>14, <2>1, QuietStep DEF WaitBegins, WaitEnds
<1>15. CASE UNCHANGED vars
  <2>1. OthersOK'
    BY <1>1, <1>15 DEF TypeOK, OthersOK, vars
  <2>2. QED
    BY <1>15, <2>1, QuietStep DEF vars, plan
<1>16. QED
  BY <1>2, <1>3, <1>4, <1>5, <1>6, <1>7, <1>8, <1>9, <1>10, <1>11, <1>12, <1>13, <1>14,
     <1>15 DEF Next

\* In every state of a dial, whatever order answers, rejections, timeouts and
\* hangups come in: its attempts are the legs it owns, no leg that rings or
\* talks is without an owner, a dial that is over leaves at most its winner,
\* a sequential one rings one target at a time, no timer outlives the dial,
\* and a dial that nobody answered has an attempt ringing or one to come.
THEOREM DialIsSafe == Spec => []DialSafe
<1>1. Init => IInv
  BY DialAssumption, InitHolds
<1>2. IInv /\ [Next]_vars => IInv'
  BY DialAssumption, StepHolds
<1>3. IInv => DialSafe
  BY DEF IInv
<1>4. QED
  BY <1>1, <1>2, <1>3, PTL DEF Spec

-----------------------------------------------------------------------------
(* The directory: whom the dials ring, for any phones and any dials.        *)
(*                                                                          *)
(* While the listing could know everything, the mark of a leg is the        *)
(* endpoint its phone has (MarkersAreTrue), so an endpoint without a mark   *)
(* belongs to a phone that is in no call.                                   *)

LegRecords ==
    [state : {"none", "trying", "answered"},
     marker : Endpoints \cup (Phones \X {0}), phone : Phones \cup {0},
     dial : DialIds \cup {0}] \cup {NoLeg}

\* The records of the dials.
DialRecords ==
    [state : {"none", "ringing", "gap", "answered", "failed", "refused"},
     strategy : {"parallel", "sequential"}, free : BOOLEAN, pending : Seq(Endpoints)]

\* A leg is marked with the endpoint its phone has.
MarkersAreTrue ==
    dyFlaws = {} =>
        \A l \in LegIds :
            legOf[l].phone # 0 => legOf[l].marker = <<legOf[l].phone, at[legOf[l].phone]>>

\* What rings a phone or belongs to a dial is in a call.
NobodysLegs ==
    \A l \in LegIds : legOf[l].phone # 0 \/ legOf[l].dial # 0 => InCall(legOf, l)

\* A leg that tries belongs to a dial that rings, one that was answered to a
\* dial that was.
DialsOfLegs ==
    \A l \in LegIds : legOf[l].dial # 0 =>
        dial[legOf[l].dial].state = IF legOf[l].state = "answered" THEN "answered" ELSE "ringing"

\* Only a sequential dial has targets for later, and a gap only before one.
LaterIsSequential ==
    \A d \in DialIds :
        /\ dial[d].pending # <<>> => dial[d].strategy = "sequential"
        /\ dial[d].state = "gap" => dial[d].pending # <<>>

\* A dial that rings has a leg, one in a gap has none, and one that failed
\* has nothing left to ring.
GoesOn ==
    \A d \in DialIds :
        /\ dial[d].state = "gap" => \A l \in LegIds : legOf[l].dial # d
        /\ dial[d].state = "ringing" => \E l \in LegIds : legOf[l].dial = d
        /\ dial[d].state = "failed" => dial[d].pending = <<>>

\* A sequential dial has one leg at most.
OneLeg ==
    \A d \in DialIds : dial[d].strategy = "sequential" =>
        \A k, l \in LegIds : legOf[k].dial = d /\ legOf[l].dial = d => k = l

\* No two legs of calls that wanted a free phone ring the same one.
NoneTwice ==
    dyFlaws = {} =>
        \A k, l \in LegIds :
            legOf[k].phone # 0 /\ legOf[k].phone = legOf[l].phone /\ OfFreeDial(k) /\ OfFreeDial(l)
            => k = l

LegsInv == RingsTheTarget /\ NobodysLegs /\ MarkersAreTrue /\ NoneTwice
DialsInv == DialsOfLegs /\ LaterIsSequential /\ GoesOn /\ OneLeg
DyInv == DyTypeOK /\ LegsInv /\ DialsInv

LEMMA DirectoryIsPromised == DirectoryAssumption /\ DyInv => DirectorySafe
<1>. SUFFICES ASSUME DirectoryAssumption, DyInv
              PROVE  OneCallPerPhone /\ OneAfterAnother
  BY DEF DyInv, LegsInv, DirectorySafe
<1>1. ASSUME NEW S \in SUBSET LegIds, \A k, l \in S : k = l
      PROVE  Cardinality(S) =< 1
  <2>1. CASE S = {}
    BY <2>1, FS_EmptySet
  <2>2. CASE S # {}
    <3>1. PICK e \in S : TRUE
      BY <2>2
    <3>2. S = {e}
      BY <1>1, <3>1
    <3>3. QED
      BY <3>2, AtMostOne
  <2>3. QED
    BY <2>1, <2>2
<1>2. OneCallPerPhone
  <2>. SUFFICES ASSUME dyFlaws = {}, NEW p \in Phones
                PROVE  Cardinality({l \in Using(legOf, p) : OfFreeDial(l)}) =< 1
    BY DEF OneCallPerPhone
  <2>1. p # 0
    BY DEF DirectoryAssumption
  <2>2. \A k, l \in {l \in Using(legOf, p) : OfFreeDial(l)} : k = l
    BY <2>1 DEF DyInv, LegsInv, NoneTwice, Using
  <2>3. QED
    BY <1>1, <2>2 DEF Using
<1>3. OneAfterAnother
  <2>. SUFFICES ASSUME NEW d \in DialIds, dial[d].strategy = "sequential"
                PROVE  Cardinality({l \in LegIds : legOf[l].dial = d}) =< 1
    BY DEF OneAfterAnother, DyInv, DialsInv, GoesOn
  <2>1. \A k, l \in {l \in LegIds : legOf[l].dial = d} : k = l
    BY DEF DyInv, DialsInv, OneLeg
  <2>2. QED
    BY <1>1, <2>1
<1>4. QED
  BY <1>2, <1>3

LEMMA EndpointsAreFinite ==
    DirectoryAssumption =>
        \A S \in SUBSET Endpoints :
            /\ IsFiniteSet(S) /\ Cardinality(S) \in Nat
            /\ Cardinality(S) =< Cardinality(Endpoints) /\ Cardinality(Endpoints) \in Nat
<1>. SUFFICES ASSUME DirectoryAssumption, NEW S \in SUBSET Endpoints
              PROVE  /\ IsFiniteSet(S) /\ Cardinality(S) \in Nat
                     /\ Cardinality(S) =< Cardinality(Endpoints) /\ Cardinality(Endpoints) \in Nat
  OBVIOUS
<1>1. IsFiniteSet(Addresses)
  <2>1. Addresses = {1} \cup {2}
    BY DEF Addresses
  <2>2. QED
    BY <2>1, FS_Singleton, FS_AddElement
<1>2. IsFiniteSet(Endpoints)
  BY <1>1, FS_Product DEF Endpoints, DirectoryAssumption
<1>3. QED
  BY <1>2, FS_Subset, FS_CardinalityType

LEMMA DyInitHolds == DirectoryAssumption /\ DyInit => DyInv
<1>. SUFFICES ASSUME DirectoryAssumption, DyInit
              PROVE  DyInv
  OBVIOUS
<1>. USE DEF DyInit
<1>1. legOf \in [LegIds -> LegRecords] /\ \A l \in LegIds : legOf[l] = NoLeg
  BY DEF LegRecords
<1>2. dial \in [DialIds -> DialRecords]
  BY DEF NoDial, DialRecords
<1>3. Cardinality(Endpoints) \in Nat
  BY EndpointsAreFinite
<1>4. DyTypeOK
  BY <1>1, <1>2, <1>3 DEF DyTypeOK, LegRecords, DialRecords, Addresses, NoDial
<1>5. LegsInv
  BY <1>1 DEF LegsInv, RingsTheTarget, NobodysLegs, MarkersAreTrue, NoneTwice, NoLeg
<1>6. DialsInv
  BY <1>1 DEF DialsInv, DialsOfLegs, LaterIsSequential, GoesOn, OneLeg, NoDial, NoLeg, DirectoryAssumption
<1>7. QED
  BY <1>4, <1>5, <1>6 DEF DyInv

-----------------------------------------------------------------------------
(* What the steps do to the legs.                                           *)

\* Legs end, or are answered, and nothing else changes about them.
LEMMA FewerLegs ==
    ASSUME DirectoryAssumption, DyInv, dyFlaws' = dyFlaws, at' = at,
           \A l \in LegIds :
              \/ legOf'[l] = NoLeg
              \/ legOf'[l] = legOf[l]
              \/ /\ InCall(legOf', l)
                 /\ legOf'[l].phone = legOf[l].phone
                 /\ legOf'[l].marker = legOf[l].marker
                 /\ legOf'[l].dial = legOf[l].dial,
           \A d \in DialIds : dial'[d].free = dial[d].free
    PROVE  LegsInv'
<1>1. \A l \in LegIds :
         \/ legOf'[l].phone = 0 /\ legOf'[l].dial = 0
         \/ /\ legOf'[l].phone = legOf[l].phone
            /\ legOf'[l].marker = legOf[l].marker
            /\ legOf'[l].dial = legOf[l].dial
            /\ InCall(legOf, l) => InCall(legOf', l)
  BY DEF NoLeg, InCall
<1>2. \A l \in LegIds : legOf[l].dial \in DialIds \cup {0}
  BY DEF DyInv, DyTypeOK, NoLeg
<1>3. RingsTheTarget' /\ NobodysLegs' /\ MarkersAreTrue'
  BY <1>1 DEF DyInv, LegsInv, RingsTheTarget, NobodysLegs, MarkersAreTrue
<1>4. \A l \in LegIds : legOf'[l].phone # 0 /\ OfFreeDial(l)' => OfFreeDial(l)
  BY <1>1, <1>2 DEF OfFreeDial
<1>5. NoneTwice'
  BY <1>1, <1>4 DEF DyInv, LegsInv, NoneTwice
<1>6. QED
  BY <1>3, <1>5 DEF LegsInv

Rings(e, d) ==
    [state |-> "trying", marker |-> e, phone |-> ResolveOutboundTarget(e).phone, dial |-> d]

\* The legs join, each ringing its endpoint; the others stay.
Joins(legs, rings, d) ==
    legOf' = [l \in LegIds |-> IF l \in legs THEN Rings(rings[l], d) ELSE legOf[l]]

\* An attempt rings the phone that is at the endpoint, or nobody.
LEMMA RingsAreLegs ==
    ASSUME DirectoryAssumption, DyTypeOK, NEW e \in Endpoints, NEW d \in DialIds
    PROVE  /\ Rings(e, d) \in LegRecords
           /\ Rings(e, d).phone \in {0, e[1]}
           /\ Rings(e, d).phone # 0 => e = <<Rings(e, d).phone, at[Rings(e, d).phone]>>
<1>1. e[1] \in Phones /\ e[2] \in Addresses /\ e = <<e[1], e[2]>>
  BY DEF Endpoints
<1>2. ResolveOutboundTarget(e).phone \in {0, e[1]}
  BY DEF ResolveOutboundTarget
<1>3. ResolveOutboundTarget(e).phone # 0 => at[e[1]] = e[2]
  BY DEF ResolveOutboundTarget
<1>4. Rings(e, d).phone = ResolveOutboundTarget(e).phone
  BY DEF Rings
<1>5. Rings(e, d) \in LegRecords
  BY <1>1, <1>2 DEF Rings, LegRecords
<1>6. QED
  BY <1>1, <1>2, <1>3, <1>4, <1>5

\* New legs take one endpoint each, all of them, and the other legs stay.
LEMMA AttemptRings ==
    ASSUME NEW d \in DialIds, NEW E, Attempt(E, d)
    PROVE  \E legs \in SUBSET NewLegs : \E rings \in [legs -> E] :
              /\ IsInjective(rings)
              /\ E # {} => legs # {}
              /\ Joins(legs, rings, d)
<1>. PICK legs \in SUBSET NewLegs : \E rings \in Bijection(legs, E) :
         legOf' = [l \in LegIds |->
                    IF l \in legs
                    THEN [state |-> "trying", marker |-> rings[l],
                          phone |-> ResolveOutboundTarget(rings[l]).phone, dial |-> d]
                    ELSE legOf[l]]
  BY DEF Attempt
<1>1. PICK rings \in Bijection(legs, E) :
         legOf' = [l \in LegIds |->
                    IF l \in legs
                    THEN [state |-> "trying", marker |-> rings[l],
                          phone |-> ResolveOutboundTarget(rings[l]).phone, dial |-> d]
                    ELSE legOf[l]]
  OBVIOUS
<1>2. /\ rings \in [legs -> E]
      /\ IsInjective(rings)
      /\ \A e \in E : \E l \in legs : rings[l] = e
  BY DEF Bijection, Injection, Surjection
<1>3. Joins(legs, rings, d)
  BY <1>1 DEF Joins, Rings
<1>4. QED
  BY <1>2, <1>3

\* The other dials want what they wanted, and no phone moved.
OthersWant(d) ==
    at' = at /\ dyFlaws \subseteq dyFlaws' /\ \A c \in DialIds \ {d} : dial'[c].free = dial[c].free

\* A dial that wants free endpoints is given such, as far as the listing knows.
GivenFree(E, d) ==
    dyFlaws' = {} /\ dial'[d].free => \A e \in E : ~IsRegistrationBusy(e, legOf)

NoLegOf(d) == \A l \in LegIds : legOf[l].dial # d

\* Whoever wants free phones rings none that is in a call, as long as the
\* listing could know it.
LEMMA RingsFreePhones ==
    ASSUME DirectoryAssumption, DyInv, NEW d \in DialIds, NEW E \in SUBSET Endpoints,
           NEW legs \in SUBSET NewLegs, NEW rings \in [legs -> E],
           IsInjective(rings),
           Joins(legs, rings, d), OthersWant(d), NoLegOf(d), GivenFree(E, d)
    PROVE  LegsInv' /\ legOf' \in [LegIds -> LegRecords]
<1>1. \A l \in LegIds :
         /\ l \in legs => legOf'[l] = Rings(rings[l], d)
         /\ l \notin legs => legOf'[l] = legOf[l]
  BY DEF Joins
<1>2. \A l \in legs :
         /\ Rings(rings[l], d) \in LegRecords
         /\ Rings(rings[l], d).phone \in {0, rings[l][1]}
         /\ Rings(rings[l], d).phone # 0
            => rings[l] = <<Rings(rings[l], d).phone, at[Rings(rings[l], d).phone]>>
  BY RingsAreLegs DEF DyInv
<1>3. \A e : /\ Rings(e, d).state = "trying" /\ Rings(e, d).marker = e /\ Rings(e, d).dial = d
  BY DEF Rings
<1>4. legOf \in [LegIds -> LegRecords]
  BY DEF DyInv, DyTypeOK, LegRecords
<1>5. legOf' \in [LegIds -> LegRecords]
  BY <1>2, <1>4 DEF Joins
<1>6. RingsTheTarget' /\ NobodysLegs'
  BY <1>1, <1>2, <1>3 DEF DyInv, LegsInv, RingsTheTarget, NobodysLegs, InCall
<1>7. MarkersAreTrue'
  BY <1>1, <1>2, <1>3 DEF DyInv, LegsInv, MarkersAreTrue, OthersWant
<1>8. NoneTwice'
  <2>. SUFFICES ASSUME dyFlaws' = {}, NEW k \in LegIds, NEW l \in LegIds,
                       legOf'[k].phone # 0, legOf'[k].phone = legOf'[l].phone,
                       OfFreeDial(k)', OfFreeDial(l)'
                PROVE  k = l
    BY DEF NoneTwice
  <2>1. dyFlaws = {}
    BY DEF OthersWant
  \* A new leg of this dial and an old one: its phone would have a mark.
  <2>2. ASSUME NEW i \in LegIds, NEW j \in LegIds, i \in legs, j \notin legs,
               legOf'[i].phone # 0, legOf'[i].phone = legOf'[j].phone, OfFreeDial(i)'
        PROVE  FALSE
    <3>1. d # 0
      BY DEF DirectoryAssumption
    <3>2. dial'[d].free
      BY <1>1, <1>3, <2>2, <3>1 DEF OfFreeDial
    <3>3. rings[i] = <<legOf[j].phone, at[legOf[j].phone]>>
      BY <1>1, <1>2, <2>2
    <3>4. legOf[j].marker = rings[i] /\ InCall(legOf, j)
      BY <1>1, <2>1, <2>2, <3>3 DEF DyInv, LegsInv, MarkersAreTrue, NobodysLegs
    <3>5. IsRegistrationBusy(rings[i], legOf)
      BY <3>4 DEF IsRegistrationBusy, BusyMarkers
    <3>6. rings[i] \in E
      BY <2>2
    <3>7. QED
      BY <3>2, <3>5, <3>6 DEF GivenFree
  <2>3. CASE k \in legs /\ l \in legs
    <3>1. rings[k] = rings[l]
      BY <1>1, <1>2, <2>3
    <3>2. QED
      BY <2>3, <3>1 DEF IsInjective
  <2>4. CASE k \notin legs /\ l \notin legs
    <3>1. \A i \in {k, l} : OfFreeDial(i)
      <4>1. \A i \in {k, l} : legOf'[i] = legOf[i] /\ legOf[i].dial \in DialIds \cup {0} /\ legOf[i].dial # d
        BY <1>1, <1>4, <2>4 DEF LegRecords, NoLeg, NoLegOf
      <4>2. QED
        BY <4>1 DEF OfFreeDial, OthersWant
    <3>2. QED
      BY <1>1, <2>1, <2>4, <3>1 DEF DyInv, LegsInv, NoneTwice
  <2>5. QED
    BY <2>2, <2>3, <2>4
<1>9. QED
  BY <1>5, <1>6, <1>7, <1>8 DEF LegsInv

\* One dial changes.
LEMMA OneDial ==
    ASSUME DyTypeOK, NEW d \in DialIds, NEW r \in DialRecords, dial' = [dial EXCEPT ![d] = r]
    PROVE  /\ dial' \in [DialIds -> DialRecords]
           /\ dial'[d] = r
           /\ \A c \in DialIds \ {d} : dial'[c] = dial[c]
  BY DEF DyTypeOK, DialRecords

\* The types of all there is, from those of what a step changed.
LEMMA DyTypes ==
    ASSUME DyTypeOK, UNCHANGED <<at, bound>>, legOf' \in [LegIds -> LegRecords],
           dial' \in [DialIds -> DialRecords], dyFlaws' \subseteq DyFlaws,
           \A d \in DialIds : \/ dial'[d].pending = dial[d].pending
                              \/ Len(dial'[d].pending) =< Cardinality(Endpoints)
    PROVE  DyTypeOK'
  BY DEF DyTypeOK, LegRecords, DialRecords

\* The dials when one of them rings new legs and had none.
LEMMA OneDialRings ==
    ASSUME DirectoryAssumption, DyInv, NEW d \in DialIds, NEW legs \in SUBSET NewLegs,
           NEW rings, legs # {},
           Joins(legs, rings, d),
           NoLegOf(d),
           \A c \in DialIds \ {d} : dial'[c] = dial[c],
           dial'[d].state = "ringing",
           dial'[d].pending # <<>> => dial'[d].strategy = "sequential",
           dial'[d].strategy = "sequential" => \A k, l \in legs : k = l
    PROVE  DialsInv'
<1>1. \A l \in LegIds :
         /\ l \in legs => legOf'[l].dial = d /\ legOf'[l].state = "trying" /\ legOf[l].dial = 0
         /\ l \notin legs => legOf'[l] = legOf[l]
  BY DEF Joins, Rings, NewLegs, NoLeg
<1>2. d # 0 /\ \A l \in LegIds : legOf[l].dial \in DialIds \cup {0}
  BY DEF DyInv, DyTypeOK, NoLeg, DirectoryAssumption
<1>3. \A c \in DialIds \ {d}, l \in LegIds : legOf'[l].dial = c <=> legOf[l].dial = c
  BY <1>1, <1>2 DEF DirectoryAssumption
<1>4. DialsOfLegs'
  <2>. SUFFICES ASSUME NEW l \in LegIds, legOf'[l].dial # 0
                PROVE  dial'[legOf'[l].dial].state =
                         IF legOf'[l].state = "answered" THEN "answered" ELSE "ringing"
    BY DEF DialsOfLegs
  <2>1. CASE l \in legs
    BY <1>1, <2>1
  <2>2. CASE l \notin legs
    <3>1. legOf'[l] = legOf[l] /\ legOf[l].dial \in DialIds \ {d}
      BY <1>1, <1>2, <2>2 DEF NoLegOf
    <3>2. dial'[legOf'[l].dial] = dial[legOf[l].dial]
      BY <3>1
    <3>3. QED
      BY <3>1, <3>2 DEF DyInv, DialsInv, DialsOfLegs
  <2>3. QED
    BY <2>1, <2>2
<1>5. LaterIsSequential'
  BY DEF DyInv, DialsInv, LaterIsSequential
<1>6. GoesOn'
  <2>1. \E l \in LegIds : legOf'[l].dial = d
    BY <1>1 DEF NewLegs
  <2>2. ASSUME NEW c \in DialIds \ {d}
        PROVE  /\ dial'[c].state = "gap" => \A l \in LegIds : legOf'[l].dial # c
               /\ dial'[c].state = "ringing" => \E l \in LegIds : legOf'[l].dial = c
               /\ dial'[c].state = "failed" => dial'[c].pending = <<>>
    <3>1. dial'[c] = dial[c]
      OBVIOUS
    <3>2. /\ dial[c].state = "gap" => \A l \in LegIds : legOf[l].dial # c
          /\ dial[c].state = "ringing" => \E l \in LegIds : legOf[l].dial = c
          /\ dial[c].state = "failed" => dial[c].pending = <<>>
      BY DEF DyInv, DialsInv, GoesOn
    <3>3. \A l \in LegIds : legOf'[l].dial = c <=> legOf[l].dial = c
      BY <1>3
    <3>4. QED
      BY <3>1, <3>2, <3>3
  <2>3. QED
    BY <2>1, <2>2 DEF GoesOn
<1>7. OneLeg'
  BY <1>1, <1>3 DEF DyInv, DialsInv, OneLeg, NoLegOf
<1>8. QED
  BY <1>4, <1>5, <1>6, <1>7 DEF DialsInv

\* No leg goes over to another dial.
LegsStayWith(D) ==
    \A l \in LegIds :
       \/ legOf'[l].dial = 0
       \/ /\ legOf'[l].dial = legOf[l].dial
          /\ legOf'[l].dial \notin D => legOf'[l].state = legOf[l].state

\* The dials but those of D go on as they were.
GoOnBut(D) ==
    \A c \in DialIds \ D :
       /\ dial'[c] = dial[c]
       /\ dial[c].state = "ringing" => \E l \in LegIds : legOf'[l].dial = c

\* Those of D do not ring any more.
StopRinging(D) ==
    \A c \in D :
       /\ \A l \in LegIds : legOf'[l].dial = c =>
             dial'[c].state = IF legOf'[l].state = "answered" THEN "answered" ELSE "ringing"
       /\ dial'[c].pending # <<>> => dial'[c].strategy = "sequential"
       /\ dial'[c].state = "gap" => dial'[c].pending # <<>> /\ \A l \in LegIds : legOf'[l].dial # c
       /\ dial'[c].state # "ringing"
       /\ dial'[c].state = "failed" => dial'[c].pending = <<>>
       /\ dial'[c].strategy = "sequential" => dial[c].strategy = "sequential"

\* The dials when legs end or are answered.
LEMMA DialsKept ==
    ASSUME DirectoryAssumption, DyInv, NEW D \in SUBSET DialIds,
           LegsStayWith(D), GoOnBut(D), StopRinging(D)
    PROVE  DialsInv'
<1>1. \A l \in LegIds : legOf[l].dial \in DialIds \cup {0}
  BY DEF DyInv, DyTypeOK, NoLeg
<1>2. DialsOfLegs'
  <2>. SUFFICES ASSUME NEW l \in LegIds, legOf'[l].dial # 0
                PROVE  dial'[legOf'[l].dial].state =
                         IF legOf'[l].state = "answered" THEN "answered" ELSE "ringing"
    BY DEF DialsOfLegs
  <2>1. CASE legOf'[l].dial \in D
    BY <2>1 DEF StopRinging
  <2>2. CASE legOf'[l].dial \notin D
    <3>1. legOf'[l].dial = legOf[l].dial /\ legOf[l].dial \in DialIds \ D
          /\ legOf'[l].state = legOf[l].state
      BY <1>1, <2>2 DEF LegsStayWith
    <3>2. dial'[legOf'[l].dial] = dial[legOf[l].dial]
      <4>1. ASSUME NEW c \in DialIds \ D
            PROVE  dial'[c] = dial[c]
        BY DEF GoOnBut
      <4>2. QED
        BY <3>1, <4>1
    <3>3. QED
      BY <3>1, <3>2 DEF DyInv, DialsInv, DialsOfLegs
  <2>3. QED
    BY <2>1, <2>2
<1>3. LaterIsSequential'
  BY DEF DyInv, DialsInv, LaterIsSequential, GoOnBut, StopRinging
<1>4. \A l \in LegIds, c \in DialIds : legOf'[l].dial = c => legOf[l].dial = c
  BY DEF DirectoryAssumption, LegsStayWith
<1>5. GoesOn'
  <2>. SUFFICES ASSUME NEW c \in DialIds
                PROVE  /\ dial'[c].state = "gap" => \A l \in LegIds : legOf'[l].dial # c
                       /\ dial'[c].state = "ringing" => \E l \in LegIds : legOf'[l].dial = c
                       /\ dial'[c].state = "failed" => dial'[c].pending = <<>>
    BY DEF GoesOn
  <2>1. CASE c \in D
    BY <2>1 DEF StopRinging
  <2>2. CASE c \notin D
    <3>1. dial'[c] = dial[c] /\ (dial[c].state = "ringing" => \E l \in LegIds : legOf'[l].dial = c)
      BY <2>2 DEF GoOnBut
    <3>2. /\ dial[c].state = "gap" => \A l \in LegIds : legOf[l].dial # c
          /\ dial[c].state = "failed" => dial[c].pending = <<>>
      BY DEF DyInv, DialsInv, GoesOn
    <3>3. QED
      BY <1>4, <3>1, <3>2
  <2>3. QED
    BY <2>1, <2>2
<1>6. \A c \in DialIds : dial'[c].strategy = "sequential" => dial[c].strategy = "sequential"
  BY DEF GoOnBut, StopRinging
<1>7. OneLeg'
  <2>. SUFFICES ASSUME NEW c \in DialIds, dial'[c].strategy = "sequential",
                       NEW k \in LegIds, NEW l \in LegIds, legOf'[k].dial = c, legOf'[l].dial = c
                PROVE  k = l
    BY DEF OneLeg
  <2>1. dial[c].strategy = "sequential" /\ legOf[k].dial = c /\ legOf[l].dial = c
    BY <1>4, <1>6
  <2>2. QED
    BY <2>1 DEF DyInv, DialsInv, OneLeg
<1>8. QED
  BY <1>2, <1>3, <1>5, <1>7 DEF DialsInv

-----------------------------------------------------------------------------
(* The steps of the directory.                                              *)

\* The legs and the dials of a step that is only about phones.
LEMMA RegistryStep ==
    ASSUME DyInv, UNCHANGED <<legOf, dial>>, dyFlaws \subseteq dyFlaws'
    PROVE  DialsInv' /\ RingsTheTarget' /\ NobodysLegs' /\ NoneTwice'
<1>1. DialsInv'
  BY DEF DyInv, DialsInv, DialsOfLegs, LaterIsSequential, GoesOn, OneLeg
<1>2. RingsTheTarget' /\ NobodysLegs'
  BY DEF DyInv, LegsInv, RingsTheTarget, NobodysLegs, InCall
<1>3. NoneTwice'
  BY DEF DyInv, LegsInv, NoneTwice, OfFreeDial
<1>4. QED
  BY <1>1, <1>2, <1>3

\* Nor does a binding that comes or goes touch a mark.
LEMMA BindingStep ==
    ASSUME DyInv, UNCHANGED <<at, legOf, dial, dyFlaws>>, bound' \subseteq Endpoints
    PROVE  DyInv'
<1>1. DyTypeOK'
  BY DEF DyInv, DyTypeOK
<1>2. MarkersAreTrue'
  BY DEF DyInv, LegsInv, MarkersAreTrue
<1>3. QED
  BY <1>1, <1>2, RegistryStep DEF DyInv, LegsInv

LEMMA RegistersStep ==
    ASSUME DyInv, NEW p \in Phones, Registers(p)
    PROVE  DyInv'
<1>1. UNCHANGED <<at, legOf, dial, dyFlaws>> /\ bound' \subseteq Endpoints
  BY DEF Registers, DyInv, DyTypeOK, Endpoints
<1>2. QED
  BY <1>1, BindingStep

LEMMA BindingGoesStep ==
    ASSUME DyInv, NEW e \in bound, BindingGoes(e)
    PROVE  DyInv'
<1>1. UNCHANGED <<at, legOf, dial, dyFlaws>> /\ bound' \subseteq Endpoints
  BY DEF BindingGoes, DyInv, DyTypeOK
<1>2. QED
  BY <1>1, BindingStep

LEMMA MovesStep ==
    ASSUME DyInv, NEW p \in Phones, Moves(p)
    PROVE  DyInv'
<1>1. at' = [at EXCEPT ![p] = 2] /\ UNCHANGED <<bound, legOf, dial>>
  BY DEF Moves
<1>2. at' \in [Phones -> Addresses]
  BY <1>1 DEF DyInv, DyTypeOK, Addresses
<1>3. dyFlaws' \subseteq DyFlaws /\ dyFlaws \subseteq dyFlaws'
  BY DEF Moves, DyInv, DyTypeOK, DyFlaws
<1>4. DyTypeOK'
  BY <1>1, <1>2, <1>3 DEF DyInv, DyTypeOK
<1>5. MarkersAreTrue'
  <2>. SUFFICES ASSUME dyFlaws' = {}, NEW l \in LegIds, legOf[l].phone # 0
                PROVE  legOf[l].marker = <<legOf[l].phone, at'[legOf[l].phone]>>
    BY <1>1 DEF MarkersAreTrue
  <2>1. Using(legOf, p) = {}
    BY DEF Moves
  <2>2. InCall(legOf, l)
    BY DEF DyInv, LegsInv, NobodysLegs
  <2>3. legOf[l].phone # p
    BY <2>1, <2>2 DEF Using
  <2>4. legOf[l].phone \in Phones
    BY DEF DyInv, DyTypeOK, NoLeg
  <2>5. at'[legOf[l].phone] = at[legOf[l].phone]
    BY <1>1, <2>3, <2>4 DEF DyInv, DyTypeOK
  <2>6. dyFlaws = {}
    BY <1>3
  <2>7. QED
    BY <2>5, <2>6 DEF DyInv, LegsInv, MarkersAreTrue
<1>6. QED
  BY <1>1, <1>3, <1>4, <1>5, RegistryStep DEF DyInv, LegsInv

LEMMA PhoneCallsStep ==
    ASSUME DirectoryAssumption, DyInv, NEW p \in Phones, NEW c \in BOOLEAN, NEW s \in BOOLEAN,
           PhoneCalls(p, c, s)
    PROVE  DyInv'
<1> DEFINE e == ResolveEndpointId(p, c, s)
           r == [state |-> "trying", marker |-> e, phone |-> p, dial |-> 0]
<1>1. PICK n \in NewLegs : legOf' = [legOf EXCEPT ![n] = r]
  BY DEF PhoneCalls
<1>2. /\ Using(legOf, p) = {}
      /\ dyFlaws' = IF e[2] = 0 THEN dyFlaws \cup {"unknown"} ELSE dyFlaws
      /\ UNCHANGED <<at, bound, dial>>
  BY DEF PhoneCalls
<1>3. p # 0 /\ at[p] \in Addresses /\ e \in {<<p, at[p]>>, <<p, 0>>}
  BY DEF ResolveEndpointId, DirectoryAssumption, DyInv, DyTypeOK
<1>4. e \in Endpoints \cup (Phones \X {0}) /\ (e[2] # 0 => e = <<p, at[p]>>)
  BY <1>3 DEF Endpoints
<1>. HIDE DEF e
<1>5. r \in LegRecords /\ r.state = "trying" /\ r.marker = e /\ r.phone = p /\ r.dial = 0
  BY <1>4 DEF LegRecords
<1>. HIDE DEF r
<1>6. legOf \in [LegIds -> LegRecords] /\ n \in LegIds /\ legOf[n] = NoLeg
  BY DEF DyInv, DyTypeOK, LegRecords, NewLegs
<1>7. /\ legOf' \in [LegIds -> LegRecords]
      /\ legOf'[n] = r
      /\ \A l \in LegIds \ {n} : legOf'[l] = legOf[l]
  BY <1>1, <1>5, <1>6
<1>8. DyTypeOK'
  <2>1. dyFlaws' \subseteq DyFlaws /\ dial' \in [DialIds -> DialRecords]
    BY <1>2 DEF DyInv, DyTypeOK, DyFlaws, DialRecords
  <2>2. QED
    BY <1>2, <1>7, <2>1, DyTypes DEF DyInv
<1>9. DialsInv'
  <2>1. LegsStayWith({})
    BY <1>5, <1>7 DEF LegsStayWith
  <2>2. \A d \in DialIds, l \in LegIds : legOf[l].dial = d => legOf'[l].dial = d
    BY <1>6, <1>7 DEF NoLeg, DirectoryAssumption
  <2>3. \A d \in DialIds : dial[d].state = "ringing" => \E l \in LegIds : legOf'[l].dial = d
    BY <2>2 DEF DyInv, DialsInv, GoesOn
  <2>4. GoOnBut({}) /\ StopRinging({})
    BY <1>2, <2>3 DEF GoOnBut, StopRinging
  <2>5. QED
    BY <2>1, <2>4, DialsKept
<1>10. \A l \in LegIds : legOf[l].phone # p
  BY <1>2, <1>3 DEF Using, DyInv, LegsInv, NobodysLegs
<1>11. RingsTheTarget' /\ NobodysLegs'
  BY <1>5, <1>7 DEF DyInv, LegsInv, RingsTheTarget, NobodysLegs, InCall
<1>12. dyFlaws' = {} => dyFlaws = {} /\ e = <<p, at[p]>>
  BY <1>2, <1>4
<1>13. MarkersAreTrue'
  BY <1>2, <1>5, <1>7, <1>12 DEF DyInv, LegsInv, MarkersAreTrue
<1>14. NoneTwice'
  <2>. SUFFICES ASSUME dyFlaws = {}, NEW k \in LegIds, NEW l \in LegIds,
                       legOf'[k].phone # 0, legOf'[k].phone = legOf'[l].phone,
                       OfFreeDial(k)', OfFreeDial(l)', k # l
                PROVE  FALSE
    BY <1>12 DEF NoneTwice
  <2>1. k # n /\ l # n
    BY <1>5, <1>7, <1>10
  <2>2. OfFreeDial(k) /\ OfFreeDial(l)
    BY <1>2, <1>7, <2>1 DEF OfFreeDial
  <2>3. QED
    BY <1>7, <2>1, <2>2 DEF DyInv, LegsInv, NoneTwice
<1>15. QED
  BY <1>8, <1>9, <1>11, <1>13, <1>14 DEF DyInv, LegsInv

LEMMA MakesDialStep ==
    ASSUME DirectoryAssumption, DyInv, NEW d \in DialIds,
           NEW how \in {"parallel", "sequential"}, NEW free \in BOOLEAN,
           MakesDial(d, how, free)
    PROVE  DyInv'
<1>. PICK list \in Targets(free) :
       LET n == IF how = "parallel" \/ list = <<>> THEN Len(list) ELSE 1
       IN /\ Attempt({list[i] : i \in 1 .. n}, d)
          /\ dial' = [dial EXCEPT ![d] =
                        [state |-> IF list = <<>> THEN "refused" ELSE "ringing",
                         strategy |-> how, free |-> free, pending |-> SubSeq(list, n + 1, Len(list))]]
  BY DEF MakesDial
<1> DEFINE n == IF how = "parallel" \/ list = <<>> THEN Len(list) ELSE 1
           E == {list[i] : i \in 1 .. n}
           r == [state |-> IF list = <<>> THEN "refused" ELSE "ringing",
                 strategy |-> how, free |-> free, pending |-> SubSeq(list, n + 1, Len(list))]
           others == {e \in bound : free => ~IsRegistrationBusy(e, legOf)}
<1>1. Attempt(E, d) /\ dial' = [dial EXCEPT ![d] = r]
  OBVIOUS
<1>2. dial[d] = NoDial /\ UNCHANGED <<at, bound, dyFlaws>>
  BY DEF MakesDial
<1>3. others \in SUBSET Endpoints /\ others \subseteq bound
  BY DEF DyInv, DyTypeOK, Endpoints
<1>4. list \in Seq(others) /\ Len(list) = Cardinality(others)
  <2>1. Cardinality(others) \in Nat
    BY <1>3, EndpointsAreFinite
  <2>2. list \in [1 .. Cardinality(others) -> others]
    BY DEF Targets
  <2>. HIDE DEF others
  <2>3. QED
    BY <2>1, <2>2
<1>5. Len(list) \in Nat /\ Len(list) =< Cardinality(Endpoints) /\ Cardinality(Endpoints) \in Nat
  BY <1>3, <1>4, EndpointsAreFinite
<1>6. n \in 0 .. Len(list)
  <2>. HIDE DEF others
  <2>1. list # <<>> => Len(list) # 0
    BY <1>4
  <2>2. QED
    BY <1>5, <2>1
<1>7. E \in SUBSET others
  <2>. HIDE DEF others
  <2>1. 1 .. n \subseteq DOMAIN list
    BY <1>4, <1>6
  <2>. HIDE DEF n
  <2>2. QED
    BY <1>4, <2>1
<1>8. SubSeq(list, n + 1, Len(list)) \in Seq(Endpoints)
      /\ Len(SubSeq(list, n + 1, Len(list))) =< Cardinality(Endpoints)
  <2>1. list \in Seq(Endpoints)
    BY <1>3, <1>4
  <2>. HIDE DEF n, others
  <2>2. \A i \in n + 1 .. Len(list) : list[i] \in Endpoints
    BY <1>5, <1>6, <2>1
  <2>3. QED
    BY <1>5, <1>6, <2>1, <2>2, SubSeqProperties
<1>9. r \in DialRecords
  <2>. HIDE DEF n
  <2>1. QED
    BY <1>8 DEF DialRecords
<1>10. n = Len(list) => SubSeq(list, n + 1, Len(list)) = <<>>
  <2>. HIDE DEF n, others
  <2>1. QED
    BY <1>4, <1>5
<1>11. how # "sequential" => n = Len(list)
  OBVIOUS
<1>12. E = {} => list = <<>>
  <2>. HIDE DEF others
  <2>1. list # <<>> => Len(list) # 0
    BY <1>4
  <2>2. list # <<>> => 1 \in 1 .. n
    BY <1>5, <2>1
  <2>. HIDE DEF n
  <2>3. QED
    BY <2>2
<1>13. list = <<>> => E = {} /\ n = Len(list)
  <2>1. list = <<>> => Len(list) = 0
    OBVIOUS
  <2>2. list = <<>> => n = Len(list)
    OBVIOUS
  <2>. HIDE DEF n
  <2>3. QED
    BY <2>1, <2>2
<1>14. how = "sequential" => \A e, f \in E : e = f
  <2>1. how = "sequential" /\ list # <<>> => n = 1
    OBVIOUS
  <2>2. how = "sequential" /\ list # <<>> => E = {list[1]}
    <3>. HIDE DEF n
    <3>1. QED
      BY <2>1
  <2>3. QED
    BY <1>13, <2>2
<1>15. free => \A e \in E : ~IsRegistrationBusy(e, legOf)
  BY <1>7
<1>16. /\ r.state = IF list = <<>> THEN "refused" ELSE "ringing"
       /\ r.strategy = how /\ r.free = free /\ r.pending = SubSeq(list, n + 1, Len(list))
  <2>. HIDE DEF n
  <2>1. QED
    OBVIOUS
<1>. HIDE DEF n, E, r, others
<1>17. /\ dial' \in [DialIds -> DialRecords]
       /\ dial'[d] = r
       /\ \A c \in DialIds \ {d} : dial'[c] = dial[c]
  BY <1>1, <1>9, OneDial DEF DyInv
<1>18. PICK legs \in SUBSET NewLegs : \E rings \in [legs -> E] :
         /\ IsInjective(rings)
         /\ E # {} => legs # {}
         /\ Joins(legs, rings, d)
  BY <1>1, AttemptRings
<1>19. PICK rings \in [legs -> E] :
         /\ IsInjective(rings)
         /\ E # {} => legs # {}
         /\ Joins(legs, rings, d)
  BY <1>18
<1>20. NoLegOf(d)
  <2>1. dial[d].state = "none" /\ d # 0
    BY <1>2 DEF NoDial, DirectoryAssumption
  <2>2. QED
    BY <2>1 DEF DyInv, DialsInv, DialsOfLegs, NoLegOf
<1>21. LegsInv' /\ legOf' \in [LegIds -> LegRecords]
  <2>1. E \in SUBSET Endpoints
    BY <1>3, <1>7
  <2>2. GivenFree(E, d)
    BY <1>15, <1>16, <1>17 DEF GivenFree
  <2>3. OthersWant(d)
    BY <1>2, <1>17 DEF OthersWant
  <2>4. QED
    BY <1>19, <1>20, <2>1, <2>2, <2>3, RingsFreePhones
<1>22. DyTypeOK'
  <2>1. dyFlaws' \subseteq DyFlaws /\ UNCHANGED <<at, bound>>
    BY <1>2 DEF DyInv, DyTypeOK
  <2>2. \A c \in DialIds : \/ dial'[c].pending = dial[c].pending
                           \/ Len(dial'[c].pending) =< Cardinality(Endpoints)
    BY <1>8, <1>16, <1>17
  <2>3. QED
    BY <1>17, <1>21, <2>1, <2>2, DyTypes DEF DyInv
<1>23. CASE list # <<>>
  <2>1. legs # {}
    BY <1>12, <1>19, <1>23
  <2>2. dial'[d].state = "ringing"
    BY <1>16, <1>17, <1>23
  <2>3. dial'[d].pending # <<>> => dial'[d].strategy = "sequential"
    BY <1>10, <1>11, <1>16, <1>17
  <2>4. dial'[d].strategy = "sequential" => \A k, l \in legs : k = l
    <3>1. \A k, l \in legs : rings[k] \in E /\ rings[l] \in E
      OBVIOUS
    <3>2. QED
      BY <1>14, <1>16, <1>17, <1>19, <3>1 DEF IsInjective
  <2>5. DialsInv'
    BY <1>17, <1>19, <1>20, <2>1, <2>2, <2>3, <2>4, OneDialRings
  <2>6. QED
    BY <1>21, <1>22, <2>5 DEF DyInv
<1>24. CASE list = <<>>
  <2>1. legs = {}
    BY <1>13, <1>19, <1>24
  <2>2. \A l \in LegIds : legOf'[l] = legOf[l]
    BY <1>19, <2>1 DEF Joins
  <2>3. /\ dial'[d].pending = <<>> /\ dial'[d].state = "refused"
    BY <1>10, <1>13, <1>16, <1>17, <1>24
  <2>4. LegsStayWith({d})
    BY <2>2 DEF LegsStayWith
  <2>5. GoOnBut({d})
    <3>1. \A c \in DialIds : dial[c].state = "ringing" => \E l \in LegIds : legOf'[l].dial = c
      BY <2>2 DEF DyInv, DialsInv, GoesOn
    <3>2. QED
      BY <1>17, <3>1 DEF GoOnBut
  <2>6. DialsOfLegs' /\ LaterIsSequential' /\ GoesOn' /\ OneLeg'
    <3>1. DialsOfLegs'
      <4>. SUFFICES ASSUME NEW l \in LegIds, legOf'[l].dial # 0
                    PROVE  dial'[legOf'[l].dial].state =
                             IF legOf'[l].state = "answered" THEN "answered" ELSE "ringing"
        BY DEF DialsOfLegs
      <4>1. legOf[l].dial \in DialIds \ {d} /\ legOf'[l] = legOf[l]
        BY <1>20, <2>2 DEF DyInv, DyTypeOK, NoLeg, NoLegOf
      <4>2. dial'[legOf'[l].dial] = dial[legOf[l].dial]
        BY <1>17, <4>1
      <4>3. QED
        BY <4>1, <4>2 DEF DyInv, DialsInv, DialsOfLegs
    <3>2. LaterIsSequential'
      BY <1>17, <2>3 DEF DyInv, DialsInv, LaterIsSequential
    <3>3. GoesOn'
      <4>. SUFFICES ASSUME NEW c \in DialIds
                    PROVE  /\ dial'[c].state = "gap" => \A l \in LegIds : legOf'[l].dial # c
                           /\ dial'[c].state = "ringing" => \E l \in LegIds : legOf'[l].dial = c
                           /\ dial'[c].state = "failed" => dial'[c].pending = <<>>
        BY DEF GoesOn
      <4>1. CASE c = d
        BY <2>3, <4>1
      <4>2. CASE c # d
        <5>1. dial'[c] = dial[c]
          BY <1>17, <4>2
        <5>2. /\ dial[c].state = "gap" => \A l \in LegIds : legOf[l].dial # c
              /\ dial[c].state = "failed" => dial[c].pending = <<>>
          BY DEF DyInv, DialsInv, GoesOn
        <5>3. dial[c].state = "ringing" => \E l \in LegIds : legOf'[l].dial = c
          BY <2>5, <4>2 DEF GoOnBut
        <5>4. QED
          BY <2>2, <5>1, <5>2, <5>3
      <4>3. QED
        BY <4>1, <4>2
    <3>4. OneLeg'
      BY <1>17, <1>20, <2>2 DEF DyInv, DialsInv, OneLeg, NoLegOf
    <3>5. QED
      BY <3>1, <3>2, <3>3, <3>4
  <2>7. QED
    BY <1>21, <1>22, <2>6 DEF DyInv, DialsInv
<1>25. QED
  BY <1>23, <1>24

LEMMA NextAttemptStep ==
    ASSUME DirectoryAssumption, DyInv, NEW d \in DialIds, NextAttempt(d)
    PROVE  DyInv'
<1> DEFINE e == Head(dial[d].pending)
           r == [dial[d] EXCEPT !.state = "ringing", !.pending = Tail(@)]
<1>1. /\ dial[d].state = "gap"
      /\ Attempt({e}, d)
      /\ dyFlaws' = dyFlaws \cup Surprise(d, e, legOf)
      /\ UNCHANGED <<at, bound>>
  BY DEF NextAttempt
<1>2. dial[d] \in DialRecords
  BY DEF DyInv, DyTypeOK, DialRecords
<1>3. dial' = [dial EXCEPT ![d] = r]
  BY DEF NextAttempt, DyInv, DyTypeOK
<1>4. /\ dial[d].pending \in Seq(Endpoints) /\ dial[d].pending # <<>>
      /\ dial[d].strategy = "sequential" /\ NoLegOf(d)
      /\ Len(dial[d].pending) =< Cardinality(Endpoints)
  BY <1>1, <1>2 DEF DialRecords, DyInv, DyTypeOK, DialsInv, LaterIsSequential, GoesOn, NoLegOf
<1>5. e \in Endpoints /\ Tail(dial[d].pending) \in Seq(Endpoints)
      /\ Len(Tail(dial[d].pending)) =< Cardinality(Endpoints)
  <2>1. Cardinality(Endpoints) \in Nat
    BY EndpointsAreFinite
  <2>2. QED
    BY <1>4, <2>1, HeadTailProperties
<1>6. /\ r.state = "ringing" /\ r.strategy = "sequential" /\ r.free = dial[d].free
      /\ r.pending = Tail(dial[d].pending)
  BY <1>2, <1>4 DEF DialRecords
<1>7. r \in DialRecords
  BY <1>2, <1>5 DEF DialRecords
<1>. HIDE DEF r, e
<1>8. /\ dial' \in [DialIds -> DialRecords]
      /\ dial'[d] = r
      /\ \A c \in DialIds \ {d} : dial'[c] = dial[c]
  BY <1>3, <1>7, OneDial DEF DyInv
<1>9. PICK legs \in SUBSET NewLegs : \E rings \in [legs -> {e}] :
         /\ IsInjective(rings)
         /\ {e} # {} => legs # {}
         /\ Joins(legs, rings, d)
  BY <1>1, AttemptRings
<1>10. PICK rings \in [legs -> {e}] :
         IsInjective(rings) /\ legs # {} /\ Joins(legs, rings, d)
  BY <1>9
<1>11. GivenFree({e}, d)
  BY <1>1, <1>6, <1>8 DEF GivenFree, Surprise
<1>12. OthersWant(d)
  BY <1>1, <1>8 DEF OthersWant
<1>13. LegsInv' /\ legOf' \in [LegIds -> LegRecords]
  BY <1>4, <1>5, <1>10, <1>11, <1>12, RingsFreePhones
<1>14. DialsInv'
  <2>1. \A k, l \in legs : k = l
    BY <1>10 DEF IsInjective
  <2>2. QED
    BY <1>4, <1>6, <1>8, <1>10, <2>1, OneDialRings
<1>15. DyTypeOK'
  <2>1. dyFlaws' \subseteq DyFlaws
    BY <1>1 DEF DyInv, DyTypeOK, DyFlaws, Surprise
  <2>2. \A c \in DialIds : \/ dial'[c].pending = dial[c].pending
                           \/ Len(dial'[c].pending) =< Cardinality(Endpoints)
    BY <1>5, <1>6, <1>8
  <2>3. QED
    BY <1>1, <1>8, <1>13, <2>1, <2>2, DyTypes DEF DyInv
<1>16. QED
  BY <1>13, <1>14, <1>15 DEF DyInv

\* finalizeDial keeps what the dial wanted, and nothing is left to ring.
LEMMA FinalizedDial ==
    ASSUME DyTypeOK, NEW d \in DialIds, NEW how \in {"failed", "answered"}, NEW g, NEW rest,
           Finalized(d, how, g, rest)
    PROVE  /\ dial' \in [DialIds -> DialRecords]
           /\ \A c \in DialIds \ {d} : dial'[c] = dial[c]
           /\ dial'[d].state = how /\ dial'[d].strategy = "parallel"
           /\ dial'[d].free = dial[d].free /\ dial'[d].pending = <<>>
<1> DEFINE r == [NoDial EXCEPT !.state = how, !.free = dial[d].free]
<1>1. dial[d].free \in BOOLEAN
  BY DEF DyTypeOK
<1>2. NoDial \in DialRecords /\ NoDial.strategy = "parallel" /\ NoDial.pending = <<>>
  BY DEF NoDial, DialRecords
<1>3. r \in DialRecords
  BY <1>1, <1>2 DEF DialRecords
<1>4. dial' = [dial EXCEPT ![d] = r]
  BY DEF Finalized
<1>5. r.state = how /\ r.strategy = "parallel" /\ r.free = dial[d].free /\ r.pending = <<>>
  BY <1>2 DEF DialRecords
<1>. HIDE DEF r
<1>6. QED
  BY <1>3, <1>4, <1>5, OneDial

\* No dial of the others loses a leg.
LEMMA OthersKeepLegs ==
    ASSUME DirectoryAssumption, DyInv, NEW d,
           \A l \in LegIds : legOf[l].dial # d => legOf'[l] = legOf[l]
    PROVE  \A c \in DialIds \ {d} :
              dial[c].state = "ringing" => \E l \in LegIds : legOf'[l].dial = c
<1>. SUFFICES ASSUME NEW c \in DialIds \ {d}, dial[c].state = "ringing"
              PROVE  \E l \in LegIds : legOf'[l].dial = c
  OBVIOUS
<1>1. PICK l \in LegIds : legOf[l].dial = c
  BY DEF DyInv, DialsInv, GoesOn
<1>2. QED
  BY <1>1

LEMMA AttemptFailsStep ==
    ASSUME DirectoryAssumption, DyInv, NEW d \in DialIds, NEW l \in LegIds, AttemptFails(d, l)
    PROVE  DyInv'
<1> DEFINE g == [legOf EXCEPT ![l] = NoLeg]
<1>1. /\ legOf[l].dial = d /\ legOf[l].state = "trying" /\ dial[d].state = "ringing"
      /\ UNCHANGED <<at, bound, dyFlaws>>
  BY DEF AttemptFails
<1>2. legOf \in [LegIds -> LegRecords] /\ dial \in [DialIds -> DialRecords] /\ dyFlaws \subseteq DyFlaws
  BY DEF DyInv, DyTypeOK, LegRecords, DialRecords
<1>3. /\ g \in [LegIds -> LegRecords] /\ g[l] = NoLeg
      /\ \A k \in LegIds \ {l} : g[k] = legOf[k]
  BY <1>2 DEF LegRecords
<1>4. NoLeg.dial = 0 /\ d # 0
  BY DEF NoLeg, DirectoryAssumption
<1>. HIDE DEF g
<1>5. CASE dial[d].pending # <<>> /\ legOf' = g /\ dial' = [dial EXCEPT ![d].state = "gap"]
  <2> DEFINE r == [dial[d] EXCEPT !.state = "gap"]
  <2>1. /\ r \in DialRecords /\ r.state = "gap" /\ r.strategy = dial[d].strategy
        /\ r.free = dial[d].free /\ r.pending = dial[d].pending
    BY <1>2 DEF DialRecords
  <2>2. dial' = [dial EXCEPT ![d] = r]
    BY <1>2, <1>5
  <2>. HIDE DEF r
  <2>3. /\ dial' \in [DialIds -> DialRecords]
        /\ dial'[d] = r
        /\ \A c \in DialIds \ {d} : dial'[c] = dial[c]
    BY <2>1, <2>2, OneDial DEF DyInv
  <2>4. dial[d].strategy = "sequential"
    BY <1>5 DEF DyInv, DialsInv, LaterIsSequential
  <2>5. \A k \in LegIds : legOf'[k].dial # d
    BY <1>1, <1>3, <1>4, <1>5, <2>4 DEF DyInv, DialsInv, OneLeg
  <2>6. \A k \in LegIds : legOf[k].dial # d => legOf'[k] = legOf[k]
    BY <1>1, <1>3, <1>5
  <2>7. DialsInv'
    <3>1. LegsStayWith({d})
      BY <1>3, <1>4, <1>5 DEF LegsStayWith
    <3>2. GoOnBut({d})
      BY <2>3, <2>6, OthersKeepLegs DEF GoOnBut
    <3>3. /\ \A k \in LegIds : legOf'[k].dial # d
          /\ dial'[d].pending # <<>> /\ dial'[d].strategy = "sequential" /\ dial'[d].state = "gap"
      BY <1>5, <2>1, <2>3, <2>4, <2>5
    <3>4. StopRinging({d})
      BY <2>4, <3>3 DEF StopRinging
    <3>5. QED
      BY <3>1, <3>2, <3>4, DialsKept
  <2>8. LegsInv'
    <3>1. \A c \in DialIds : dial'[c].free = dial[c].free
      BY <2>1, <2>3
    <3>2. \A k \in LegIds : legOf'[k] = NoLeg \/ legOf'[k] = legOf[k]
      BY <1>3, <1>5
    <3>3. QED
      BY <1>1, <3>1, <3>2, FewerLegs
  <2>9. DyTypeOK'
    <3>1. \A c \in DialIds : dial'[c].pending = dial[c].pending
      BY <2>1, <2>3
    <3>2. QED
      BY <1>1, <1>2, <1>3, <1>5, <2>3, <3>1, DyTypes DEF DyInv
  <2>10. QED
    BY <2>7, <2>8, <2>9 DEF DyInv
<1>6. CASE legOf' = g /\ UNCHANGED dial /\ \E k \in LegIds : g[k].dial = d /\ InCall(g, k)
  <2>1. \A k \in LegIds : legOf[k].dial # d => legOf'[k] = legOf[k]
    BY <1>1, <1>3, <1>6
  <2>2. \A c \in DialIds : dial[c].state = "ringing" => \E k \in LegIds : legOf'[k].dial = c
    BY <1>6, <2>1, OthersKeepLegs
  <2>3. DialsInv'
    <3>1. LegsStayWith({})
      BY <1>3, <1>4, <1>6 DEF LegsStayWith
    <3>2. GoOnBut({}) /\ StopRinging({})
      BY <1>6, <2>2 DEF GoOnBut, StopRinging
    <3>3. QED
      BY <3>1, <3>2, DialsKept
  <2>4. LegsInv'
    <3>1. \A k \in LegIds : legOf'[k] = NoLeg \/ legOf'[k] = legOf[k]
      BY <1>3, <1>6
    <3>2. QED
      BY <1>1, <1>6, <3>1, FewerLegs
  <2>5. DyTypeOK'
    BY <1>1, <1>2, <1>3, <1>6, DyTypes DEF DyInv
  <2>6. QED
    BY <2>3, <2>4, <2>5 DEF DyInv
<1>7. CASE Finalized(d, "failed", g, {})
  <2>1. /\ dial' \in [DialIds -> DialRecords]
        /\ \A c \in DialIds \ {d} : dial'[c] = dial[c]
        /\ dial'[d].state = "failed" /\ dial'[d].strategy = "parallel"
        /\ dial'[d].free = dial[d].free /\ dial'[d].pending = <<>>
    BY <1>7, FinalizedDial DEF DyInv
  <2>2. legOf' = [k \in LegIds |-> IF g[k].dial = d THEN NoLeg ELSE g[k]]
    BY <1>7 DEF Finalized
  <2>3. \A k \in LegIds : /\ legOf[k].dial = d => legOf'[k] = NoLeg
                          /\ legOf[k].dial # d => legOf'[k] = legOf[k]
    BY <1>1, <1>3, <1>4, <2>2
  <2>4. legOf' \in [LegIds -> LegRecords]
    BY <1>3, <2>2 DEF LegRecords
  <2>5. DialsInv'
    <3>1. LegsStayWith({d})
      BY <1>4, <2>3 DEF LegsStayWith
    <3>2. GoOnBut({d})
      BY <2>1, <2>3, OthersKeepLegs DEF GoOnBut
    <3>3. \A k \in LegIds : legOf'[k].dial # d
      BY <1>4, <2>3
    <3>4. StopRinging({d})
      BY <2>1, <3>3 DEF StopRinging
    <3>5. QED
      BY <3>1, <3>2, <3>4, DialsKept
  <2>6. LegsInv'
    <3>1. \A c \in DialIds : dial'[c].free = dial[c].free
      BY <2>1
    <3>2. \A k \in LegIds : legOf'[k] = NoLeg \/ legOf'[k] = legOf[k]
      BY <2>3
    <3>3. QED
      BY <1>1, <3>1, <3>2, FewerLegs
  <2>7. DyTypeOK'
    <3>1. \A c \in DialIds : dial'[c].pending = dial[c].pending \/ Len(dial'[c].pending) =< Cardinality(Endpoints)
      <4>1. Len(<<>>) =< Cardinality(Endpoints)
        BY EndpointsAreFinite
      <4>2. QED
        BY <2>1, <4>1
    <3>2. QED
      BY <1>1, <1>2, <2>1, <2>4, <3>1, DyTypes DEF DyInv
  <2>8. QED
    BY <2>5, <2>6, <2>7 DEF DyInv
<1>8. QED
  BY <1>5, <1>6, <1>7 DEF AttemptFails, g

LEMMA AttemptAnsweredStep ==
    ASSUME DirectoryAssumption, DyInv, NEW d \in DialIds, NEW l \in LegIds, AttemptAnswered(d, l)
    PROVE  DyInv'
<1> DEFINE g == [legOf EXCEPT ![l].state = "answered"]
<1>1. /\ legOf[l].dial = d /\ legOf[l].state = "trying" /\ dial[d].state = "ringing"
      /\ UNCHANGED <<at, bound, dyFlaws>>
      /\ Finalized(d, "answered", g, {l})
  BY DEF AttemptAnswered
<1>2. legOf \in [LegIds -> LegRecords] /\ dyFlaws \subseteq DyFlaws
  BY DEF DyInv, DyTypeOK, LegRecords
<1>3. d # 0
  BY DEF DirectoryAssumption
<1> DEFINE r == [legOf[l] EXCEPT !.state = "answered"]
<1>4. /\ r \in LegRecords /\ r.state = "answered"
      /\ r.phone = legOf[l].phone /\ r.marker = legOf[l].marker /\ r.dial = d
  <2>1. legOf[l] # NoLeg /\ legOf[l] \in LegRecords
    BY <1>1, <1>2, <1>3 DEF NoLeg
  <2>2. QED
    BY <1>1, <2>1 DEF LegRecords
<1>5. g = [legOf EXCEPT ![l] = r]
  BY <1>2
<1>. HIDE DEF r
<1>6. /\ g[l] = r
      /\ \A k \in LegIds \ {l} : g[k] = legOf[k]
  BY <1>2, <1>5
<1>7. legOf' = [k \in LegIds |-> IF g[k].dial = d /\ k \notin {l} THEN NoLeg ELSE g[k]]
  BY <1>1 DEF Finalized
<1>8. /\ dial' \in [DialIds -> DialRecords]
      /\ \A c \in DialIds \ {d} : dial'[c] = dial[c]
      /\ dial'[d].state = "answered" /\ dial'[d].strategy = "parallel"
      /\ dial'[d].free = dial[d].free /\ dial'[d].pending = <<>>
  BY <1>1, FinalizedDial DEF DyInv
<1>. HIDE DEF g
<1>9. /\ legOf'[l] = r
      /\ \A k \in LegIds \ {l} : /\ legOf[k].dial = d => legOf'[k] = NoLeg
                                 /\ legOf[k].dial # d => legOf'[k] = legOf[k]
  BY <1>6, <1>7
<1>10. legOf' \in [LegIds -> LegRecords]
  <2>1. \A k \in LegIds : legOf'[k] \in LegRecords
    <3>1. NoLeg \in LegRecords
      BY DEF LegRecords
    <3>2. QED
      BY <1>2, <1>4, <1>9, <3>1
  <2>2. legOf' = [k \in LegIds |-> legOf'[k]]
    BY <1>7
  <2>3. QED
    BY <2>1, <2>2
<1>11. DialsInv'
  <2>1. NoLeg.dial = 0
    BY DEF NoLeg
  <2>2. LegsStayWith({d})
    BY <1>1, <1>4, <1>9, <2>1 DEF LegsStayWith
  <2>3. \A k \in LegIds : legOf[k].dial # d => legOf'[k] = legOf[k]
    BY <1>1, <1>9
  <2>4. GoOnBut({d})
    BY <1>8, <2>3, OthersKeepLegs DEF GoOnBut
  <2>5. \A k \in LegIds : legOf'[k].dial = d => legOf'[k].state = "answered"
    BY <1>3, <1>4, <1>9, <2>1
  <2>6. StopRinging({d})
    BY <1>8, <2>5 DEF StopRinging
  <2>7. QED
    BY <2>2, <2>4, <2>6, DialsKept
<1>12. LegsInv'
  <2>1. \A c \in DialIds : dial'[c].free = dial[c].free
    BY <1>8
  <2>2. InCall(legOf', l)
    BY <1>4, <1>9 DEF InCall
  <2>3. \A k \in LegIds :
          \/ legOf'[k] = NoLeg
          \/ legOf'[k] = legOf[k]
          \/ /\ InCall(legOf', k)
             /\ legOf'[k].phone = legOf[k].phone
             /\ legOf'[k].marker = legOf[k].marker
             /\ legOf'[k].dial = legOf[k].dial
    BY <1>1, <1>4, <1>9, <2>2
  <2>4. QED
    BY <1>1, <2>1, <2>3, FewerLegs
<1>13. DyTypeOK'
  <2>1. \A c \in DialIds : \/ dial'[c].pending = dial[c].pending
                           \/ Len(dial'[c].pending) =< Cardinality(Endpoints)
    <3>1. Len(<<>>) =< Cardinality(Endpoints)
      BY EndpointsAreFinite
    <3>2. QED
      BY <1>8, <3>1
  <2>2. QED
    BY <1>1, <1>2, <1>8, <1>10, <2>1, DyTypes DEF DyInv
<1>14. QED
  BY <1>11, <1>12, <1>13 DEF DyInv

LEMMA CallEndsStep ==
    ASSUME DirectoryAssumption, DyInv, NEW l \in LegIds, CallEnds(l)
    PROVE  DyInv'
<1>1. /\ legOf[l].dial = 0 \/ legOf[l].state = "answered"
      /\ legOf' = [legOf EXCEPT ![l] = NoLeg]
      /\ UNCHANGED <<at, bound, dial, dyFlaws>>
  BY DEF CallEnds
<1>2. /\ legOf \in [LegIds -> LegRecords] /\ NoLeg \in LegRecords
      /\ dial \in [DialIds -> DialRecords] /\ dyFlaws \subseteq DyFlaws
  BY DEF DyInv, DyTypeOK, LegRecords, DialRecords
<1>3. /\ legOf' \in [LegIds -> LegRecords] /\ legOf'[l] = NoLeg
      /\ \A k \in LegIds \ {l} : legOf'[k] = legOf[k]
  BY <1>1, <1>2
<1>4. DialsInv'
  <2>1. LegsStayWith({})
    <3>1. NoLeg.dial = 0
      BY DEF NoLeg
    <3>2. QED
      BY <1>3, <3>1 DEF LegsStayWith
  <2>2. ASSUME NEW c \in DialIds, dial[c].state = "ringing"
        PROVE  \E k \in LegIds : legOf'[k].dial = c
    <3>1. PICK k \in LegIds : legOf[k].dial = c
      BY <2>2 DEF DyInv, DialsInv, GoesOn
    <3>2. k # l
      <4>. SUFFICES ASSUME k = l PROVE FALSE
        OBVIOUS
      <4>1. c # 0
        BY DEF DirectoryAssumption
      <4>2. legOf[l].dial = c /\ legOf[l].state = "answered"
        BY <1>1, <3>1, <4>1
      <4>3. dial[c].state = "answered"
        BY <4>1, <4>2 DEF DyInv, DialsInv, DialsOfLegs
      <4>4. QED
        BY <2>2, <4>3
    <3>3. QED
      BY <1>3, <3>1, <3>2
  <2>3. GoOnBut({}) /\ StopRinging({})
    BY <1>1, <2>2 DEF GoOnBut, StopRinging
  <2>4. QED
    BY <2>1, <2>3, DialsKept
<1>5. LegsInv'
  <2>1. \A k \in LegIds : legOf'[k] = NoLeg \/ legOf'[k] = legOf[k]
    BY <1>3
  <2>2. QED
    BY <1>1, <2>1, FewerLegs
<1>6. DyTypeOK'
  BY <1>1, <1>2, <1>3, DyTypes DEF DyInv
<1>7. QED
  BY <1>4, <1>5, <1>6 DEF DyInv

LEMMA DyStepHolds == DirectoryAssumption /\ DyInv /\ [DyNext]_dyVars => DyInv'
<1>. SUFFICES ASSUME DirectoryAssumption, DyInv, [DyNext]_dyVars
              PROVE  DyInv'
  OBVIOUS
<1>1. ASSUME NEW p \in Phones, Registers(p)
      PROVE  DyInv'
  BY <1>1, RegistersStep
<1>2. ASSUME NEW p \in Phones, Moves(p)
      PROVE  DyInv'
  BY <1>2, MovesStep
<1>3. ASSUME NEW e \in bound, BindingGoes(e)
      PROVE  DyInv'
  BY <1>3, BindingGoesStep
<1>4. ASSUME NEW p \in Phones, NEW c \in BOOLEAN, NEW s \in BOOLEAN, PhoneCalls(p, c, s)
      PROVE  DyInv'
  BY <1>4, PhoneCallsStep
<1>5. ASSUME NEW d \in DialIds, NEW how \in {"parallel", "sequential"}, NEW free \in BOOLEAN,
             MakesDial(d, how, free)
      PROVE  DyInv'
  BY <1>5, MakesDialStep
<1>6. ASSUME NEW d \in DialIds, NextAttempt(d)
      PROVE  DyInv'
  BY <1>6, NextAttemptStep
<1>7. ASSUME NEW d \in DialIds, NEW l \in LegIds, AttemptFails(d, l)
      PROVE  DyInv'
  BY <1>7, AttemptFailsStep
<1>8. ASSUME NEW d \in DialIds, NEW l \in LegIds, AttemptAnswered(d, l)
      PROVE  DyInv'
  BY <1>8, AttemptAnsweredStep
<1>9. ASSUME NEW l \in LegIds, CallEnds(l)
      PROVE  DyInv'
  BY <1>9, CallEndsStep
<1>10. CASE UNCHANGED dyVars
  <2>1. DyTypeOK'
    BY <1>10 DEF DyInv, DyTypeOK, dyVars
  <2>2. LegsInv'
    BY <1>10 DEF DyInv, LegsInv, RingsTheTarget, NobodysLegs, MarkersAreTrue, NoneTwice,
                 OfFreeDial, InCall, dyVars
  <2>3. DialsInv'
    BY <1>10 DEF DyInv, DialsInv, DialsOfLegs, LaterIsSequential, GoesOn, OneLeg, dyVars
  <2>4. QED
    BY <2>1, <2>2, <2>3 DEF DyInv
<1>11. QED
  BY <1>1, <1>2, <1>3, <1>4, <1>5, <1>6, <1>7, <1>8, <1>9, <1>10 DEF DyNext

\* Whatever phones register, move, call and expire, and whatever dials ring
\* them: a phone that a dial wanted free is not rung during another call,
\* unless the listing could not know of it; an attempt reaches its phone or
\* nobody; and a sequential dial rings one target at a time until none is left.
THEOREM DirectoryIsSafe == DySpec => []DirectorySafe
<1>1. DyInit => DyInv
  BY DirectoryAssumption, DyInitHolds
<1>2. DyInv /\ [DyNext]_dyVars => DyInv'
  BY DirectoryAssumption, DyStepHolds
<1>3. DyInv => DirectorySafe
  BY DirectoryAssumption, DirectoryIsPromised
<1>4. QED
  BY <1>1, <1>2, <1>3, PTL DEF DySpec

-----------------------------------------------------------------------------
(* What dial.wait hears, for any dials, any waits and any number of events. *)
(*                                                                          *)
(* A wait has a listener on each dial it waits for, and none on another, so *)
(* that the end of a dial reaches it; and no event that it would take was   *)
(* queued before, since it looked into the queues as it began and an event  *)
(* is queued only if no listener wants it.                                  *)

Events == {"rejected"} \cup Ends
AskRecords == [on : Seq(Dials), rejections : BOOLEAN, stops : BOOLEAN]
ResultRecords ==
    [how : {"none", "event", "snapshot", "dial_finalized", "invalid", "interrupted", "timeout", "cancelled"},
     dial : Dials \cup {"none"}, event : Nat]
WaitRecords ==
    [st : {"new", "waiting", "over"}, ask : AskRecords, turn : Nat, got : ResultRecords]

DwTypes ==
    /\ dials \in [Dials -> {"dialing", "half", "over"}]
    /\ snapshot \in [Dials -> {"none"} \cup Ends]
    /\ said \in [Dials -> Seq(Events)]
    /\ mail \in [Dials -> SUBSET Nat]
    /\ ears \in [Dials -> SUBSET Waiters]
    /\ wait \in [Waiters -> WaitRecords]
    /\ typed \in BOOLEAN
    /\ dropped \subseteq Dials \X Nat

\* The events that are queued, were lost or were returned are events that the
\* dial published, and it published no more than it may.
EventsWereSaid ==
    /\ \A d \in Dials :
          /\ mail[d] \subseteq 1 .. Len(said[d])
          /\ Len(said[d]) =< MaxNews[d] + 2
          /\ dials[d] # "over" => Len(said[d]) =< MaxNews[d]
    /\ \A d \in Dials, n \in Nat : <<d, n>> \in dropped => n \in 1 .. Len(said[d])
    /\ \A w \in Waiters, d \in Dials : Heard(w, d) => wait[w].got.event \in 1 .. Len(said[d])

Began == {w \in Waiters : wait[w].st # "new"}
Waits(w) == wait[w].st = "waiting"

\* No two waits have one turn, and the next turn is free.
TurnsDiffer ==
    /\ \A v, w \in Waiters : Waits(v) /\ Waits(w) /\ wait[v].turn = wait[w].turn => v = w
    /\ \A w \in Waiters : Waits(w) => wait[w].turn =< Cardinality(Began)

\* What is not over has returned nothing.
NothingYet == \A w \in Waiters : wait[w].st # "over" => wait[w].got.how = "none"

\* Snapshots are of dials that are over, and so are those that were returned.
SnapshotsAreOfTheDead ==
    /\ \A d \in Dials : snapshot[d] # "none" => dials[d] = "over" /\ said[d] # <<>>
    /\ \A w \in Waiters, d \in Dials :
          wait[w].got.how = "snapshot" /\ wait[w].got.dial = d => dials[d] = "over" /\ said[d] # <<>>

HearsOf(d, n) == {w \in Waiters : Heard(w, d) /\ wait[w].got.event = n}

\* An event of a dial that goes on is in one place.
KeptOnce ==
    \A d \in Dials : dials[d] # "over" =>
        \A n \in 1 .. Len(said[d]) :
            \/ n \in mail[d] /\ <<d, n>> \notin dropped /\ HearsOf(d, n) = {}
            \/ n \notin mail[d] /\ <<d, n>> \in dropped /\ HearsOf(d, n) = {}
            \/ n \notin mail[d] /\ <<d, n>> \notin dropped /\ \E w \in Waiters : HearsOf(d, n) = {w}

DwInv ==
    /\ DwTypes /\ EventsWereSaid /\ TurnsDiffer /\ NothingYet /\ SnapshotsAreOfTheDead
    /\ WaitsForTheLiving /\ NothingPassesBy /\ KeptOnce /\ TurnedAwayByAnother

\* What was learnt is an end that the dial published.
LEMMA LearntIsSaid ==
    ASSUME DwTypes, EventsWereSaid, SnapshotsAreOfTheDead, NEW w \in Waiters, NEW d \in Dials,
           Learnt(w, d) # {}
    PROVE  \E e \in Ends : e \in ToSet(said[d]) /\ Learnt(w, d) = {e}
<1>1. said[d] \in Seq(Events)
  BY DEF DwTypes
<1>2. CASE Heard(w, d)
  <2>1. wait[w].got.event \in DOMAIN said[d]
    BY <1>1, <1>2 DEF EventsWereSaid
  <2>2. Learnt(w, d) = {said[d][wait[w].got.event]} \cap Ends
    BY <1>2 DEF Learnt
  <2>3. QED
    BY <2>1, <2>2 DEF ToSet
<1>3. CASE ~Heard(w, d)
  <2>1. wait[w].got.how = "snapshot" /\ wait[w].got.dial = d
    BY <1>3 DEF Learnt
  <2>2. Learnt(w, d) = Ends \cap {Last(said[d])}
    BY <1>3, <2>1 DEF Learnt, Ends
  <2>3. said[d] # <<>>
    BY <2>1 DEF SnapshotsAreOfTheDead
  <2>4. Len(said[d]) \in DOMAIN said[d]
    BY <1>1, <2>3
  <2>5. QED
    BY <2>2, <2>4 DEF ToSet, Last
<1>4. QED
  BY <1>2, <1>3

\* What the inductive invariant says is what dial.wait promises.
LEMMA DialWaitsPromised == DialWaitsAssumption /\ DwInv => DialWaitsSafe
<1>. SUFFICES ASSUME DialWaitsAssumption, DwInv
              PROVE  DwTypeOK /\ EventsAreKept /\ EndsAgree
  BY DEF DwInv, DialWaitsSafe
<1>1. DwTypeOK
  <2>1. \A d \in Dials : said[d] \in Seq(Events)
    BY DEF DwInv, DwTypes
  <2>2. \A d \in Dials : mail[d] \subseteq DOMAIN said[d] /\ ears[d] \subseteq Waiters
    BY <2>1 DEF DwInv, DwTypes, EventsWereSaid
  <2>3. \A e \in dropped : e[2] \in DOMAIN said[e[1]]
    BY <2>1 DEF DwInv, DwTypes, EventsWereSaid
  <2>4. \A w \in Waiters : wait[w].st \in {"new", "waiting", "over"}
    BY DEF DwInv, DwTypes, WaitRecords
  <2>5. QED
    BY <2>2, <2>3, <2>4 DEF DwTypeOK, DwInv, DwTypes, EventsWereSaid
<1>2. EventsAreKept
  <2>. SUFFICES ASSUME NEW d \in Dials, dials[d] # "over", NEW n \in DOMAIN said[d]
                PROVE  Cardinality(HearsOf(d, n)) + (IF n \in mail[d] THEN 1 ELSE 0)
                       + (IF <<d, n>> \in dropped THEN 1 ELSE 0) = 1
    BY DEF EventsAreKept, HearsOf
  <2>1. n \in 1 .. Len(said[d])
    BY DEF DwInv, DwTypes
  <2>2. Cardinality({}) = 0 /\ \A w \in Waiters : Cardinality({w}) = 1
    BY FS_EmptySet, FS_Singleton
  <2>3. \/ n \in mail[d] /\ <<d, n>> \notin dropped /\ HearsOf(d, n) = {}
        \/ n \notin mail[d] /\ <<d, n>> \in dropped /\ HearsOf(d, n) = {}
        \/ n \notin mail[d] /\ <<d, n>> \notin dropped /\ \E w \in Waiters : HearsOf(d, n) = {w}
    BY <2>1 DEF DwInv, KeptOnce
  <2>4. QED
    BY <2>2, <2>3
<1>3. EndsAgree
  <2>. SUFFICES ASSUME NEW d \in Dials, ~ Ends \subseteq ToSet(said[d]),
                       NEW v \in Waiters, NEW w \in Waiters,
                       Learnt(v, d) # {}, Learnt(w, d) # {}
                PROVE  Learnt(v, d) = Learnt(w, d)
    BY DEF EndsAgree
  <2>1. PICK e \in Ends : e \in ToSet(said[d]) /\ Learnt(v, d) = {e}
    BY LearntIsSaid DEF DwInv
  <2>2. PICK f \in Ends : f \in ToSet(said[d]) /\ Learnt(w, d) = {f}
    BY LearntIsSaid DEF DwInv
  <2>3. e = f
    BY <2>1, <2>2 DEF Ends
  <2>4. QED
    BY <2>1, <2>2, <2>3
<1>4. QED
  BY <1>1, <1>2, <1>3

LEMMA DwInitHolds == DialWaitsAssumption /\ DwInit => DwInv
<1>. SUFFICES ASSUME DialWaitsAssumption, DwInit
              PROVE  DwInv
  OBVIOUS
<1>. USE DEF DwInit
<1> DEFINE r == [st |-> "new", ask |-> Silent, turn |-> 0, got |-> NoResult]
<1>1. /\ r.st = "new" /\ r.got.how = "none" /\ r \in WaitRecords
  BY DEF Silent, NoResult, Other, Result, WaitRecords, AskRecords, ResultRecords
<1>2. wait = [w \in Waiters |-> r]
  OBVIOUS
<1>. HIDE DEF r
<1>3. \A w \in Waiters : wait[w] = r
  BY <1>2
<1>4. DwTypes
  <2>1. wait \in [Waiters -> WaitRecords]
    BY <1>1, <1>2
  <2>2. said \in [Dials -> Seq(Events)]
    OBVIOUS
  <2>3. QED
    BY <2>1, <2>2 DEF DwTypes
<1>5. EventsWereSaid
  BY <1>1, <1>3 DEF EventsWereSaid, Heard, DialWaitsAssumption
<1>6. TurnsDiffer /\ NothingYet /\ NothingPassesBy /\ TurnedAwayByAnother
  BY <1>1, <1>3 DEF TurnsDiffer, Waits, NothingYet, NothingPassesBy, TurnedAwayByAnother
<1>7. SnapshotsAreOfTheDead
  BY <1>1, <1>3 DEF SnapshotsAreOfTheDead
<1>8. WaitsForTheLiving
  BY <1>1, <1>3 DEF WaitsForTheLiving
<1>9. KeptOnce
  BY DEF KeptOnce
<1>10. QED
  BY <1>4, <1>5, <1>6, <1>7, <1>8, <1>9 DEF DwInv

-----------------------------------------------------------------------------
(* What the steps of the waits are made of.                                 *)

LEMMA LeastExists ==
    ASSUME NEW S \in SUBSET Nat, S # {}
    PROVE  \E n \in S : \A m \in S : n =< m
<1>1. IsWellFoundedOn(OpToRel(<, Nat), Nat)
  BY NatLessThanWellFounded
<1>2. PICK n \in S : \A m \in S : <<m, n>> \notin OpToRel(<, Nat)
  BY <1>1, WFMin
<1>3. \A m \in S : ~(m < n)
  BY <1>2 DEF OpToRel
<1>4. QED
  BY <1>3

LEMMA MinIsLeast ==
    ASSUME NEW S \in SUBSET Nat, S # {}
    PROVE  Min(S) \in S
<1>1. \E n \in S : \A m \in S : n =< m
  BY LeastExists
<1>2. QED
  BY <1>1 DEF Min

\* An event is taken by one listener that wants it, unless none does.
LEMMA TakerLemma ==
    ASSUME DwTypes, TurnsDiffer, NEW E \in SUBSET Waiters, \A w \in E : Waits(w), NEW what
    PROVE  /\ Taker(E, what) \subseteq E
           /\ \A v, w \in Taker(E, what) : v = w
           /\ Taker(E, what) = {} => \A w \in E : ~Matches(wait[w].ask, what)
<1> DEFINE takers == {w \in E : Matches(wait[w].ask, what)}
           turns == {wait[w].turn : w \in takers}
<1>1. Taker(E, what) = {w \in takers : \A v \in takers : wait[w].turn =< wait[v].turn}
  BY DEF Taker
<1>2. \A w \in takers : w \in E /\ w \in Waiters /\ Waits(w) /\ wait[w].turn \in Nat
  BY DEF DwTypes, WaitRecords
<1>3. \A v, w \in Taker(E, what) : v = w
  BY <1>1, <1>2 DEF TurnsDiffer
<1>4. ASSUME takers # {}
      PROVE  Taker(E, what) # {}
  <2>1. turns \in SUBSET Nat /\ turns # {}
    BY <1>2, <1>4
  <2>2. PICK n \in turns : \A m \in turns : n =< m
    BY <2>1, LeastExists
  <2>3. PICK w \in takers : wait[w].turn = n
    OBVIOUS
  <2>4. \A v \in takers : wait[w].turn =< wait[v].turn
    BY <2>2, <2>3
  <2>5. QED
    BY <1>1, <2>4
<1>5. QED
  BY <1>1, <1>3, <1>4

\* The waits of S end, and no other is touched.
Ending(S) ==
    /\ S \subseteq Waiters
    /\ wait' \in [Waiters -> WaitRecords]
    /\ \A w \in S : Waits(w) /\ wait'[w].st = "over"
    /\ \A w \in Waiters \ S : wait'[w] = wait[w]
    /\ ears' = [d \in Dials |-> ears[d] \ S]

LEMMA SettleEnds ==
    ASSUME DwTypes, NEW S \in SUBSET Waiters, NEW got,
           \A w \in S : Waits(w) /\ got[w] \in ResultRecords, Settle(S, got)
    PROVE  Ending(S) /\ \A w \in S : wait'[w].got = got[w]
<1>1. wait' = [w \in Waiters |-> IF w \in S THEN Over(got[w]) ELSE wait[w]]
  BY DEF Settle
<1>2. \A w \in S : Over(got[w]) \in WaitRecords /\ Over(got[w]).st = "over" /\ Over(got[w]).got = got[w]
  BY DEF Over, WaitRecords, Silent, AskRecords
<1>3. \A w \in Waiters : wait[w] \in WaitRecords
  BY DEF DwTypes
<1>4. wait' \in [Waiters -> WaitRecords]
  BY <1>1, <1>2, <1>3
<1>5. \A w \in S : wait'[w] = Over(got[w])
  BY <1>1
<1>6. \A w \in Waiters \ S : wait'[w] = wait[w]
  BY <1>1
<1>7. ears' = [d \in Dials |-> ears[d] \ S]
  BY DEF Settle
<1>8. QED
  BY <1>2, <1>4, <1>5, <1>6, <1>7 DEF Ending

\* Dials end only with the listeners that they had.
EndsHeard(S) == \A d \in Dials : dials'[d] = "over" => dials[d] = "over" \/ ears[d] \subseteq S

LEMMA EndingKeeps ==
    ASSUME DwInv, NEW S, Ending(S), EndsHeard(S)
    PROVE  /\ WaitsForTheLiving' /\ TurnsDiffer'
           /\ ears' \in [Dials -> SUBSET Waiters]
           /\ \A w \in Waiters : wait'[w].st # "over" => w \notin S /\ wait[w].st # "over" /\ wait'[w] = wait[w]
           /\ \A w \in S : wait[w].got.how = "none" /\ \A d \in Dials : ~Heard(w, d) /\ Learnt(w, d) = {}
<1>1. \A w \in Waiters : Waits(w)' <=> Waits(w) /\ w \notin S
  BY DEF Ending, Waits
<1>2. \A w \in Waiters : w \notin S => wait'[w] = wait[w]
  BY DEF Ending
<1>3. WaitsForTheLiving'
  <2>. SUFFICES ASSUME NEW d \in Dials
                PROVE  /\ ears'[d] = {w \in Waiters : Waits(w)' /\ d \in ToSet(wait'[w].ask.on)}
                       /\ dials'[d] = "over" => ears'[d] = {}
    BY DEF WaitsForTheLiving, Waits
  <2>1. ears'[d] = ears[d] \ S
    BY DEF Ending
  <2>2. ears[d] = {w \in Waiters : Waits(w) /\ d \in ToSet(wait[w].ask.on)} /\ (dials[d] = "over" => ears[d] = {})
    BY DEF DwInv, WaitsForTheLiving, Waits
  <2>3. \A w \in Waiters : w \in ears'[d] <=> Waits(w)' /\ d \in ToSet(wait'[w].ask.on)
    BY <1>1, <1>2, <2>1, <2>2
  <2>4. ears'[d] \subseteq Waiters
    BY <2>1, <2>2
  <2>5. dials'[d] = "over" => ears'[d] = {}
    BY <2>1, <2>2 DEF EndsHeard
  <2>6. QED
    BY <2>3, <2>4, <2>5
<1>4. TurnsDiffer'
  <2>1. \A w \in Waiters : wait[w].st # "new" <=> wait'[w].st # "new"
    BY DEF Ending, Waits
  <2>2. Began' = Began
    BY <2>1 DEF Began
  <2>3. QED
    BY <1>1, <1>2, <2>2 DEF TurnsDiffer, DwInv
<1>5. ears' \in [Dials -> SUBSET Waiters]
  BY DEF Ending, DwInv, DwTypes
<1>6. \A w \in Waiters : wait'[w].st # "over" => w \notin S /\ wait'[w] = wait[w]
  BY DEF Ending
<1>7. \A w \in S : wait[w].got.how = "none"
  BY DEF Ending, DwInv, NothingYet, Waits
<1>8. \A w \in S, d \in Dials : ~Heard(w, d) /\ Learnt(w, d) = {}
  BY <1>7 DEF Heard, Learnt
<1>9. QED
  BY <1>3, <1>4, <1>5, <1>6, <1>7, <1>8

\* What a dial said stays as it is, and it says no more when it is over.
SaidGrows ==
    \A d \in Dials :
        /\ said'[d] \in Seq(Events) /\ Len(said[d]) =< Len(said'[d])
        /\ \A k \in 1 .. Len(said[d]) : said'[d][k] = said[d][k]
        /\ dials[d] = "over" => said'[d] = said[d]

LEMMA LearntStays ==
    ASSUME DwInv, SaidGrows, NEW w \in Waiters, NEW d \in Dials, wait'[w] = wait[w], Learnt(w, d) # {}
    PROVE  Learnt(w, d)' # {}
<1>1. Heard(w, d)' <=> Heard(w, d)
  BY DEF Heard
<1>2. CASE Heard(w, d)
  <2>1. wait[w].got.event \in 1 .. Len(said[d])
    BY <1>2 DEF DwInv, EventsWereSaid
  <2>2. said'[d][wait[w].got.event] = said[d][wait[w].got.event]
    BY <2>1 DEF SaidGrows
  <2>3. QED
    BY <1>1, <1>2, <2>2 DEF Learnt
<1>3. CASE ~Heard(w, d)
  <2>1. wait[w].got.how = "snapshot" /\ wait[w].got.dial = d
    BY <1>3 DEF Learnt
  <2>2. said'[d] = said[d]
    BY <2>1 DEF DwInv, SnapshotsAreOfTheDead, SaidGrows
  <2>3. QED
    BY <1>1, <1>3, <2>1, <2>2 DEF Learnt
<1>4. QED
  BY <1>2, <1>3

\* Who hears the second event, if there are two.
Second(d, es, one) == IF Len(es) = 2 THEN Taker(ears[d] \ one, es[2]) ELSE {}

\* A dial publishes es, and is over or goes on.
Announces(d, es, over) ==
    /\ dials[d] # "over" /\ es \in Seq(Events) /\ Len(es) \in {1, 2}
    /\ Len(said[d]) + Len(es) =< MaxNews[d] + (IF over THEN 2 ELSE 0)
    /\ dials' \in [Dials -> {"dialing", "half", "over"}]
    /\ \A c \in Dials : dials'[c] = "over" <=> dials[c] = "over" \/ (over /\ c = d)
    /\ snapshot' \in [Dials -> {"none"} \cup Ends]
    /\ \A c \in Dials : snapshot'[c] # "none" => snapshot[c] # "none" \/ (over /\ c = d)
    /\ typed' = typed /\ dropped' = dropped
    /\ PublishAll(d, es, over)

\* A dial publishes es: one hears the first event of it, two the second, and
\* who listens besides is rejected if the dial is over.
Publication(d, es, over, one, two) ==
    /\ Announces(d, es, over)
    /\ one = Taker(ears[d], es[1])
    /\ two = Second(d, es, one)
    /\ said' = [said EXCEPT ![d] = @ \o es]
    /\ mail' = [mail EXCEPT ![d] = IF over THEN {} ELSE @ \cup
                    {k \in Len(said[d]) + 1 .. Len(said[d]) + Len(es) :
                        /\ k = Len(said[d]) + 1 => one = {}
                        /\ k = Len(said[d]) + 2 => two = {}}]
    /\ Ending(IF over THEN ears[d] ELSE one \cup two)
    /\ \A w \in one : wait'[w].got = Result("event", d, Len(said[d]) + 1)
    /\ \A w \in two : wait'[w].got = Result("event", d, Len(said[d]) + 2)
    /\ over => \A w \in ears[d] \ (one \cup two) : wait'[w].got = Result("dial_finalized", d, 0)

\* Who listens to a dial waits for it.
LEMMA ListenersWait ==
    ASSUME DwInv, NEW d \in Dials
    PROVE  ears[d] \in SUBSET Waiters /\ \A w \in ears[d] : Waits(w)
BY DEF DwInv, WaitsForTheLiving, Waits

\* The takers of two events are one listener each, or nobody wants it.
Takes(d, es, one, two) ==
    /\ one \subseteq ears[d] /\ two \subseteq ears[d] \ one /\ (Len(es) # 2 => two = {})
    /\ \A v, w \in one : v = w
    /\ \A v, w \in two : v = w
    /\ one = {} => \A w \in ears[d] : ~Matches(wait[w].ask, es[1])
    /\ Len(es) = 2 /\ two = {} => \A w \in ears[d] \ one : ~Matches(wait[w].ask, es[2])

LEMMA TakersListen ==
    ASSUME DwInv, NEW d \in Dials, NEW es, NEW one, NEW two, one = Taker(ears[d], es[1]),
           two = Second(d, es, one)
    PROVE  Takes(d, es, one, two)
<1> DEFINE rest == ears[d] \ one
           second == Taker(rest, es[2])
<1>1. ears[d] \in SUBSET Waiters /\ \A w \in ears[d] : Waits(w)
  BY ListenersWait
<1>2. DwTypes /\ TurnsDiffer
  BY DEF DwInv
<1>3. /\ one \subseteq ears[d]
      /\ \A v, w \in one : v = w
      /\ one = {} => \A w \in ears[d] : ~Matches(wait[w].ask, es[1])
  BY <1>1, <1>2, TakerLemma
<1>4. rest \in SUBSET Waiters /\ \A w \in rest : Waits(w)
  BY <1>1
<1>. HIDE DEF rest
<1>5. /\ second \subseteq rest
      /\ \A v, w \in second : v = w
      /\ second = {} => \A w \in rest : ~Matches(wait[w].ask, es[2])
  BY <1>2, <1>4, TakerLemma
<1>6. two = IF Len(es) = 2 THEN second ELSE {}
  BY DEF rest, Second
<1>. HIDE DEF second
<1>7. QED
  BY <1>3, <1>5, <1>6 DEF rest, Takes

LEMMA Published ==
    ASSUME DwInv, NEW d \in Dials, NEW es, NEW over \in BOOLEAN, Announces(d, es, over)
    PROVE  \E one, two : Publication(d, es, over, one, two)
<1>1. PICK one, two : one = Taker(ears[d], es[1]) /\ two = Second(d, es, one)
  OBVIOUS
<1> DEFINE n == Len(said[d])
           got == [w \in ears[d] |-> CASE w \in one -> Result("event", d, n + 1)
                                       [] w \in two -> Result("event", d, n + 2)
                                       [] OTHER -> Result("dial_finalized", d, 0)]
           unheard == {k \in n + 1 .. n + Len(es) : \A w \in one \cup two : got[w].event # k}
           left == {k \in n + 1 .. n + Len(es) : (k = n + 1 => one = {}) /\ (k = n + 2 => two = {})}
           S == IF over THEN ears[d] ELSE one \cup two
<1>2. /\ said' = [said EXCEPT ![d] = @ \o es]
      /\ mail' = [mail EXCEPT ![d] = IF over THEN {} ELSE @ \cup unheard]
      /\ Settle(Settled(d, one \cup two, over), got)
  BY <1>1 DEF Announces, PublishAll, Second
<1>3. n \in Nat
  BY DEF DwInv, DwTypes
<1>. HIDE DEF n
<1>4. one \subseteq ears[d] /\ two \subseteq ears[d] \ one /\ (Len(es) # 2 => two = {})
  BY <1>1, TakersListen DEF Takes
<1>5. \A w \in ears[d] : /\ w \in one => got[w] = Result("event", d, n + 1)
                         /\ w \in two => got[w] = Result("event", d, n + 2)
                         /\ w \notin one \cup two => got[w] = Result("dial_finalized", d, 0)
  BY <1>4
<1>6. \A w \in ears[d] : got[w] \in ResultRecords
  BY <1>3 DEF Result, ResultRecords
<1>. HIDE DEF got
<1>7. \A w \in one : got[w].event = n + 1
  BY <1>4, <1>5 DEF Result
<1>8. \A w \in two : got[w].event = n + 2
  BY <1>4, <1>5 DEF Result
<1>9. unheard = left
  BY <1>3, <1>4, <1>7, <1>8 DEF Announces
<1>10. Settled(d, one \cup two, over) = S
  BY DEF Settled
<1>11. S \subseteq ears[d]
  BY <1>4
<1>. HIDE DEF S, unheard
<1>12. S \in SUBSET Waiters /\ \A w \in S : Waits(w) /\ got[w] \in ResultRecords
  BY <1>6, <1>11, ListenersWait
<1>13. Ending(S) /\ \A w \in S : wait'[w].got = got[w]
  BY <1>2, <1>10, <1>12, SettleEnds DEF DwInv
<1>14. mail' = [mail EXCEPT ![d] = IF over THEN {} ELSE @ \cup left]
  BY <1>2, <1>9
<1>15. /\ \A w \in one : wait'[w].got = Result("event", d, n + 1)
       /\ \A w \in two : wait'[w].got = Result("event", d, n + 2)
       /\ over => \A w \in ears[d] \ (one \cup two) : wait'[w].got = Result("dial_finalized", d, 0)
  BY <1>4, <1>5, <1>13 DEF S
<1>16. Publication(d, es, over, one, two)
  BY <1>1, <1>2, <1>13, <1>14, <1>15 DEF Publication, n, S
<1>17. QED
  BY <1>16

\* What the publication of es leaves in the dials and the queues.
Frame(d, es, one, two) ==
    /\ Len(said[d]) \in Nat /\ Len(es) \in {1, 2} /\ dials[d] # "over"
    /\ one \subseteq ears[d] /\ two \subseteq ears[d] \ one /\ (Len(es) = 1 => two = {})
    /\ \A c \in Dials \ {d} : said'[c] = said[c] /\ mail'[c] = mail[c]
    /\ said'[d] \in Seq(Events)
    /\ Len(said'[d]) = Len(said[d]) + Len(es)
    /\ \A k \in 1 .. Len(es) : said'[d][Len(said[d]) + k] = es[k]
    /\ said' \in [Dials -> Seq(Events)]

LEMMA PublicationFrame ==
    ASSUME DwInv, NEW d \in Dials, NEW es, NEW over \in BOOLEAN, NEW one, NEW two,
           Publication(d, es, over, one, two)
    PROVE  Frame(d, es, one, two) /\ SaidGrows
<1>1. one \subseteq ears[d] /\ two \subseteq ears[d] \ one /\ (Len(es) = 1 => two = {})
  <2>1. one = Taker(ears[d], es[1]) /\ two = Second(d, es, one)
    BY DEF Publication
  <2>2. QED
    BY <2>1, TakersListen DEF Takes
<1>2. es \in Seq(Events) /\ Len(es) \in {1, 2} /\ dials[d] # "over"
  BY DEF Publication, Announces
<1>3. \A c \in Dials : said[c] \in Seq(Events)
  BY DEF DwInv, DwTypes
<1>4. said[d] \o es \in Seq(Events) /\ Len(said[d] \o es) = Len(said[d]) + Len(es)
  BY <1>2, <1>3, ConcatProperties
<1>5. /\ \A k \in 1 .. Len(said[d]) : (said[d] \o es)[k] = said[d][k]
      /\ \A k \in 1 .. Len(es) : (said[d] \o es)[Len(said[d]) + k] = es[k]
  BY <1>2, <1>3, ConcatProperties
<1>6. said \in [Dials -> Seq(Events)] /\ mail \in [Dials -> SUBSET Nat]
  BY DEF DwInv, DwTypes
<1>7. said' = [said EXCEPT ![d] = said[d] \o es]
  BY DEF Publication
<1>8. /\ \A c \in Dials \ {d} : said'[c] = said[c]
      /\ said'[d] = said[d] \o es
      /\ said' \in [Dials -> Seq(Events)]
  BY <1>4, <1>6, <1>7
<1>9. \A c \in Dials \ {d} : mail'[c] = mail[c]
  BY <1>6 DEF Publication
<1>10. Len(said[d]) \in Nat
  BY <1>3
<1>11. SaidGrows
  <2>. SUFFICES ASSUME NEW c \in Dials
                PROVE  /\ said'[c] \in Seq(Events) /\ Len(said[c]) =< Len(said'[c])
                       /\ \A k \in 1 .. Len(said[c]) : said'[c][k] = said[c][k]
                       /\ dials[c] = "over" => said'[c] = said[c]
    BY DEF SaidGrows
  <2>1. CASE c = d
    BY <1>2, <1>4, <1>5, <1>8, <1>10, <2>1
  <2>2. CASE c # d
    BY <1>3, <1>8, <2>2
  <2>3. QED
    BY <2>1, <2>2
<1>12. QED
  BY <1>1, <1>2, <1>4, <1>5, <1>8, <1>9, <1>10, <1>11 DEF Frame

\* Who heard what, and who did not.
Hearing(d, over, one, two) ==
    /\ \A w \in Waiters, c \in Dials :
          Heard(w, c)' <=> Heard(w, c) \/ (c = d /\ w \in one \cup two)
    /\ \A w \in one : wait'[w].got.event = Len(said[d]) + 1 /\ ~Heard(w, d)
    /\ \A w \in two : wait'[w].got.event = Len(said[d]) + 2 /\ ~Heard(w, d)
    /\ \A w \in Waiters, c \in Dials : Heard(w, c) => wait'[w] = wait[w]
    /\ \A w \in Waiters, c \in Dials :
          wait'[w].got.how = "dial_finalized" /\ wait'[w].got.dial = c =>
             wait'[w] = wait[w] \/ (over /\ c = d /\ w \in ears[d] \ (one \cup two))
    /\ \A w \in Waiters : wait'[w].got.how = "snapshot" => wait'[w] = wait[w]

LEMMA PublicationHeard ==
    ASSUME DwInv, NEW d \in Dials, NEW es, NEW over \in BOOLEAN, NEW one, NEW two,
           Publication(d, es, over, one, two)
    PROVE  Hearing(d, over, one, two)
<1> DEFINE S == IF over THEN ears[d] ELSE one \cup two
<1>1. Ending(S)
  BY DEF Publication
<1>2. one \subseteq ears[d] /\ two \subseteq ears[d] \ one /\ ears[d] \subseteq Waiters
  <2>1. Frame(d, es, one, two)
    BY PublicationFrame
  <2>2. QED
    BY <2>1, ListenersWait DEF Frame
<1>3. \A w \in S : Waits(w)
  BY <1>1 DEF Ending
<1>4. \A w \in S : wait[w].got.how = "none"
  BY <1>2, <1>3 DEF DwInv, NothingYet, Waits
<1>5. \A w \in Waiters \ S : wait'[w] = wait[w]
  BY <1>1 DEF Ending
<1>6. \A w \in one : wait'[w].got.how = "event" /\ wait'[w].got.dial = d /\ wait'[w].got.event = Len(said[d]) + 1
  BY DEF Publication, Result
<1>7. \A w \in two : wait'[w].got.how = "event" /\ wait'[w].got.dial = d /\ wait'[w].got.event = Len(said[d]) + 2
  BY DEF Publication, Result
<1>8. \A w \in S \ (one \cup two) : over /\ w \in ears[d] /\ wait'[w].got.how = "dial_finalized" /\ wait'[w].got.dial = d
  <2>1. over => \A w \in ears[d] \ (one \cup two) : wait'[w].got = Result("dial_finalized", d, 0)
    BY DEF Publication
  <2>2. \A w \in S \ (one \cup two) : over /\ w \in ears[d]
    OBVIOUS
  <2>3. QED
    BY <2>1, <2>2 DEF Result
<1>9. one \cup two \subseteq S
  BY <1>2
<1>. HIDE DEF S
<1>10. \A w \in Waiters : ~(w \in S) \/ w \in one \/ w \in two \/ w \in S \ (one \cup two)
  OBVIOUS
<1>11. \A w \in Waiters, c \in Dials : Heard(w, c)' <=> Heard(w, c) \/ (c = d /\ w \in one \cup two)
  BY <1>4, <1>5, <1>6, <1>7, <1>8, <1>9, <1>10 DEF Heard
<1>12. /\ \A w \in one \cup two : ~Heard(w, d)
       /\ \A w \in Waiters, c \in Dials : Heard(w, c) => wait'[w] = wait[w]
  BY <1>2, <1>4, <1>5, <1>9 DEF Heard
<1>13. \A w \in Waiters, c \in Dials :
          wait'[w].got.how = "dial_finalized" /\ wait'[w].got.dial = c =>
              wait'[w] = wait[w] \/ (over /\ c = d /\ w \in ears[d] \ (one \cup two))
  BY <1>5, <1>6, <1>7, <1>8, <1>10
<1>14. \A w \in Waiters : wait'[w].got.how = "snapshot" => wait'[w] = wait[w]
  BY <1>5, <1>6, <1>7, <1>8, <1>10
<1>15. QED
  BY <1>6, <1>7, <1>11, <1>12, <1>13, <1>14 DEF Hearing

\* A dial publishes its events, at the last its end; when it goes on, one.
LEMMA PublicationHolds ==
    ASSUME DialWaitsAssumption, DwInv, NEW d \in Dials, NEW es, NEW over \in BOOLEAN,
           Announces(d, es, over), over => es[Len(es)] \in Ends
    PROVE  DwInv'
<1>1. PICK one, two : Publication(d, es, over, one, two)
  BY Published
<1> DEFINE n == Len(said[d])
           m == Len(es)
           S == IF over THEN ears[d] ELSE one \cup two
<1>2. /\ n \in Nat /\ m \in {1, 2} /\ dials[d] # "over"
      /\ one \subseteq ears[d] /\ two \subseteq ears[d] \ one /\ (m = 1 => two = {})
      /\ \A c \in Dials \ {d} : said'[c] = said[c] /\ mail'[c] = mail[c]
      /\ said'[d] \in Seq(Events) /\ Len(said'[d]) = n + m
      /\ \A k \in 1 .. m : said'[d][n + k] = es[k]
      /\ said' \in [Dials -> Seq(Events)]
  <2>1. Frame(d, es, one, two)
    BY <1>1, PublicationFrame
  <2>2. QED
    BY <2>1 DEF Frame
<1>3. SaidGrows
  BY <1>1, PublicationFrame
<1>4. /\ \A w \in Waiters, c \in Dials :
            Heard(w, c)' <=> Heard(w, c) \/ (c = d /\ w \in one \cup two)
      /\ \A w \in one : wait'[w].got.event = n + 1 /\ ~Heard(w, d)
      /\ \A w \in two : wait'[w].got.event = n + 2 /\ ~Heard(w, d)
      /\ \A w \in Waiters, c \in Dials : Heard(w, c) => wait'[w] = wait[w]
      /\ \A w \in Waiters, c \in Dials :
            wait'[w].got.how = "dial_finalized" /\ wait'[w].got.dial = c =>
               wait'[w] = wait[w] \/ (over /\ c = d /\ w \in ears[d] \ (one \cup two))
      /\ \A w \in Waiters : wait'[w].got.how = "snapshot" => wait'[w] = wait[w]
  <2>1. Hearing(d, over, one, two)
    BY <1>1, PublicationHeard
  <2>2. QED
    BY <2>1 DEF Hearing
<1>5. Ending(S)
  BY <1>1 DEF Publication
<1>6. /\ dials' \in [Dials -> {"dialing", "half", "over"}]
      /\ \A c \in Dials : dials'[c] = "over" <=> dials[c] = "over" \/ (over /\ c = d)
      /\ snapshot' \in [Dials -> {"none"} \cup Ends]
      /\ \A c \in Dials : snapshot'[c] # "none" => snapshot[c] # "none" \/ (over /\ c = d)
      /\ typed' = typed /\ dropped' = dropped
      /\ n + m =< MaxNews[d] + (IF over THEN 2 ELSE 0)
  BY <1>1 DEF Publication, Announces
<1>7. EndsHeard(S)
  BY <1>6 DEF EndsHeard
<1> DEFINE left == {k \in n + 1 .. n + m : (k = n + 1 => one = {}) /\ (k = n + 2 => two = {})}
<1>8. mail'[d] = IF over THEN {} ELSE mail[d] \cup left
  BY <1>1 DEF Publication, DwInv, DwTypes
<1>9. /\ one = {} => \A w \in ears[d] : ~Matches(wait[w].ask, es[1])
      /\ m = 2 /\ two = {} => \A w \in ears[d] \ one : ~Matches(wait[w].ask, es[2])
      /\ \A v, w \in one : v = w
      /\ \A v, w \in two : v = w
  <2>1. one = Taker(ears[d], es[1]) /\ two = Second(d, es, one)
    BY <1>1 DEF Publication
  <2>2. Takes(d, es, one, two)
    BY <2>1, TakersListen
  <2>3. QED
    BY <2>2 DEF Takes
<1>. HIDE DEF S, n, m, left
<1>10. n \in Nat /\ (m = 1 \/ m = 2)
  BY <1>2
<1>11. Len(said'[d]) = n + m /\ \A c \in Dials \ {d} : said'[c] = said[c] /\ mail'[c] = mail[c]
  BY <1>2
<1>12. /\ WaitsForTheLiving' /\ TurnsDiffer'
       /\ ears' \in [Dials -> SUBSET Waiters]
       /\ \A w \in Waiters : wait'[w].st # "over" => w \notin S /\ wait[w].st # "over" /\ wait'[w] = wait[w]
       /\ \A w \in S : wait[w].got.how = "none" /\ \A c \in Dials : ~Heard(w, c) /\ Learnt(w, c) = {}
  BY <1>5, <1>7, EndingKeeps
<1>13. \A c \in Dials : mail[c] \subseteq 1 .. Len(said[c]) /\ Len(said[c]) \in Nat
  BY DEF DwInv, EventsWereSaid, DwTypes
<1>14. mail'[d] \subseteq 1 .. n + m
  BY <1>2, <1>8, <1>13 DEF left, n
<1>15. DwTypes'
  <2>1. mail' \in [Dials -> SUBSET Nat]
    <3>1. \A c \in Dials : mail'[c] \subseteq Nat
      BY <1>2, <1>13, <1>14
    <3>2. mail' = [mail EXCEPT ![d] = mail'[d]]
      BY <1>1, <1>8 DEF Publication, DwInv, DwTypes, n, left
    <3>3. QED
      BY <3>1, <3>2 DEF DwInv, DwTypes
  <2>2. wait' \in [Waiters -> WaitRecords]
    BY <1>5 DEF Ending
  <2>3. QED
    BY <1>2, <1>6, <1>12, <2>1, <2>2 DEF DwInv, DwTypes
<1>16. EventsWereSaid'
  <2>1. \A c \in Dials : Len(said[c]) =< Len(said'[c])
    BY <1>3 DEF SaidGrows
  <2>2. ASSUME NEW c \in Dials
        PROVE  /\ mail'[c] \subseteq 1 .. Len(said'[c])
               /\ Len(said'[c]) =< MaxNews[c] + 2
               /\ dials'[c] # "over" => Len(said'[c]) =< MaxNews[c]
    <3>0. MaxNews[c] \in Nat
      BY DEF DialWaitsAssumption
    <3>1. CASE c = d
      BY <1>2, <1>6, <1>14, <3>0, <3>1
    <3>2. CASE c # d
      BY <1>2, <1>6, <1>13, <3>2 DEF DwInv, EventsWereSaid
    <3>3. QED
      BY <3>1, <3>2
  <2>3. ASSUME NEW c \in Dials, NEW k \in Nat, <<c, k>> \in dropped'
        PROVE  k \in 1 .. Len(said'[c])
    <3>1. k \in 1 .. Len(said[c])
      BY <1>6, <2>3 DEF DwInv, EventsWereSaid
    <3>2. Len(said'[c]) \in Nat
      BY <1>3 DEF SaidGrows
    <3>3. QED
      BY <1>13, <2>1, <3>1, <3>2
  <2>4. ASSUME NEW w \in Waiters, NEW c \in Dials, Heard(w, c)'
        PROVE  wait'[w].got.event \in 1 .. Len(said'[c])
    <3>1. CASE Heard(w, c)
      <4>1. wait'[w].got.event \in 1 .. Len(said[c])
        BY <1>4, <3>1 DEF DwInv, EventsWereSaid
      <4>2. Len(said'[c]) \in Nat
        BY <1>3 DEF SaidGrows
      <4>3. QED
        BY <1>13, <2>1, <4>1, <4>2
    <3>2. CASE ~Heard(w, c)
      <4>1. c = d /\ w \in one \cup two
        BY <1>4, <2>4, <3>2
      <4>2. QED
        BY <1>2, <1>4, <4>1
    <3>3. QED
      BY <3>1, <3>2
  <2>5. QED
    BY <2>2, <2>3, <2>4 DEF EventsWereSaid
<1>17. NothingYet'
  BY <1>12 DEF NothingYet, DwInv
<1>18. SnapshotsAreOfTheDead'
  <2>1. \A c \in Dials : dials[c] = "over" => dials'[c] = "over" /\ said'[c] = said[c]
    BY <1>3, <1>6 DEF SaidGrows
  <2>2. said'[d] # <<>>
    <3>1. n + m # 0
      BY <1>2
    <3>2. QED
      BY <1>2, <3>1
  <2>3. \A c \in Dials : snapshot'[c] # "none" => dials'[c] = "over" /\ said'[c] # <<>>
    BY <1>6, <2>1, <2>2 DEF DwInv, SnapshotsAreOfTheDead
  <2>4. \A w \in Waiters : wait'[w].got.how = "snapshot" => wait'[w] = wait[w]
    BY <1>4
  <2>5. \A w \in Waiters, c \in Dials :
           wait'[w].got.how = "snapshot" /\ wait'[w].got.dial = c => dials'[c] = "over" /\ said'[c] # <<>>
    BY <2>1, <2>4 DEF DwInv, SnapshotsAreOfTheDead
  <2>6. QED
    BY <2>3, <2>5 DEF SnapshotsAreOfTheDead
<1>19. NothingPassesBy'
  <2>. SUFFICES ASSUME NEW w \in Waiters, NEW c \in Dials, Waits(w)', c \in ToSet(wait'[w].ask.on),
                       NEW k \in mail'[c], Matches(wait'[w].ask, said'[c][k])
                PROVE  FALSE
    BY DEF NothingPassesBy, Waits, Queued, Matches
  <2>1. w \notin S /\ wait'[w] = wait[w]
    BY <1>12 DEF Waits
  <2>2. Waits(w) /\ c \in ToSet(wait[w].ask.on) /\ Matches(wait[w].ask, said'[c][k])
    BY <2>1 DEF Waits, Matches
  <2>3. ~ (k \in mail[c] /\ Matches(wait[w].ask, said[c][k]))
    BY <2>2 DEF DwInv, NothingPassesBy, Waits, Queued
  <2>4. k \notin mail[c]
    <3>1. k \in mail[c] => said'[c][k] = said[c][k]
      BY <1>3, <1>13 DEF SaidGrows
    <3>2. QED
      BY <2>2, <2>3, <3>1
  <2>5. c = d /\ ~over /\ k \in left
    BY <1>2, <1>8, <2>4
  <2>6. w \in ears[d] /\ w \notin one \cup two
    BY <2>1, <2>2, <2>5 DEF DwInv, WaitsForTheLiving, Waits, S
  <2>7. CASE k = n + 1
    <3>1. one = {} /\ said'[d][k] = es[1]
      BY <1>2, <2>5, <2>7 DEF left
    <3>2. QED
      BY <1>9, <2>2, <2>5, <2>6, <3>1
  <2>8. CASE k = n + 2
    <3>1. two = {} /\ m = 2 /\ said'[d][k] = es[2]
      BY <1>2, <2>5, <2>8 DEF left
    <3>2. QED
      BY <1>9, <2>2, <2>5, <2>6, <3>1
  <2>9. QED
    BY <1>2, <2>5, <2>7, <2>8 DEF left
<1>20. KeptOnce'
  <2>. SUFFICES ASSUME NEW c \in Dials, dials'[c] # "over", NEW k \in 1 .. Len(said'[c])
                PROVE  \/ k \in mail'[c] /\ <<c, k>> \notin dropped' /\ HearsOf(c, k)' = {}
                       \/ k \notin mail'[c] /\ <<c, k>> \in dropped' /\ HearsOf(c, k)' = {}
                       \/ k \notin mail'[c] /\ <<c, k>> \notin dropped' /\ \E w \in Waiters : HearsOf(c, k)' = {w}
    BY DEF KeptOnce
  <2>1. dials[c] # "over" /\ ~(over /\ c = d)
    BY <1>6
  <2>2. ASSUME k \in 1 .. Len(said[c])
        PROVE  HearsOf(c, k)' = HearsOf(c, k) /\ (k \in mail'[c] <=> k \in mail[c])
    <3>1. \A w \in Waiters : Heard(w, c)' /\ wait'[w].got.event = k <=> Heard(w, c) /\ wait[w].got.event = k
      BY <1>2, <1>4, <2>2 DEF n
    <3>2. k \in mail'[c] <=> k \in mail[c]
      BY <1>2, <1>8, <2>1, <2>2 DEF n, left
    <3>3. QED
      BY <3>1, <3>2 DEF HearsOf
  <2>3. CASE k \in 1 .. Len(said[c])
    BY <1>6, <2>1, <2>2, <2>3 DEF DwInv, KeptOnce
  <2>4. CASE ~(k \in 1 .. Len(said[c]))
    <3>1. c = d /\ ~over /\ (k = n + 1 \/ (k = n + 2 /\ m = 2))
      <4>1. c = d
        BY <1>11, <2>4
      <4>2. k \in 1 .. n + m /\ ~(k \in 1 .. n)
        BY <1>11, <2>4, <4>1 DEF n
      <4>3. k = n + 1 \/ (k = n + 2 /\ m = 2)
        BY <1>10, <4>2
      <4>4. QED
        BY <2>1, <4>1, <4>3
    <3>2. \A w \in Waiters : ~(Heard(w, d) /\ wait[w].got.event = k)
      BY <2>4, <3>1 DEF DwInv, EventsWereSaid
    <3>3. <<c, k>> \notin dropped'
      BY <1>6, <2>4 DEF DwInv, EventsWereSaid
    <3>4. k \in mail'[c] <=> k \in left
      BY <1>8, <1>13, <2>4, <3>1
    <3>5. one \subseteq Waiters /\ two \subseteq Waiters
      BY <1>2, ListenersWait
    <3>6. \A w \in Waiters : Heard(w, d)' /\ wait'[w].got.event = k => w \in one \cup two
      <4>1. \A w \in Waiters : Heard(w, d)' /\ w \notin one \cup two => Heard(w, d) /\ wait'[w] = wait[w]
        BY <1>4
      <4>2. QED
        BY <3>2, <4>1
    <3>7. /\ \A w \in one : Heard(w, d)' /\ wait'[w].got.event = n + 1
          /\ \A w \in two : Heard(w, d)' /\ wait'[w].got.event = n + 2
          /\ n + 1 # n + 2
      <4>1. n + 1 # n + 2
        BY <1>10
      <4>2. QED
        BY <1>4, <3>5, <4>1
    <3>8. CASE k = n + 1
      <4>1. HearsOf(c, k)' = one
        <5>1. \A w \in Waiters : Heard(w, d)' /\ wait'[w].got.event = k <=> w \in one
          BY <3>6, <3>7, <3>8
        <5>2. QED
          BY <3>1, <3>5, <5>1 DEF HearsOf
      <4>2. k \in mail'[c] <=> one = {}
        BY <1>10, <3>4, <3>7, <3>8 DEF left
      <4>3. QED
        BY <1>9, <3>3, <3>5, <4>1, <4>2
    <3>9. CASE k = n + 2 /\ m = 2
      <4>1. HearsOf(c, k)' = two
        <5>1. \A w \in Waiters : Heard(w, d)' /\ wait'[w].got.event = k <=> w \in two
          BY <3>6, <3>7, <3>9
        <5>2. QED
          BY <3>1, <3>5, <5>1 DEF HearsOf
      <4>2. k \in mail'[c] <=> two = {}
        BY <1>10, <3>4, <3>7, <3>9 DEF left
      <4>3. QED
        BY <1>9, <3>3, <3>5, <4>1, <4>2
    <3>10. QED
      BY <3>1, <3>8, <3>9
  <2>5. QED
    BY <2>3, <2>4
<1>21. TurnedAwayByAnother'
  <2>. SUFFICES ASSUME NEW w \in Waiters, NEW c \in Dials,
                       wait'[w].got.how = "dial_finalized", wait'[w].got.dial = c
                PROVE  \E v \in Waiters \ {w} : Learnt(v, c)' # {}
    BY DEF TurnedAwayByAnother
  <2>1. wait'[w] = wait[w] \/ (over /\ c = d /\ w \in ears[d] \ (one \cup two))
    BY <1>4
  <2>2. CASE wait'[w] = wait[w]
    <3>1. PICK v \in Waiters \ {w} : Learnt(v, c) # {}
      BY <2>2 DEF DwInv, TurnedAwayByAnother
    <3>2. wait'[v] = wait[v]
      BY <1>5, <1>12, <3>1 DEF Ending
    <3>3. QED
      BY <1>3, <3>1, <3>2, LearntStays
  <2>3. CASE over /\ c = d /\ w \in ears[d] \ (one \cup two)
    <3> DEFINE last == es[m]
               who == IF m = 2 THEN two ELSE one
    <3>1. last \in Ends /\ Matches(wait[w].ask, last)
      BY <2>3 DEF Matches, m
    <3>2. who # {}
      BY <1>2, <1>9, <2>3, <3>1
    <3>3. PICK v \in who : TRUE
      BY <3>2
    <3>4. v \in Waiters \ {w} /\ v \in one \cup two /\ wait'[v].got.event = n + m
      BY <1>2, <1>4, <2>3, <3>3, ListenersWait
    <3>5. Heard(v, d)'
      BY <1>4, <3>4
    <3>6. said'[d][n + m] = last
      <4>1. m \in 1 .. m
        BY <1>10
      <4>2. QED
        BY <1>2, <4>1
    <3>. HIDE DEF last
    <3>7. Learnt(v, d)' = {said'[d][wait'[v].got.event]} \cap Ends
      <4>1. wait'[v].got.how = "event" /\ wait'[v].got.dial = d
        BY <3>5 DEF Heard
      <4>2. QED
        BY <4>1 DEF Learnt, Heard
    <3>8. last \in Learnt(v, d)'
      BY <3>1, <3>4, <3>6, <3>7
    <3>9. QED
      BY <2>3, <3>4, <3>8
  <2>4. QED
    BY <2>1, <2>2, <2>3
<1>22. QED
  BY <1>12, <1>15, <1>16, <1>17, <1>18, <1>19, <1>20, <1>21 DEF DwInv

LEMMA FinalizeHolds ==
    ASSUME DialWaitsAssumption, DwInv, NEW d \in Dials, dials[d] # "over",
           NEW es \in Seq(Events), Len(es) \in {0, 1}, NEW end \in Ends, Finalize(d, es, end)
    PROVE  DwInv'
<1> DEFINE news == Append(es, end)
<1>1. end \in Events /\ (Len(es) = 0 \/ Len(es) = 1)
  BY DEF Events
<1>2. news \in Seq(Events) /\ (Len(news) = 1 \/ Len(news) = 2) /\ news[Len(news)] = end
  <2>1. news \in Seq(Events) /\ Len(news) = Len(es) + 1
    BY <1>1
  <2>2. news[Len(es) + 1] = end
    BY <1>1
  <2>3. Len(es) + 1 = 1 \/ Len(es) + 1 = 2
    <3>1. \A n \in {0, 1} : n + 1 = 1 \/ n + 1 = 2
      OBVIOUS
    <3>2. QED
      BY <3>1
  <2>4. QED
    BY <2>1, <2>2, <2>3
<1>3. PublishAll(d, news, TRUE)
  BY DEF Finalize
<1>. HIDE DEF news
<1>4. Len(said[d]) =< MaxNews[d] /\ Len(said[d]) \in Nat /\ MaxNews[d] \in Nat
  BY DEF DwInv, EventsWereSaid, DwTypes, DialWaitsAssumption
<1>5. dials' = [dials EXCEPT ![d] = "over"] /\ snapshot' = [snapshot EXCEPT ![d] = end]
      /\ typed' = typed /\ dropped' = dropped
  BY DEF Finalize
<1>6. dials \in [Dials -> {"dialing", "half", "over"}] /\ snapshot \in [Dials -> {"none"} \cup Ends]
  BY DEF DwInv, DwTypes
<1>7. Announces(d, news, TRUE)
  <2>1. Len(news) \in {1, 2} /\ Len(said[d]) + Len(news) =< MaxNews[d] + 2
    BY <1>2, <1>4
  <2>2. dials' \in [Dials -> {"dialing", "half", "over"}]
        /\ \A c \in Dials : dials'[c] = "over" <=> dials[c] = "over" \/ c = d
    BY <1>5, <1>6
  <2>3. snapshot' \in [Dials -> {"none"} \cup Ends]
        /\ \A c \in Dials : snapshot'[c] # "none" => snapshot[c] # "none" \/ c = d
    BY <1>5, <1>6
  <2>4. QED
    BY <1>2, <1>3, <1>5, <2>1, <2>2, <2>3 DEF Announces
<1>8. news[Len(news)] \in Ends
  BY <1>2
<1>9. QED
  BY <1>7, <1>8, PublicationHolds

\* A dial that goes on publishes one event.
LEMMA NewsHolds ==
    ASSUME DialWaitsAssumption, DwInv, NEW d \in Dials, dials[d] # "over", Len(said[d]) < MaxNews[d],
           NEW e \in Events, PublishAll(d, <<e>>, FALSE),
           dials' \in {dials, [dials EXCEPT ![d] = "half"]}, UNCHANGED <<snapshot, typed, dropped>>
    PROVE  DwInv'
<1>1. Len(said[d]) \in Nat /\ MaxNews[d] \in Nat
  BY DEF DwInv, DwTypes, DialWaitsAssumption
<1>2. /\ dials' \in [Dials -> {"dialing", "half", "over"}]
      /\ \A c \in Dials : dials'[c] = "over" <=> dials[c] = "over"
  BY DEF DwInv, DwTypes
<1>3. snapshot' \in [Dials -> {"none"} \cup Ends] /\ snapshot' = snapshot
  BY DEF DwInv, DwTypes
<1>4. PICK es : es = <<e>>
  OBVIOUS
<1>5. es \in Seq(Events) /\ Len(es) \in {1, 2} /\ Len(said[d]) + Len(es) =< MaxNews[d]
  BY <1>1, <1>4
<1>6. Announces(d, es, FALSE)
  <2>1. PublishAll(d, es, FALSE) /\ typed' = typed /\ dropped' = dropped
    BY <1>4
  <2>2. \A c \in Dials : snapshot'[c] # "none" => snapshot[c] # "none"
    BY <1>3
  <2>3. QED
    <3>1. Len(said[d]) + Len(es) =< MaxNews[d] + 0
      BY <1>1, <1>5
    <3>2. \A c \in Dials : dials'[c] = "over" <=> dials[c] = "over" \/ (FALSE /\ c = d)
      BY <1>2
    <3>3. \A c \in Dials : snapshot'[c] # "none" => snapshot[c] # "none" \/ (FALSE /\ c = d)
      BY <2>2
    <3>4. QED
      BY <1>2, <1>3, <1>5, <2>1, <3>1, <3>2, <3>3 DEF Announces
<1>7. QED
  BY <1>6, PublicationHolds

LEMMA RejectedHolds ==
    ASSUME DialWaitsAssumption, DwInv, NEW d \in Dials, Rejected(d)
    PROVE  DwInv'
<1>1. dials[d] # "over" /\ Len(said[d]) < MaxNews[d] /\ "rejected" \in Events /\ "failed" \in Ends
  BY DEF Rejected, Events, Ends
<1>2. CASE PublishAll(d, <<"rejected">>, FALSE) /\ UNCHANGED <<dials, snapshot, typed, dropped>>
  BY <1>1, <1>2, NewsHolds
<1>3. CASE Finalize(d, <<"rejected">>, "failed")
  <2>1. <<"rejected">> \in Seq(Events) /\ Len(<<"rejected">>) = 1
    BY <1>1
  <2>2. QED
    BY <1>1, <1>3, <2>1, FinalizeHolds
<1>4. QED
  BY <1>2, <1>3 DEF Rejected

LEMMA IsAnsweredHolds ==
    ASSUME DialWaitsAssumption, DwInv, NEW d \in Dials, IsAnswered(d)
    PROVE  DwInv'
<1>1. dials[d] # "over" /\ "answered" \in Events /\ "answered" \in Ends
  BY DEF IsAnswered, Events, Ends
<1>2. CASE Finalize(d, <<"answered">>, "answered")
  <2>1. <<"answered">> \in Seq(Events) /\ Len(<<"answered">>) = 1
    BY <1>1
  <2>2. QED
    BY <1>1, <1>2, <2>1, FinalizeHolds
<1>3. CASE /\ Len(said[d]) < MaxNews[d]
           /\ dials' = [dials EXCEPT ![d] = "half"]
           /\ PublishAll(d, <<"answered">>, FALSE)
           /\ UNCHANGED <<snapshot, typed, dropped>>
  BY <1>1, <1>3, NewsHolds
<1>4. QED
  BY <1>2, <1>3 DEF IsAnswered

LEMMA FailsHolds ==
    ASSUME DialWaitsAssumption, DwInv, NEW d \in Dials, Fails(d)
    PROVE  DwInv'
<1>1. dials[d] # "over" /\ "failed" \in Ends /\ Finalize(d, <<>>, "failed")
  BY DEF Fails, Ends
<1>2. <<>> \in Seq(Events) /\ Len(<<>>) = 0
  OBVIOUS
<1>3. QED
  BY <1>1, <1>2, FinalizeHolds

\* What keeps the dials' events and the waits keeps the invariant.
LEMMA SnapshotExpiresHolds ==
    ASSUME DwInv, NEW d \in Dials, SnapshotExpires(d)
    PROVE  DwInv'
<1>1. /\ snapshot' = [snapshot EXCEPT ![d] = "none"]
      /\ UNCHANGED <<dials, said, mail, ears, wait, typed, dropped>>
  BY DEF SnapshotExpires
<1>2. DwTypes'
  BY <1>1 DEF DwInv, DwTypes
<1>3. EventsWereSaid' /\ TurnsDiffer' /\ NothingYet'
  BY <1>1 DEF DwInv, EventsWereSaid, Heard, TurnsDiffer, Waits, Began, NothingYet
<1>4. SnapshotsAreOfTheDead'
  <2>1. \A c \in Dials : snapshot'[c] # "none" => snapshot[c] # "none"
    BY <1>1 DEF DwInv, DwTypes
  <2>2. QED
    BY <1>1, <2>1 DEF DwInv, SnapshotsAreOfTheDead
<1>5. WaitsForTheLiving' /\ NothingPassesBy'
  BY <1>1 DEF DwInv, WaitsForTheLiving, NothingPassesBy, Queued, Matches
<1>6. KeptOnce'
  BY <1>1 DEF DwInv, KeptOnce, HearsOf, Heard
<1>7. TurnedAwayByAnother'
  BY <1>1 DEF DwInv, TurnedAwayByAnother, Learnt, Heard
<1>8. QED
  BY <1>2, <1>3, <1>4, <1>5, <1>6, <1>7 DEF DwInv

LEMMA TypedHolds ==
    ASSUME DwInv, typed' \in BOOLEAN, UNCHANGED <<dials, snapshot, said, mail, ears, wait, dropped>>
    PROVE  DwInv'
<1>1. DwTypes'
  BY DEF DwInv, DwTypes
<1>2. EventsWereSaid' /\ TurnsDiffer' /\ NothingYet' /\ SnapshotsAreOfTheDead'
  BY DEF DwInv, EventsWereSaid, Heard, TurnsDiffer, Waits, Began, NothingYet, SnapshotsAreOfTheDead
<1>3. WaitsForTheLiving' /\ NothingPassesBy'
  BY DEF DwInv, WaitsForTheLiving, NothingPassesBy, Queued, Matches
<1>4. KeptOnce'
  BY DEF DwInv, KeptOnce, HearsOf, Heard
<1>5. TurnedAwayByAnother'
  BY DEF DwInv, TurnedAwayByAnother, Learnt, Heard
<1>6. QED
  BY <1>1, <1>2, <1>3, <1>4, <1>5 DEF DwInv

\* A wait that gives up ends alone.
LEMMA GivesUpHolds ==
    ASSUME DwInv, NEW w \in Waiters, NEW how \in {"timeout", "cancelled", "interrupted"},
           GivesUp(w, how), typed' \in BOOLEAN
    PROVE  DwInv'
<1> DEFINE got == [v \in {w} |-> Other(how)]
<1>1. Waits(w) /\ Settle({w}, got) /\ UNCHANGED <<dials, snapshot, said, mail, dropped>>
  BY DEF GivesUp, Waits
<1>2. got[w] = Other(how) /\ Other(how) \in ResultRecords /\ Other(how).how = how
  BY DEF Other, Result, ResultRecords
<1>. HIDE DEF got
<1>3. Ending({w}) /\ wait'[w].got.how = how
  <2>1. \A v \in {w} : Waits(v) /\ got[v] \in ResultRecords
    BY <1>1, <1>2
  <2>2. Ending({w}) /\ \A v \in {w} : wait'[v].got = got[v]
    BY <1>1, <2>1, SettleEnds DEF DwInv
  <2>3. QED
    BY <1>2, <2>2
<1>4. EndsHeard({w})
  BY <1>1 DEF EndsHeard
<1>5. /\ WaitsForTheLiving' /\ TurnsDiffer'
      /\ ears' \in [Dials -> SUBSET Waiters]
      /\ \A v \in Waiters : wait'[v].st # "over" => v \notin {w} /\ wait[v].st # "over" /\ wait'[v] = wait[v]
      /\ \A v \in {w} : wait[v].got.how = "none" /\ \A c \in Dials : ~Heard(v, c) /\ Learnt(v, c) = {}
  BY <1>3, <1>4, EndingKeeps
<1>6. \A v \in Waiters \ {w} : wait'[v] = wait[v]
  BY <1>3 DEF Ending
<1>7. \A v \in Waiters, c \in Dials :
         /\ Heard(v, c)' <=> Heard(v, c)
         /\ Heard(v, c) => wait'[v] = wait[v]
  BY <1>3, <1>5, <1>6 DEF Heard
<1>8. DwTypes'
  BY <1>1, <1>3, <1>5 DEF DwInv, DwTypes, Ending
<1>9. EventsWereSaid'
  BY <1>1, <1>7 DEF DwInv, EventsWereSaid
<1>10. NothingYet'
  BY <1>5 DEF DwInv, NothingYet
<1>11. SnapshotsAreOfTheDead'
  <2>1. \A v \in Waiters : wait'[v].got.how = "snapshot" => wait'[v] = wait[v]
    BY <1>3, <1>6
  <2>2. QED
    BY <1>1, <2>1 DEF DwInv, SnapshotsAreOfTheDead
<1>12. NothingPassesBy'
  <2>1. \A v \in Waiters : Waits(v)' => Waits(v) /\ wait'[v] = wait[v]
    BY <1>5 DEF Waits
  <2>2. QED
    BY <1>1, <2>1 DEF DwInv, NothingPassesBy, Queued, Matches, Waits
<1>13. KeptOnce'
  <2>1. \A c \in Dials, n \in Nat : HearsOf(c, n)' = HearsOf(c, n)
    BY <1>7 DEF HearsOf
  <2>2. \A c \in Dials : 1 .. Len(said[c]) \subseteq Nat
    OBVIOUS
  <2>3. QED
    BY <1>1, <2>1, <2>2 DEF DwInv, KeptOnce
<1>14. TurnedAwayByAnother'
  <2>. SUFFICES ASSUME NEW v \in Waiters, NEW c \in Dials,
                       wait'[v].got.how = "dial_finalized", wait'[v].got.dial = c
                PROVE  \E u \in Waiters \ {v} : Learnt(u, c)' # {}
    BY DEF TurnedAwayByAnother
  <2>1. wait'[v] = wait[v]
    BY <1>3, <1>6
  <2>2. PICK u \in Waiters \ {v} : Learnt(u, c) # {}
    BY <2>1 DEF DwInv, TurnedAwayByAnother
  <2>3. wait'[u] = wait[u]
    BY <1>5, <1>6, <2>2
  <2>4. SaidGrows
    BY <1>1 DEF SaidGrows, DwInv, DwTypes
  <2>5. QED
    BY <2>2, <2>3, <2>4, LearntStays
<1>15. QED
  BY <1>5, <1>8, <1>9, <1>10, <1>11, <1>12, <1>13, <1>14 DEF DwInv

-----------------------------------------------------------------------------
(* What a wait finds as it begins.                                          *)

FoundIs(found, ask) ==
    /\ found \in ResultRecords
    /\ found.how \in {"invalid", "event", "snapshot", "none"}
    /\ found.how = "event" =>
          found.dial \in Dials /\ dials[found.dial] # "over" /\ found.event \in mail[found.dial]
    /\ found.how = "snapshot" => found.dial \in Dials /\ snapshot[found.dial] # "none"
    /\ found.how = "none" =>
          /\ found = NoResult
          /\ \A d \in ToSet(ask.on) : dials[d] # "over" /\ Queued(d, ask) = {}

LEMMA AsksAreRecords ==
    ASSUME NEW ask \in Asks
    PROVE  ask \in AskRecords
<1>1. ask.on \in SeqOf(Dials, Cardinality(Dials))
  BY DEF Asks
<1>2. ask.on \in Seq(Dials)
  BY <1>1 DEF SeqOf
<1>3. ask = [on |-> ask.on, rejections |-> ask.rejections, stops |-> ask.stops]
      /\ ask.rejections \in BOOLEAN /\ ask.stops \in BOOLEAN
  BY DEF Asks
<1>4. QED
  BY <1>2, <1>3 DEF AskRecords

LEMMA FoundLemma ==
    ASSUME DwInv, NEW ask \in AskRecords
    PROVE  FoundIs(Found(ask), ask)
<1> DEFINE on == ask.on
           full == {i \in DOMAIN on : dials[on[i]] # "over" /\ Queued(on[i], ask) # {}}
           ended == {i \in DOMAIN on : snapshot[on[i]] # "none"}
           gone == \E d \in ToSet(on) : dials[d] = "over" /\ snapshot[d] = "none"
           first == Result("event", on[Min(full)], Min(Queued(on[Min(full)], ask)))
           end == Result("snapshot", on[Min(ended)], 0)
<1>1. on \in Seq(Dials) /\ DOMAIN on \subseteq Nat /\ \A i \in DOMAIN on : on[i] \in Dials
  BY DEF AskRecords
<1>2. Found(ask) = IF gone THEN Other("invalid")
                   ELSE IF full # {} THEN first
                   ELSE IF ended # {} THEN end
                   ELSE NoResult
  BY DEF Found
<1>3. \A d \in Dials : Queued(d, ask) \subseteq mail[d] /\ mail[d] \subseteq Nat
  BY DEF Queued, DwInv, DwTypes
<1>4. CASE gone
  <2>1. Found(ask) = Other("invalid")
    BY <1>2, <1>4
  <2>2. QED
    BY <2>1 DEF FoundIs, Other, Result, ResultRecords
<1>5. CASE ~gone /\ full # {}
  <2>1. Found(ask) = first
    BY <1>2, <1>5
  <2>2. Min(full) \in full
    <3>1. full \in SUBSET Nat
      BY <1>1
    <3>2. QED
      BY <1>5, <3>1, MinIsLeast
  <2> DEFINE d == on[Min(full)]
  <2>3. d \in Dials /\ dials[d] # "over" /\ Queued(d, ask) # {}
    BY <1>1, <2>2
  <2>. HIDE DEF d
  <2>4. Min(Queued(d, ask)) \in Queued(d, ask)
    <3>1. Queued(d, ask) \in SUBSET Nat
      BY <1>3, <2>3
    <3>2. QED
      BY <2>3, <3>1, MinIsLeast
  <2>5. Found(ask) = Result("event", d, Min(Queued(d, ask)))
    BY <2>1 DEF d
  <2>6. Min(Queued(d, ask)) \in mail[d] /\ Min(Queued(d, ask)) \in Nat
    BY <1>3, <2>3, <2>4
  <2>7. QED
    BY <2>3, <2>5, <2>6 DEF FoundIs, Result, ResultRecords
<1>6. CASE ~gone /\ full = {} /\ ended # {}
  <2>1. Found(ask) = end
    BY <1>2, <1>6
  <2>2. Min(ended) \in ended
    <3>1. ended \in SUBSET Nat
      BY <1>1
    <3>2. QED
      BY <1>6, <3>1, MinIsLeast
  <2>3. on[Min(ended)] \in Dials /\ snapshot[on[Min(ended)]] # "none"
    BY <1>1, <2>2
  <2>4. QED
    BY <2>1, <2>3 DEF FoundIs, Result, ResultRecords
<1>7. CASE ~gone /\ full = {} /\ ended = {}
  <2>1. Found(ask) = NoResult
    BY <1>2, <1>7
  <2>2. \A d \in ToSet(on) : dials[d] # "over" /\ Queued(d, ask) = {}
    BY <1>7 DEF ToSet
  <2>3. QED
    BY <2>1, <2>2 DEF FoundIs, NoResult, Other, Result, ResultRecords
<1>8. QED
  BY <1>4, <1>5, <1>6, <1>7

\* A wait begins: it ends at once with what it finds, or it listens.
LEMMA DialWaitHolds ==
    ASSUME DialWaitsAssumption, DwInv, NEW w \in Waiters, NEW ask \in Asks, DialWait(w, ask)
    PROVE  DwInv'
<1>1. PICK found : found = Found(ask)
  OBVIOUS
<1> DEFINE interrupted == ask.stops /\ typed
           takes == found.how = "event"
           listens == [st |-> "waiting", ask |-> ask, turn |-> NextTurn, got |-> NoResult]
           result == IF interrupted THEN Other("interrupted") ELSE found
           stays == ~interrupted /\ found = NoResult
<1>2. ask \in AskRecords /\ FoundIs(found, ask)
  BY <1>1, AsksAreRecords, FoundLemma
<1>3. /\ wait[w].st = "new"
      /\ wait' = [wait EXCEPT ![w] = IF stays THEN listens ELSE Over(result)]
      /\ mail' = IF takes THEN [mail EXCEPT ![found.dial] = @ \ {found.event}] ELSE mail
      /\ dropped' = IF takes /\ interrupted THEN dropped \cup {<<found.dial, found.event>>} ELSE dropped
      /\ ears' = IF wait'[w].st = "waiting"
                 THEN [d \in Dials |-> IF d \in ToSet(ask.on) THEN ears[d] \cup {w} ELSE ears[d]]
                 ELSE ears
      /\ UNCHANGED <<dials, snapshot, said, typed>>
  BY <1>1 DEF DialWait
<1>4. /\ wait \in [Waiters -> WaitRecords] /\ mail \in [Dials -> SUBSET Nat]
      /\ ears \in [Dials -> SUBSET Waiters] /\ dropped \subseteq Dials \X Nat
      /\ said \in [Dials -> Seq(Events)]
  BY DEF DwInv, DwTypes
<1>5. IsFiniteSet(Began) /\ Cardinality(Began) \in Nat /\ w \notin Began /\ Began \subseteq Waiters
      /\ NextTurn = Cardinality(Began) + 1
  <2>1. Began \subseteq Waiters /\ w \notin Began
    BY <1>3 DEF Began
  <2>2. IsFiniteSet(Began)
    BY <2>1, FS_Subset DEF DialWaitsAssumption
  <2>3. NextTurn = Cardinality(Began) + 1
    BY DEF NextTurn, Began
  <2>4. QED
    BY <2>1, <2>2, <2>3, FS_CardinalityType
<1>6. result \in ResultRecords /\ result.how \in {"invalid", "event", "snapshot", "none", "interrupted"}
  <2>1. Other("interrupted") \in ResultRecords /\ Other("interrupted").how = "interrupted"
    BY DEF Other, Result, ResultRecords
  <2>2. QED
    BY <1>2, <2>1 DEF FoundIs
<1>7. listens \in WaitRecords /\ listens.st = "waiting" /\ listens.ask = ask
      /\ listens.turn = Cardinality(Began) + 1 /\ listens.got.how = "none"
  <2>1. NoResult \in ResultRecords /\ NoResult.how = "none"
    BY DEF NoResult, Other, Result, ResultRecords
  <2>2. NextTurn \in Nat
    BY <1>5
  <2>3. QED
    BY <1>2, <1>5, <2>1, <2>2 DEF WaitRecords
<1>8. Over(result) \in WaitRecords /\ Over(result).st = "over" /\ Over(result).got = result
  BY <1>6 DEF Over, WaitRecords, Silent, AskRecords
<1>9. \A v \in Waiters \ {w} : wait'[v] = wait[v]
  BY <1>3, <1>4
<1>10. wait'[w] = (IF stays THEN listens ELSE Over(result)) /\ wait' \in [Waiters -> WaitRecords]
  BY <1>3, <1>4, <1>7, <1>8
<1>11. stays => found.how = "none"
  BY DEF NoResult, Other, Result
<1>12. takes => found.dial \in Dials /\ dials[found.dial] # "over" /\ found.event \in mail[found.dial]
  BY <1>2 DEF FoundIs
<1>13. found.how = "snapshot" => found.dial \in Dials /\ snapshot[found.dial] # "none"
  BY <1>2 DEF FoundIs
<1>14. stays => \A d \in ToSet(ask.on) : dials[d] # "over" /\ Queued(d, ask) = {}
  BY <1>2, <1>11 DEF FoundIs
<1>15. ~stays /\ ~interrupted => found.how # "none"
  BY <1>2 DEF FoundIs
<1>. HIDE DEF listens
<1>16. wait'[w].st = "waiting" <=> stays
  BY <1>7, <1>8, <1>10
<1>17. wait'[w].st # "new" /\ (wait'[w].got.how = "none" => stays)
  <2>1. CASE stays
    BY <1>7, <1>10, <2>1
  <2>2. CASE ~stays
    <3>1. wait'[w].st = "over" /\ wait'[w].got = result
      BY <1>8, <1>10, <2>2
    <3>2. result.how # "none"
      <4>1. Other("interrupted").how # "none"
        BY DEF Other, Result
      <4>2. QED
        BY <1>15, <2>2, <4>1
    <3>3. QED
      BY <3>1, <3>2
  <2>3. QED
    BY <2>1, <2>2
\* What the wait returned, if it is an event or a snapshot.
<1>18. /\ wait'[w].got.how = "event" <=> takes /\ ~interrupted
       /\ wait'[w].got.how \in {"event", "snapshot"} => wait'[w].got = found
       /\ wait'[w].got.how # "dial_finalized"
  <2>1. CASE stays
    <3>1. wait'[w].got.how = "none"
      BY <1>7, <1>10, <2>1
    <3>2. QED
      BY <1>11, <2>1, <3>1
  <2>2. CASE ~stays
    <3>1. wait'[w].got = result
      BY <1>8, <1>10, <2>2
    <3>2. CASE interrupted
      BY <3>1, <3>2 DEF Other, Result
    <3>3. CASE ~interrupted
      BY <1>6, <3>1, <3>3
    <3>4. QED
      BY <3>2, <3>3
  <2>3. QED
    BY <2>1, <2>2
<1>. HIDE DEF interrupted, takes, stays, result
<1>19. wait[w].got.how = "none"
  BY <1>3 DEF DwInv, NothingYet
<1>20. /\ mail' \in [Dials -> SUBSET Nat]
       /\ \A d \in Dials : mail'[d] = IF takes /\ d = found.dial THEN mail[d] \ {found.event} ELSE mail[d]
  <2>1. CASE takes
    BY <1>3, <1>4, <1>12, <2>1
  <2>2. CASE ~takes
    BY <1>3, <1>4, <2>2
  <2>3. QED
    BY <2>1, <2>2
<1>21. \A d \in Dials : mail[d] \subseteq 1 .. Len(said[d])
  BY DEF DwInv, EventsWereSaid
<1>22. ears' \in [Dials -> SUBSET Waiters]
       /\ \A d \in Dials : ears'[d] = IF stays /\ d \in ToSet(ask.on) THEN ears[d] \cup {w} ELSE ears[d]
  <2>1. CASE stays
    BY <1>3, <1>4, <1>16, <2>1
  <2>2. CASE ~stays
    BY <1>3, <1>4, <1>16, <2>2
  <2>3. QED
    BY <2>1, <2>2
<1>23. dropped' \subseteq Dials \X Nat
       /\ \A d \in Dials, n \in Nat : <<d, n>> \in dropped' <=>
             <<d, n>> \in dropped \/ (takes /\ interrupted /\ d = found.dial /\ n = found.event)
  <2>1. takes => found.dial \in Dials /\ found.event \in Nat
    BY <1>4, <1>12
  <2>2. CASE takes /\ interrupted
    BY <1>3, <1>4, <2>1, <2>2
  <2>3. CASE ~(takes /\ interrupted)
    BY <1>3, <1>4, <2>3
  <2>4. QED
    BY <2>2, <2>3
<1>24. \A v \in Waiters, d \in Dials :
          Heard(v, d)' <=> Heard(v, d) \/ (v = w /\ takes /\ ~interrupted /\ d = found.dial)
  <2>1. \A d \in Dials : ~Heard(w, d)
    BY <1>19 DEF Heard
  <2>2. \A d \in Dials : Heard(w, d)' <=> takes /\ ~interrupted /\ d = found.dial
    BY <1>18 DEF Heard
  <2>3. \A v \in Waiters \ {w}, d \in Dials : Heard(v, d)' <=> Heard(v, d)
    BY <1>9 DEF Heard
  <2>4. QED
    BY <2>1, <2>2, <2>3
<1>25. \A v \in Waiters, d \in Dials : Heard(v, d) => v # w
  BY <1>19 DEF Heard
<1>26. DwTypes'
  BY <1>3, <1>10, <1>20, <1>22, <1>23 DEF DwInv, DwTypes
<1>27. EventsWereSaid'
  <2>1. \A d \in Dials : mail'[d] \subseteq 1 .. Len(said'[d])
    BY <1>3, <1>20, <1>21
  <2>2. \A d \in Dials : Len(said'[d]) =< MaxNews[d] + 2 /\ (dials'[d] # "over" => Len(said'[d]) =< MaxNews[d])
    BY <1>3 DEF DwInv, EventsWereSaid
  <2>3. \A d \in Dials, n \in Nat : <<d, n>> \in dropped' => n \in 1 .. Len(said'[d])
    BY <1>3, <1>12, <1>21, <1>23 DEF DwInv, EventsWereSaid
  <2>4. \A v \in Waiters, d \in Dials : Heard(v, d)' => wait'[v].got.event \in 1 .. Len(said'[d])
    <3>1. \A v \in Waiters, d \in Dials : Heard(v, d) => wait'[v].got.event \in 1 .. Len(said'[d])
      BY <1>3, <1>9, <1>25 DEF DwInv, EventsWereSaid
    <3>2. takes /\ ~interrupted => wait'[w].got.event \in 1 .. Len(said'[found.dial])
      BY <1>3, <1>12, <1>18, <1>21
    <3>3. QED
      BY <1>24, <3>1, <3>2
  <2>5. QED
    BY <2>1, <2>2, <2>3, <2>4 DEF EventsWereSaid
<1>28. TurnsDiffer'
  <2>1. Began' = Began \cup {w}
    BY <1>9, <1>17 DEF Began
  <2>2. Cardinality(Began') = Cardinality(Began) + 1
    BY <1>5, <2>1, FS_AddElement
  <2>3. \A v \in Waiters \ {w} : (Waits(v)' <=> Waits(v)) /\ wait'[v].turn = wait[v].turn
    BY <1>9 DEF Waits
  <2>4. Waits(w)' => wait'[w].turn = Cardinality(Began) + 1
    BY <1>7, <1>10, <1>16 DEF Waits
  <2>5. \A v \in Waiters : Waits(v) => wait[v].turn \in Nat /\ wait[v].turn =< Cardinality(Began)
    BY <1>4 DEF DwInv, TurnsDiffer, WaitRecords
  <2>6. \A v \in Waiters \ {w} : Waits(v)' => wait'[v].turn \in Nat /\ wait'[v].turn =< Cardinality(Began)
    BY <2>3, <2>5
  <2>7. \A v \in Waiters : Waits(v)' => wait'[v].turn =< Cardinality(Began')
    BY <1>5, <2>2, <2>4, <2>6
  <2>8. \A u, v \in Waiters : Waits(u)' /\ Waits(v)' /\ wait'[u].turn = wait'[v].turn => u = v
    <3>. SUFFICES ASSUME NEW u \in Waiters, NEW v \in Waiters, Waits(u)', Waits(v)',
                         wait'[u].turn = wait'[v].turn, u # v
                  PROVE  FALSE
      OBVIOUS
    <3>1. CASE u = w
      BY <1>5, <2>4, <2>6, <3>1
    <3>2. CASE v = w
      BY <1>5, <2>4, <2>6, <3>2
    <3>3. CASE u # w /\ v # w
      BY <2>3, <3>3 DEF DwInv, TurnsDiffer
    <3>4. QED
      BY <3>1, <3>2, <3>3
  <2>9. QED
    BY <2>7, <2>8 DEF TurnsDiffer
<1>29. NothingYet'
  <2>1. wait'[w].st # "over" => wait'[w].got.how = "none"
    BY <1>7, <1>8, <1>10
  <2>2. QED
    BY <1>9, <2>1 DEF DwInv, NothingYet
<1>30. SnapshotsAreOfTheDead'
  <2>1. \A d \in Dials : snapshot[d] # "none" => dials[d] = "over" /\ said[d] # <<>>
    BY DEF DwInv, SnapshotsAreOfTheDead
  <2>2. \A d \in Dials : wait'[w].got.how = "snapshot" /\ wait'[w].got.dial = d => dials[d] = "over" /\ said[d] # <<>>
    BY <1>13, <1>18, <2>1
  <2>3. \A v \in Waiters \ {w}, d \in Dials :
           wait'[v].got.how = "snapshot" /\ wait'[v].got.dial = d => dials[d] = "over" /\ said[d] # <<>>
    BY <1>9 DEF DwInv, SnapshotsAreOfTheDead
  <2>4. QED
    BY <1>3, <2>1, <2>2, <2>3 DEF SnapshotsAreOfTheDead
<1>31. WaitsForTheLiving'
  <2>. SUFFICES ASSUME NEW d \in Dials
                PROVE  /\ ears'[d] = {v \in Waiters : Waits(v)' /\ d \in ToSet(wait'[v].ask.on)}
                       /\ dials'[d] = "over" => ears'[d] = {}
    BY DEF WaitsForTheLiving, Waits
  <2>1. ears[d] = {v \in Waiters : Waits(v) /\ d \in ToSet(wait[v].ask.on)} /\ (dials[d] = "over" => ears[d] = {})
    BY DEF DwInv, WaitsForTheLiving, Waits
  <2>2. w \notin ears[d]
    BY <1>3, <2>1 DEF Waits
  <2>3. Waits(w)' /\ d \in ToSet(wait'[w].ask.on) <=> stays /\ d \in ToSet(ask.on)
    BY <1>7, <1>10, <1>16 DEF Waits
  <2>4. \A v \in Waiters \ {w} : (Waits(v)' <=> Waits(v)) /\ wait'[v].ask = wait[v].ask
    BY <1>9 DEF Waits
  <2>5. \A v \in Waiters : v \in ears'[d] <=> Waits(v)' /\ d \in ToSet(wait'[v].ask.on)
    BY <1>22, <2>1, <2>2, <2>3, <2>4
  <2>6. ears'[d] \subseteq Waiters
    BY <1>22
  <2>7. dials'[d] = "over" => ears'[d] = {}
    BY <1>3, <1>14, <1>22, <2>1
  <2>8. QED
    BY <2>5, <2>6, <2>7
<1>32. NothingPassesBy'
  <2>. SUFFICES ASSUME NEW v \in Waiters, NEW d \in Dials, Waits(v)', d \in ToSet(wait'[v].ask.on),
                       NEW k \in mail'[d], Matches(wait'[v].ask, said'[d][k])
                PROVE  FALSE
    BY DEF NothingPassesBy, Waits, Queued, Matches
  <2>1. k \in mail[d] /\ Matches(wait'[v].ask, said[d][k])
    BY <1>3, <1>20 DEF Matches
  <2>2. CASE v = w
    <3>1. stays /\ wait'[w].ask = ask
      BY <1>7, <1>10, <1>16, <2>2 DEF Waits
    <3>2. Queued(d, ask) = {}
      BY <1>14, <2>2, <3>1
    <3>3. QED
      BY <2>1, <2>2, <3>1, <3>2 DEF Queued
  <2>3. CASE v # w
    <3>1. wait'[v] = wait[v]
      BY <1>9, <2>3
    <3>2. QED
      BY <2>1, <3>1 DEF DwInv, NothingPassesBy, Queued, Waits
  <2>4. QED
    BY <2>2, <2>3
<1>33. KeptOnce'
  <2>. SUFFICES ASSUME NEW d \in Dials, dials[d] # "over", NEW n \in 1 .. Len(said[d])
                PROVE  \/ n \in mail'[d] /\ <<d, n>> \notin dropped' /\ HearsOf(d, n)' = {}
                       \/ n \notin mail'[d] /\ <<d, n>> \in dropped' /\ HearsOf(d, n)' = {}
                       \/ n \notin mail'[d] /\ <<d, n>> \notin dropped' /\ \E v \in Waiters : HearsOf(d, n)' = {v}
    BY <1>3 DEF KeptOnce
  <2>1. n \in Nat
    OBVIOUS
  <2>2. \/ n \in mail[d] /\ <<d, n>> \notin dropped /\ HearsOf(d, n) = {}
        \/ n \notin mail[d] /\ <<d, n>> \in dropped /\ HearsOf(d, n) = {}
        \/ n \notin mail[d] /\ <<d, n>> \notin dropped /\ \E v \in Waiters : HearsOf(d, n) = {v}
    BY DEF DwInv, KeptOnce
  <2>3. \A v \in Waiters : v \in HearsOf(d, n)' <=>
           v \in HearsOf(d, n) \/ (v = w /\ takes /\ ~interrupted /\ d = found.dial /\ n = found.event)
    <3>1. \A v \in Waiters : Heard(v, d) => wait'[v].got.event = wait[v].got.event
      BY <1>9, <1>25
    <3>2. takes /\ ~interrupted => wait'[w].got.event = found.event
      BY <1>18
    <3>3. QED
      BY <1>24, <1>25, <3>1, <3>2 DEF HearsOf
  <2>4. HearsOf(d, n) \subseteq Waiters /\ HearsOf(d, n)' \subseteq Waiters
    BY DEF HearsOf
  <2>5. CASE takes /\ d = found.dial /\ n = found.event
    <3>1. n \in mail[d] /\ n \notin mail'[d]
      BY <1>12, <1>20, <2>5
    <3>2. <<d, n>> \notin dropped /\ HearsOf(d, n) = {}
      BY <2>2, <3>1
    <3>3. CASE interrupted
      BY <1>23, <2>1, <2>3, <2>4, <2>5, <3>1, <3>2, <3>3
    <3>4. CASE ~interrupted
      <4>1. HearsOf(d, n)' = {w}
        BY <2>3, <2>4, <2>5, <3>2, <3>4
      <4>2. <<d, n>> \notin dropped'
        BY <1>23, <2>1, <3>2, <3>4
      <4>3. QED
        BY <3>1, <4>1, <4>2
    <3>5. QED
      BY <3>3, <3>4
  <2>6. CASE ~(takes /\ d = found.dial /\ n = found.event)
    <3>1. HearsOf(d, n)' = HearsOf(d, n)
      BY <2>3, <2>4, <2>6
    <3>2. n \in mail'[d] <=> n \in mail[d]
      BY <1>20, <2>6
    <3>3. <<d, n>> \in dropped' <=> <<d, n>> \in dropped
      BY <1>23, <2>1, <2>6
    <3>4. QED
      BY <2>2, <3>1, <3>2, <3>3
  <2>7. QED
    BY <2>5, <2>6
<1>34. TurnedAwayByAnother'
  <2>. SUFFICES ASSUME NEW v \in Waiters, NEW d \in Dials,
                       wait'[v].got.how = "dial_finalized", wait'[v].got.dial = d
                PROVE  \E u \in Waiters \ {v} : Learnt(u, d)' # {}
    BY DEF TurnedAwayByAnother
  <2>1. v # w /\ wait'[v] = wait[v]
    BY <1>9, <1>18
  <2>2. PICK u \in Waiters \ {v} : Learnt(u, d) # {}
    BY <2>1 DEF DwInv, TurnedAwayByAnother
  <2>3. u # w
    BY <1>19, <2>2 DEF Learnt, Heard
  <2>4. wait'[u] = wait[u]
    BY <1>9, <2>2, <2>3
  <2>5. SaidGrows
    BY <1>3, <1>4 DEF SaidGrows
  <2>6. QED
    BY <2>2, <2>4, <2>5, LearntStays
<1>35. QED
  BY <1>26, <1>27, <1>28, <1>29, <1>30, <1>31, <1>32, <1>33, <1>34 DEF DwInv

LEMMA DwStepHolds == DialWaitsAssumption /\ DwInv /\ [DwNext]_dwVars => DwInv'
<1>. SUFFICES ASSUME DialWaitsAssumption, DwInv, [DwNext]_dwVars
              PROVE  DwInv'
  OBVIOUS
<1>1. ASSUME NEW d \in Dials, Rejected(d) \/ IsAnswered(d) \/ Fails(d) \/ SnapshotExpires(d)
      PROVE  DwInv'
  BY <1>1, RejectedHolds, IsAnsweredHolds, FailsHolds, SnapshotExpiresHolds
<1>2. ASSUME NEW w \in Waiters, NEW ask \in Asks, DialWait(w, ask)
      PROVE  DwInv'
  BY <1>2, DialWaitHolds
<1>3. typed \in BOOLEAN
  BY DEF DwInv, DwTypes
<1>4. ASSUME NEW w \in Waiters, WaitTimesOut(w) \/ Interrupts(w)
      PROVE  DwInv'
  <2>1. \E how \in {"timeout", "cancelled", "interrupted"} : GivesUp(w, how) /\ typed' \in BOOLEAN
    BY <1>3, <1>4 DEF WaitTimesOut, Interrupts
  <2>2. QED
    BY <2>1, GivesUpHolds
<1>5. CASE TypedAhead \/ ReadByOther
  BY <1>5, TypedHolds DEF TypedAhead, ReadByOther
<1>6. CASE UNCHANGED dwVars
  BY <1>3, <1>6, TypedHolds DEF dwVars
<1>7. QED
  BY <1>1, <1>2, <1>4, <1>5, <1>6 DEF DwNext

\* A workflow that waits for dials has a listener on each of them, and none of
\* them is over; no event it wants is queued beside it; each event of a dial
\* that goes on reaches one wait, unless a digit ended that wait as it began;
\* those who hear the end of a dial hear the same; and who is turned away by
\* that end left it to somebody who heard it (core/event-waiter-set.ts,
\* dials/dial-wait-service.ts, dials/dial-service.ts).
THEOREM DialWaitsIsSafe == DwSpec => []DialWaitsSafe
<1>1. DwInit => DwInv
  BY DwInitHolds, DialWaitsAssumption
<1>2. DwInv /\ [DwNext]_dwVars => DwInv'
  BY DwStepHolds, DialWaitsAssumption
<1>3. DwInv => DialWaitsSafe
  BY DialWaitsPromised, DialWaitsAssumption
<1>4. QED
  BY <1>1, <1>2, <1>3, PTL DEF DwSpec
=============================================================================
