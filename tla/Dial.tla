-------------------------------- MODULE Dial --------------------------------
(***************************************************************************)
(* One dial of the dial service (src/daemon/dials/dial-service.ts,         *)
(* dials/types.ts) with the legs of its attempts, as SIP signalling and    *)
(* the daemon drive it.                                                    *)
(*                                                                         *)
(* Attempt k is the k-th leg the dial created, so attemptLegIds is         *)
(* 1..started and its order the order of the numbers.  A leg that ended    *)
(* stays in the leg registry ("ending") until its asynchronous clean-up is *)
(* over ("gone"); hangupLeg returns silently on the first kind and throws  *)
(* on the second.  What a handler does before it throws stays done.        *)
(*                                                                         *)
(* Ending a leg calls dialService.handleAttemptLegEnded synchronously.     *)
(* Every handler of the dial gives up the attempt BEFORE it hangs the leg  *)
(* up, so that the call finds nothing but a winner's ticket to release.    *)
(***************************************************************************)
EXTENDS Naturals, FiniteSets

CONSTANTS MaxTargets, \* bound: targets of a dial
          MaxWaits    \* bound: dial.wait actions on it

ASSUME DialAssumption == MaxTargets \in Nat \ {0} /\ MaxWaits \in Nat

Attempts == 1..MaxTargets

VARIABLES
    strategy,  \* "none" until the dial is created
    timed,     \* sequentialAttemptTimeoutMs > 0
    targets,   \* number of targets
    started,   \* attempts started; the other targets are pending
    status,    \* dial.status
    finalized, \* dial.finalizedAt # null
    listed,    \* in the dial registry
    active,    \* activeAttemptLegIds
    held,      \* attempts with a ticket in attemptRetentions
    winner,    \* winnerLegId, 0 for null
    winnerHeld,\* attempts with a ticket in winnerLegRetentions
    gap,       \* gapTimer is armed
    timers,    \* attempts with an attemptTimeoutTimers entry
    leg,       \* the leg of an attempt
    sip,       \* the outbound SIP transaction of an attempt
    bridge,    \* the bridge's ticket on the leg of an attempt
    waiting,   \* a dial.wait holds a ticket on the dial
    waits      \* dial.wait actions so far

vars == <<strategy, timed, targets, started, status, finalized, listed, active,
          held, winner, winnerHeld, gap, timers, leg, sip, bridge, waiting, waits>>

plan == <<strategy, timed, targets>>
waiters == <<waiting, waits>>

Created == strategy # "none"
Pending == started < targets
Started == 1..started

TypeOK ==
    /\ strategy \in {"none", "parallel", "sequential"}
    /\ timed \in BOOLEAN
    /\ targets \in 0..MaxTargets
    /\ started \in 0..targets
    /\ status \in {"dialing", "answered", "failed"}
    /\ finalized \in BOOLEAN
    /\ listed \in BOOLEAN
    /\ active \subseteq Started
    /\ held \subseteq Started
    /\ winner \in 0..started
    /\ winnerHeld \subseteq Started
    /\ gap \in BOOLEAN
    /\ timers \subseteq Started
    /\ leg \in [Attempts -> {"none", "live", "ending", "gone"}]
    /\ sip \in [Attempts -> {"none", "starting", "inviting", "closed"}]
    /\ bridge \in [Attempts -> {"none", "held", "released"}]
    /\ waiting \in BOOLEAN
    /\ waits \in 0..MaxWaits

Init ==
    /\ strategy = "none" /\ timed = FALSE /\ targets = 0 /\ started = 0
    /\ status = "dialing" /\ finalized = FALSE /\ listed = FALSE
    /\ active = {} /\ held = {} /\ winner = 0 /\ winnerHeld = {}
    /\ gap = FALSE /\ timers = {}
    /\ leg = [l \in Attempts |-> "none"]
    /\ sip = [l \in Attempts |-> "none"]
    /\ bridge = [l \in Attempts |-> "none"]
    /\ waiting = FALSE /\ waits = 0

-----------------------------------------------------------------------------
(* What the handlers are made of.                                          *)

Live == {l \in Started : leg[l] = "live"}
Gone == {l \in Started : leg[l] = "gone"}
Dialing == listed /\ ~finalized

\* A loop in attempt order that hangs up S stops at the first leg that has
\* left the registry: it has dealt with that one and those before it.
Reached(S) == {l \in S : \A g \in S \cap Gone : l <= g}

\* hangupLeg on every leg of S; each one calls back into
\* handleAttemptLegEnded, which finds at most a winner's ticket.
EndLegs(S, tickets) ==
    /\ leg' = [l \in Attempts |-> IF l \in S \cap Live THEN "ending" ELSE leg[l]]
    /\ winnerHeld' = tickets \ (S \cap Live)

\* finalizeDial(.., "failed", ..) with the attempts lost already given up and
\* about to end: Dial.destroy, markFinalized, handleDialDestroy and, unless a
\* hangupLeg threw, detachFromRegistry.
FinalizeFailed(lost) ==
    LET rest == active \ lost IN
    /\ status' = "failed" /\ finalized' = TRUE
    /\ gap' = FALSE /\ timers' = {}
    /\ active' = rest \ Reached(rest)
    /\ held' = held \ (lost \cup Reached(rest))
    /\ EndLegs(lost \cup Reached(rest), winnerHeld)
    /\ listed' = (rest \cap Gone # {})

\* releaseAttemptOwnership and releaseAttemptRetention of l, and its end.
GiveUp(l) ==
    /\ active' = active \ {l}
    /\ held' = held \ {l}
    /\ timers' = timers \ {l}
    /\ EndLegs({l}, winnerHeld)

\* The common end of markAttemptRejected and handleAttemptLegEnded: other
\* attempts still ring; or the next target waits for the gap; or it is over.
Lose(l) ==
    \/ /\ active \ {l} # {}
       /\ GiveUp(l)
       /\ UNCHANGED <<status, finalized, listed, gap>>
    \/ /\ active \ {l} = {} /\ strategy = "sequential" /\ Pending
       /\ GiveUp(l)
       /\ gap' = TRUE
       /\ UNCHANGED <<status, finalized, listed>>
    \/ /\ active \ {l} = {} /\ ~(strategy = "sequential" /\ Pending)
       /\ FinalizeFailed({l})

\* Mutant: the winner gets no ticket when its attempt's ticket goes.
AnsweredWithoutTicket(l) ==
    /\ winner' = l /\ status' = "answered"
    /\ finalized' = TRUE /\ listed' = FALSE /\ gap' = FALSE /\ timers' = {}
    /\ active' = {} /\ held' = {}
    /\ EndLegs(Started \ {l}, winnerHeld)

\* markAttemptAnswered.  The loop over ALL earlier attempts meets the ones
\* that are long over, too: at the first leg that left the registry it throws
\* and finalizeDial("answered") is not reached.
Answered(l) ==
    LET losers == Started \ {l} IN
    /\ winner' = l
    /\ status' = "answered"
    /\ EndLegs(Reached(losers), winnerHeld \cup {l})
    /\ IF losers \cap Gone = {}
       THEN /\ finalized' = TRUE /\ listed' = FALSE
            /\ gap' = FALSE /\ timers' = {}
            /\ active' = {} /\ held' = held \ (losers \cup active)
       ELSE /\ active' = active \ Reached(losers)
            /\ held' = held \ Reached(losers)
            /\ timers' = timers \ {l}
            /\ UNCHANGED <<finalized, listed, gap>>

-----------------------------------------------------------------------------
(* Actions.                                                                *)

\* createDial: a parallel dial starts every attempt, a sequential one the
\* first; only a sequential one arms attempt timers.
CreateDial(s, n, t) ==
    LET first == IF s = "parallel" THEN 1..n ELSE {1} IN
    /\ ~Created
    /\ strategy' = s /\ targets' = n /\ timed' = t
    /\ listed' = TRUE
    /\ started' = Cardinality(first)
    /\ active' = first /\ held' = first
    /\ leg' = [l \in Attempts |-> IF l \in first THEN "live" ELSE "none"]
    /\ sip' = [l \in Attempts |-> IF l \in first THEN "starting" ELSE "none"]
    /\ timers' = IF s = "sequential" /\ t THEN first ELSE {}
    /\ UNCHANGED <<status, finalized, winner, winnerHeld, gap, bridge, waiters>>

\* The gap timer fires and startNextAttempt runs.
GapOver ==
    LET l == started + 1 IN
    /\ gap
    /\ gap' = FALSE
    /\ started' = l
    /\ active' = active \cup {l} /\ held' = held \cup {l}
    /\ leg' = [leg EXCEPT ![l] = "live"]
    /\ sip' = [sip EXCEPT ![l] = "starting"]
    /\ timers' = IF timed THEN timers \cup {l} ELSE timers
    /\ UNCHANGED <<plan, status, finalized, listed, winner, winnerHeld, bridge, waiters>>

\* The leg of an armed timer is in the leg registry (TimersHaveADial and
\* ActiveAttemptsOwned), so that hangupLeg does not throw here.
AttemptTimeout(l) ==
    /\ l \in timers
    /\ Dialing
    /\ Lose(l)
    /\ UNCHANGED <<plan, started, winner, sip, bridge, waiters>>

\* startAttempt sends the INVITE, unless the leg ended meanwhile.
Invite(l) ==
    /\ sip[l] = "starting"
    /\ sip' = [sip EXCEPT ![l] = IF leg[l] = "live" THEN "inviting" ELSE "closed"]
    /\ UNCHANGED <<plan, started, status, finalized, listed, active, held, winner,
                   winnerHeld, gap, timers, leg, bridge, waiters>>

\* No binding or no host for the target, a final 3xx-6xx response, or the
\* INVITE transaction times out, possibly after the leg ended or the dial was
\* finalized.  onAttemptRejected ignores legs that left the registry.
Refused(l) ==
    /\ sip[l] \in {"starting", "inviting"}
    /\ sip' = [sip EXCEPT ![l] = "closed"]
    /\ \/ /\ Dialing /\ l \notin Gone
          /\ Lose(l)
       \/ /\ Dialing => l \in Gone
          /\ EndLegs({l}, winnerHeld)
          /\ UNCHANGED <<status, finalized, listed, active, held, gap, timers>>
    /\ UNCHANGED <<plan, started, winner, bridge, waiters>>

\* startAttempt throws: the whole dial fails, whatever it has left to try.
StartupFails(l) ==
    /\ sip[l] = "starting"
    /\ sip' = [sip EXCEPT ![l] = "closed"]
    /\ Dialing
    /\ l \in active
    /\ FinalizeFailed({l})
    /\ UNCHANGED <<plan, started, winner, bridge, waiters>>

\* A 200 OK, or a retransmitted one, or one that crossed the CANCEL.
\* answerLeg throws before it reaches the dial if the leg left the registry.
Answer(l) ==
    /\ sip[l] = "inviting"
    /\ leg[l] \in {"live", "ending"}
    /\ Dialing
    /\ Answered(l)
    /\ UNCHANGED <<plan, started, sip, bridge, waiters>>

\* call.bridge retains the leg; completeBridgedDialAttempt counts a leg that
\* was not answered yet as the winner.
Bridge(l) ==
    /\ leg[l] = "live"
    /\ bridge[l] = "none"
    /\ bridge' = [bridge EXCEPT ![l] = "held"]
    /\ IF Dialing /\ winner = 0 /\ l \in active
       THEN Answered(l)
       ELSE UNCHANGED <<status, finalized, listed, active, held, winner,
                        winnerHeld, gap, timers, leg>>
    /\ UNCHANGED <<plan, started, sip, waiters>>

Unbridge(l) ==
    /\ bridge[l] = "held"
    /\ bridge' = [bridge EXCEPT ![l] = "released"]
    /\ UNCHANGED <<plan, started, status, finalized, listed, active, held, winner,
                   winnerHeld, gap, timers, leg, sip, waiters>>

\* The remote party or a workflow ends the leg.
LegEnds(l) ==
    /\ leg[l] = "live"
    /\ IF l \in active /\ Dialing
       THEN Lose(l)
       ELSE /\ EndLegs({l}, winnerHeld)
            /\ UNCHANGED <<status, finalized, listed, active, held, gap, timers>>
    /\ UNCHANGED <<plan, started, winner, sip, bridge, waiters>>

\* The asynchronous clean-up of a leg is over: it leaves the registry.
Detach(l) ==
    /\ leg[l] = "ending"
    /\ leg' = [leg EXCEPT ![l] = "gone"]
    /\ UNCHANGED <<plan, started, status, finalized, listed, active, held, winner,
                   winnerHeld, gap, timers, sip, bridge, waiters>>

BreakDial ==
    /\ Dialing
    /\ FinalizeFailed({})
    /\ UNCHANGED <<plan, started, winner, sip, bridge, waiters>>

\* Mutant: releasing the last ticket does not arm the timer again.
FreeTtlNotRearmed ==
    /\ Dialing
    /\ waits = 0
    /\ FinalizeFailed({})
    /\ UNCHANGED <<plan, started, winner, sip, bridge, waiters>>

\* Nobody waits on the dial: its free-TTL timer fires.
FreeTtl ==
    /\ Dialing
    /\ ~waiting
    /\ FinalizeFailed({})
    /\ UNCHANGED <<plan, started, winner, sip, bridge, waiters>>

\* dial.wait holds a ticket on the dial while it waits; it always ends, by an
\* event or by its own timeout.
WaitBegins ==
    /\ listed /\ ~waiting
    /\ waits < MaxWaits
    /\ waiting' = TRUE /\ waits' = waits + 1
    /\ UNCHANGED <<plan, started, status, finalized, listed, active, held, winner,
                   winnerHeld, gap, timers, leg, sip, bridge>>

WaitEnds ==
    /\ waiting
    /\ waiting' = FALSE
    /\ UNCHANGED <<plan, started, status, finalized, listed, active, held, winner,
                   winnerHeld, gap, timers, leg, sip, bridge, waits>>

Next ==
    \/ \E s \in {"parallel", "sequential"}, n \in 1..MaxTargets, t \in BOOLEAN :
        CreateDial(s, n, t)
    \/ GapOver
    \/ \E l \in Started :
        \/ AttemptTimeout(l)
        \/ Invite(l)
        \/ Refused(l)
        \/ StartupFails(l)
        \/ Answer(l)
        \/ Bridge(l)
        \/ Unbridge(l)
        \/ LegEnds(l)
        \/ Detach(l)
    \/ BreakDial
    \/ FreeTtl
    \/ WaitBegins
    \/ WaitEnds

\* Timers fire, a wait ends by its timeout.  No remote party has to answer,
\* reject or hang up, and no workflow has to do anything.
Fairness == WF_vars(GapOver) /\ WF_vars(FreeTtl) /\ WF_vars(WaitEnds)

Spec == Init /\ [][Next]_vars /\ Fairness
-----------------------------------------------------------------------------
(* Properties.                                                             *)

\* An attempt is active exactly while the dial holds a ticket on its leg and
\* the leg lives: no teardown meets a leg that left the registry, where
\* hangupLeg would throw and leave the dial in its registry for ever
\* (dial-service.ts:319-328), and no leg is kept by a forgotten ticket.
ActiveAttemptsOwned ==
    /\ held = active
    /\ active \subseteq Live
    /\ Created => (listed <=> ~finalized)

\* Whatever order answers, rejections, timeouts and hangups come in, a leg
\* that rings or talks has an owner: its attempt, or the ticket it won.
LiveLegsOwned == Live \subseteq held \cup winnerHeld

\* A finalized dial leaves no attempt behind: the only leg it may leave alive
\* is the winner of an answered dial.
NoOrphanAttempt ==
    finalized => \A l \in Live : status = "answered" /\ l = winner

\* A sequential dial rings one target at a time, and none during the gap.
OneAtATime ==
    strategy = "sequential" =>
        /\ Cardinality(active) <= 1
        /\ gap => active = {} /\ Pending

\* No timer outlives the dial, where its callback would throw in requireDial
\* with nobody to catch it (dial-service.ts:274-276), and an attempt timer
\* runs only for an attempt that still counts.
TimersHaveADial ==
    /\ gap \/ timers # {} => Dialing
    /\ timers \subseteq active

\* A dial that nobody answered and that is not over has an attempt ringing or
\* its next one coming: no order of losses leaves it with neither.
NeverStuck == Dialing /\ winner = 0 => active # {} \/ gap

\* A dial ends, whatever the remote parties do: nobody waits for ever, and
\* then its free TTL ends it.
DialEnds == []<>~listed

\* Contradicted by the code: the dial that took the answer hands the winner
\* over "from the dial attempt to the live call lifecycle"
\* (dial-service.ts:141-142) and does not end it when it is itself reaped.
WinnerIsHandedOver ==
    [][FreeTtl /\ winner \in Live => leg'[winner] = "live"]_vars

\* What a dial keeps in every state, of its attempts, tickets, legs and timers.
DialSafe ==
    /\ TypeOK
    /\ ActiveAttemptsOwned /\ LiveLegsOwned /\ NoOrphanAttempt
    /\ OneAtATime /\ TimersHaveADial /\ NeverStuck
=============================================================================
