-------------------------------- MODULE Queue --------------------------------
(***************************************************************************)
(* The call queue (src/daemon/queue/queue-service.ts, queue/types.ts,      *)
(* queue/queue-entry-registry.ts) of one workflow, with what decides when  *)
(* an operator is free: the extensions' registrations and calls            *)
(* (signaling/extensions/extension-host.ts), the queue's own dials         *)
(* (Dial.tla has their detail) and the callers' legs.                      *)
(*                                                                         *)
(* An entry dispatches a dial to every extension that is free and not      *)
(* reserved by another entry's dial.  If none is, it waits WITHOUT a       *)
(* timer, until refreshWorkflowScope arms the timers of all idle entries.  *)
(*                                                                         *)
(* Data left out: which trunk and caller number an entry belongs to        *)
(* (rejoining is a choice), the order of the entries, statistics, the      *)
(* endpoints of an extension (it has one).                                 *)
(***************************************************************************)
EXTENDS Naturals, FiniteSets

CONSTANTS Leg,        \* inbound trunk legs: the callers
          Callback,   \* bound: those for which a callback is asked
          Entry,      \* queue entries, used again once removed
          DialId,     \* bound: queue dials that are not finalized
          Extensions, \* number of extensions of the queue
          Fixed,      \* bound: those that stay registered and call nobody
          Sequential, \* bound: the entries whose callStrategy is sequential
          RetryAttempts, \* retry budget of an entry
          None

ASSUME QueueAssumption ==
    /\ Extensions \in Nat /\ RetryAttempts \in Nat
    /\ Fixed \subseteq 1..Extensions
    /\ Sequential \subseteq Entry /\ Callback \subseteq Leg
    /\ None \notin Leg \cup Entry \cup DialId

Ext == 1..Extensions

VARIABLES
    leg,     \* the callers' legs
    entry,   \* the registered entries
    byLeg,   \* activeEntryIdByLeg
    timer,   \* entries with a branch timer that will fire
    dial,    \* the unfinalized queue dials and their attempts
    talking, \* extensions with a live leg beside those of unfinalized dials
    registered, \* extensions with a binding
    cleanup  \* onLegEnded of an extension's leg has yet to refresh the queue

vars == <<leg, entry, byLeg, timer, dial, talking, registered, cleanup>>
queue == <<entry, byLeg, timer>>
operators == <<talking, registered>>

\* A leg that ended stays registered ("ending") until its clean-up is over
\* ("gone"); enqueueLeg writes "queued" over the status "ended" ("revived").
Phase == {"live", "ending", "revived", "gone"}

EntryState ==
    [state : {"absent", "idle", "dispatching"}, mode : {"live", "callback"},
     leg : Leg \cup {None}, callbackEnabled : BOOLEAN,
     dispatchedDial : DialId \cup {None}, reserved : SUBSET Ext,
     retriesLeft : 0..RetryAttempts, paused : BOOLEAN, retention : BOOLEAN,
     placed : BOOLEAN]

\* An attempt of a dial: not tried yet, its leg alive, ended, or unregistered.
DialState ==
    [on : BOOLEAN, sequential : BOOLEAN,
     attempt : [Ext -> {"no", "pending", "live", "ending", "gone"}]]

Absent ==
    [state |-> "absent", mode |-> "live", leg |-> None, callbackEnabled |-> FALSE,
     dispatchedDial |-> None, reserved |-> {},
     retriesLeft |-> 0, paused |-> FALSE, retention |-> FALSE, placed |-> FALSE]

NoDial == [on |-> FALSE, sequential |-> FALSE, attempt |-> [x \in Ext |-> "no"]]

TypeOK ==
    /\ leg \in [Leg -> Phase]
    /\ entry \in [Entry -> EntryState]
    /\ byLeg \in [Leg -> Entry \cup {None}]
    /\ timer \subseteq Entry
    /\ dial \in [DialId -> DialState]
    /\ talking \subseteq Ext
    /\ registered \subseteq Ext
    /\ cleanup \in BOOLEAN

Init ==
    /\ leg = [l \in Leg |-> "live"]
    /\ entry = [e \in Entry |-> Absent]
    /\ byLeg = [l \in Leg |-> None]
    /\ timer = {}
    /\ dial = [d \in DialId |-> NoDial]
    /\ talking = {}
    /\ registered = Fixed
    /\ cleanup = FALSE

-----------------------------------------------------------------------------
(* Entries.                                                                *)

Listed == {e \in Entry : entry[e].state # "absent"}
Idle == {e \in Entry : entry[e].state = "idle"}
Dispatching == {e \in Entry : entry[e].state = "dispatching"}
Owner(d) == {e \in Entry : entry[e].dispatchedDial = d}
With(d, state) == {x \in Ext : dial[d].attempt[x] = state}

\* refreshWorkflowScope: every entry that does not dispatch is scheduled; one
\* that pauses, for the end of its pause.
Refresh == timer' = timer \cup Idle

\* Removed from the registry and the index, its ticket released.
RemoveEntry(e) ==
    /\ entry' = [entry EXCEPT ![e] = Absent]
    /\ byLeg' = [l \in Leg |-> IF l = entry[e].leg /\ byLeg[l] = e THEN None ELSE byLeg[l]]

\* endEntry, its dial apart.
EndEntry(e) == RemoveEntry(e) /\ timer' = timer \ {e}

ToIdle(q) == [q EXCEPT !.state = "idle", !.dispatchedDial = None, !.reserved = {}]

\* toCallback, and the pause retryEntry puts before its next dispatch.
ToCallback(q) ==
    [ToIdle(q) EXCEPT !.mode = "callback", !.paused = TRUE, !.retention = FALSE]

\* An entry whose dial failed: announced as placed once, and it pauses.
Retry(q) ==
    [ToIdle(q) EXCEPT !.retriesLeft = q.retriesLeft - 1, !.paused = TRUE,
                      !.placed = (q.placed \/ q.mode = "live")]

\* The dial d of an entry leaves its registry and hangs its attempts up; the
\* legs still to be cleaned up refresh the queue later.
CloseDial(d) ==
    /\ dial' = [dial EXCEPT ![d] = NoDial]
    /\ cleanup' = (cleanup \/ With(d, "live") \cup With(d, "ending") # {})

\* abortActiveDial: the entry gives the dial up BEFORE it breaks it, so that
\* handleDialFinalized finds nobody to retry for.
AbortDial(e) ==
    IF entry[e].dispatchedDial = None
    THEN UNCHANGED <<dial, cleanup>>
    ELSE CloseDial(entry[e].dispatchedDial)

\* finalizeDial(.., "failed") and handleDialFinalized: a dial no entry knows
\* tells nobody; an entry without retries left ends as offline; the others
\* are announced as placed and pause.
DialFailed(d) ==
    /\ CloseDial(d)
    /\ \/ Owner(d) = {} /\ UNCHANGED queue
       \/ \E e \in Owner(d) : entry[e].retriesLeft = 0 /\ EndEntry(e)
       \/ \E e \in Owner(d) :
            /\ entry[e].retriesLeft > 0
            /\ entry' = [entry EXCEPT ![e] = Retry(@)]
            /\ timer' = timer \cup {e}
            /\ UNCHANGED byLeg

-----------------------------------------------------------------------------
(* Callers.                                                                *)

\* The leg of a new entry or of the entry that is rejoined.
Bind(l, e) ==
    /\ byLeg[l] = None
    /\ leg[l] \in {"live", "ending", "revived"}
    /\ byLeg' = [m \in Leg |-> IF m = l THEN e ELSE IF byLeg[m] = e THEN None ELSE byLeg[m]]
    /\ timer' = timer \cup {e}
    /\ leg' = [leg EXCEPT ![l] = IF @ = "live" THEN @ ELSE "revived"]

EnqueueLeg(l) ==
    \E e \in Entry \ Listed :
        /\ Bind(l, e)
        /\ entry' = [entry EXCEPT ![e] =
               [Absent EXCEPT !.state = "idle", !.leg = l,
                              !.retriesLeft = RetryAttempts, !.retention = TRUE]]
        /\ UNCHANGED <<dial, operators, cleanup>>

\* enqueueLeg for a caller whose earlier leg ended: toRejoined drops the
\* entry's dial and its reservations, but does not break the dial.
Rejoin(l) ==
    \E e \in Listed :
        /\ leg[entry[e].leg] \in {"ending", "gone"}
        /\ Bind(l, e)
        /\ entry' = [entry EXCEPT ![e] =
               [ToIdle(@) EXCEPT !.leg = l, !.mode = "live", !.retriesLeft = RetryAttempts,
                                 !.paused = FALSE, !.retention = TRUE, !.placed = FALSE]]
        /\ UNCHANGED <<dial, operators, cleanup>>

SetQueueCallback(l, enabled) ==
    /\ l \in Callback
    /\ byLeg[l] # None
    /\ entry' = [entry EXCEPT ![byLeg[l]].callbackEnabled = enabled]
    /\ UNCHANGED <<leg, byLeg, timer, dial, operators, cleanup>>

\* Mutant: the entry ends but its dial goes on.
LegEndsDialStays(l) ==
    /\ leg[l] = "live"
    /\ leg' = [leg EXCEPT ![l] = "ending"]
    /\ IF byLeg[l] = None THEN UNCHANGED queue ELSE EndEntry(byLeg[l])
    /\ UNCHANGED <<dial, cleanup, operators>>

\* removeEntryForLeg, called when the leg of a caller ends.
LegEnds(l) ==
    LET e == byLeg[l] IN
    /\ leg[l] = "live"
    /\ leg' = [leg EXCEPT ![l] = "ending"]
    /\ UNCHANGED operators
    /\ \/ e = None /\ UNCHANGED <<queue, dial, cleanup>>
       \/ /\ e # None
          /\ AbortDial(e)
          /\ IF entry[e].callbackEnabled /\ entry[e].mode = "live"
             THEN /\ entry' = [entry EXCEPT ![e] = ToCallback(@)]
                  /\ timer' = timer \cup {e}
                  /\ UNCHANGED byLeg
             ELSE EndEntry(e)

Detach(l) ==
    /\ leg[l] \in {"ending", "revived"}
    /\ leg' = [leg EXCEPT ![l] = "gone"]
    /\ UNCHANGED <<queue, dial, operators, cleanup>>

-----------------------------------------------------------------------------
(* The branch timer.                                                       *)

PauseOver(e) ==
    /\ entry[e].paused
    /\ entry' = [entry EXCEPT ![e].paused = FALSE]
    /\ UNCHANGED <<leg, byLeg, timer, dial, operators, cleanup>>

Busy == {x \in Ext : x \in talking \/ \E d \in DialId : x \in With(d, "live")}
Reserved == UNION {entry[e].reserved : e \in Dispatching}

\* Mutant: what the other entries reserved is not subtracted.
FreeIgnoresReserved(online) == online \ Busy

\* The extensions a dial may try, of those that are online.
Free(online) == online \ (Busy \cup Reserved)

\* makeDial and toDispatching.
Dispatch(e, d, free) ==
    LET sequential == e \in Sequential
        First(x) == ~sequential \/ \A y \in free : x <= y
    IN
    /\ free # {}
    /\ ~dial[d].on
    /\ dial' = [dial EXCEPT ![d] =
           [on |-> TRUE, sequential |-> sequential,
            attempt |-> [x \in Ext |-> IF x \notin free THEN "no"
                                       ELSE IF First(x) THEN "live" ELSE "pending"]]]
    /\ entry' = [entry EXCEPT ![e] =
           [@ EXCEPT !.state = "dispatching", !.dispatchedDial = d,
                     !.reserved = free, !.paused = FALSE]]
    /\ UNCHANGED byLeg

\* Mutant: nobody is free, and the entry waits without saying so.
WaitSilently(e, rearmed) ==
    /\ timer' = (timer \ {e}) \cup rearmed
    /\ UNCHANGED <<entry, byLeg, dial>>

\* Nobody is free: the caller is announced as placed, once, and waits.
Wait(e, rearmed) ==
    /\ timer' = (timer \ {e}) \cup rearmed
    /\ entry' = [entry EXCEPT ![e].placed = (@ \/ entry[e].mode = "live")]
    /\ UNCHANGED <<byLeg, dial>>

\* scheduleEntryBranch's callback and publishEntryBranch.  Looking the
\* extensions up sweeps those whose registration expired meanwhile; sweeping
\* refreshes the queue, this entry included.  A timer it armed for an entry
\* that dispatches now does nothing, and is replaced when the entry is idle
\* again: it is left out.
TimerFires(e) ==
    /\ e \in timer /\ ~entry[e].paused
    /\ \E online \in {o \in SUBSET registered : Fixed \subseteq o} :
        LET rearmed == IF online # registered THEN Idle ELSE {} IN
        /\ registered' = online
        /\ \/ /\ online = {}
              /\ RemoveEntry(e)
              /\ timer' = (timer \cup rearmed) \ {e}
              /\ UNCHANGED dial
           \/ online # {} /\ Free(online) = {} /\ Wait(e, rearmed)
           \/ /\ \E d \in DialId : Dispatch(e, d, Free(online))
              /\ timer' = (timer \cup rearmed) \ {e}
    /\ UNCHANGED <<leg, talking, cleanup>>

-----------------------------------------------------------------------------
(* Queue dials.  See Dial.tla; here an attempt is its extension.           *)

NextAttempt(d) ==
    /\ dial[d].on /\ dial[d].sequential
    /\ With(d, "live") = {}
    /\ \E x \in With(d, "pending") :
        /\ \A y \in With(d, "pending") : x <= y
        /\ dial' = [dial EXCEPT ![d].attempt[x] = "live"]
    /\ UNCHANGED <<leg, queue, operators, cleanup>>

\* The extension rejects, does not answer in time, or hangs up.
AttemptLost(d, x) ==
    /\ x \in With(d, "live")
    /\ IF With(d, "live") # {x} \/ (dial[d].sequential /\ With(d, "pending") # {})
       THEN /\ dial' = [dial EXCEPT ![d].attempt[x] = "ending"]
            /\ UNCHANGED <<queue, cleanup>>
       ELSE DialFailed(d)
    /\ UNCHANGED <<leg, operators>>

AttemptCleanedUp(d, x) ==
    /\ x \in With(d, "ending")
    /\ dial' = [dial EXCEPT ![d].attempt[x] = "gone"]
    /\ Refresh
    /\ UNCHANGED <<leg, entry, byLeg, operators, cleanup>>

\* The answer finalizes the dial, which takes the entry out of the queue; but
\* if an earlier attempt left the leg registry it hangs up the losers before
\* that one only and the dial goes on (markAttemptAnswered throws).
Answer(d, x) ==
    /\ x \in With(d, "live")
    /\ \/ /\ With(d, "gone") = {}
          /\ talking' = talking \cup {x}
          /\ dial' = [dial EXCEPT ![d] = NoDial]
          /\ cleanup' = (cleanup \/ (With(d, "live") \cup With(d, "ending")) # {x})
          /\ \/ Owner(d) = {} /\ UNCHANGED queue
             \/ \E e \in Owner(d) : EndEntry(e)
       \/ /\ With(d, "gone") # {}
          /\ dial' = [dial EXCEPT ![d].attempt = [y \in Ext |->
                 IF y \in With(d, "live") \ {x} /\ \A g \in With(d, "gone") : y < g
                 THEN "ending" ELSE @[y]]]
          /\ UNCHANGED <<queue, talking, cleanup>>
    /\ UNCHANGED <<leg, registered>>

\* dial.break, a failure to start, or the free TTL of the dial.
DialOver(d) ==
    /\ dial[d].on
    /\ DialFailed(d)
    /\ UNCHANGED <<leg, operators>>

-----------------------------------------------------------------------------
(* Extensions.                                                             *)

Register(x) ==
    /\ x \notin Fixed
    /\ registered' = registered \cup {x}
    /\ Refresh
    /\ UNCHANGED <<leg, entry, byLeg, dial, talking, cleanup>>

\* REGISTER with expiry 0, or the trigger closed and its grace is over.
Unregister(x) ==
    /\ x \in registered \ Fixed
    /\ registered' = registered \ {x}
    /\ Refresh
    /\ UNCHANGED <<leg, entry, byLeg, dial, talking, cleanup>>

\* emitInboundInvite: the extension calls somebody.
OwnCall(x) ==
    /\ x \notin Fixed
    /\ talking' = talking \cup {x}
    /\ Refresh
    /\ UNCHANGED <<leg, entry, byLeg, dial, registered, cleanup>>

\* A call of an extension ends; it may have had another one.
CallEnds(x) ==
    /\ x \in talking
    /\ talking' \in {talking, talking \ {x}}
    /\ cleanup' = TRUE
    /\ UNCHANGED <<leg, queue, dial, registered>>

\* The asynchronous part of onLegEnded reaches refreshWorkflowScope for one
\* of the extension legs that ended; more may be outstanding.
CleanedUp ==
    /\ cleanup
    /\ cleanup' \in BOOLEAN
    /\ Refresh
    /\ UNCHANGED <<leg, entry, byLeg, dial, operators>>

Next ==
    \/ \E l \in Leg :
        \/ EnqueueLeg(l)
        \/ Rejoin(l)
        \/ \E b \in BOOLEAN : SetQueueCallback(l, b)
        \/ LegEnds(l)
        \/ Detach(l)
    \/ \E e \in Entry : PauseOver(e) \/ TimerFires(e)
    \/ \E d \in DialId :
        \/ NextAttempt(d)
        \/ \E x \in Ext : AttemptLost(d, x) \/ AttemptCleanedUp(d, x) \/ Answer(d, x)
        \/ DialOver(d)
    \/ \E x \in Ext :
        Register(x) \/ Unregister(x) \/ OwnCall(x) \/ CallEnds(x)
    \/ CleanedUp

\* Timers fire, pauses end and nobody keeps a queue dial for ever.  No caller
\* and no operator has to do anything.
Fairness ==
    /\ \A e \in Entry : WF_vars(PauseOver(e)) /\ WF_vars(TimerFires(e))
    /\ \A d \in DialId : WF_vars(DialOver(d))
    /\ WF_vars(CleanedUp)

Spec == Init /\ [][Next]_vars /\ Fairness
-----------------------------------------------------------------------------
(* Properties.                                                             *)

\* No two dispatching entries reserve the same extension, whatever comes
\* between the look-up of the free extensions and the end of a dial.
ReservedOnce ==
    \A e, f \in Dispatching : e # f => entry[e].reserved \cap entry[f].reserved = {}

\* An entry dispatches exactly while its dial, and nobody else's, is under
\* way, and reserves the extensions this dial tries: none stays dispatching
\* after its dial, where no refresh reaches it (queue-service.ts:257-259).
DispatchingHasADial ==
    \A e \in Entry :
        /\ e \in Dispatching <=> entry[e].dispatchedDial # None
        /\ e \in Dispatching =>
            LET d == entry[e].dispatchedDial IN
            /\ dial[d].on /\ Owner(d) = {e}
            /\ entry[e].reserved = {x \in Ext : dial[d].attempt[x] # "no"}

\* The queue retains a leg exactly for the entries of callers on the line:
\* a callback entry and a removed one hold no ticket.
RetainedWhileLive ==
    \A e \in Entry : entry[e].retention <=> e \in Listed /\ entry[e].mode = "live"

\* The index finds every entry by the leg it belongs to, and only by that,
\* through rejoining under another leg and removal.
IndexConsistent ==
    \A l \in Leg, e \in Entry : byLeg[l] = e <=> e \in Listed /\ entry[e].leg = l

\* A caller waits without a timer only after the workflow was told so: an
\* entry that was enqueued, rejoined or refused is never just forgotten.
WaitingWasAnnounced ==
    \A e \in Idle \ timer :
        /\ ~entry[e].paused
        /\ entry[e].mode = "live" => entry[e].placed

\* A queue dial loses its entry only when it ends, or when the caller rejoins
\* while it rings (the dial then goes on with no entry to serve).
DialKeepsItsEntry ==
    [][\A d \in DialId : \A e \in Owner(d) :
        \/ entry'[e].dispatchedDial = d
        \/ ~dial'[d].on
        \/ entry'[e].leg # entry[e].leg /\ entry'[e].leg \in Leg]_vars

\* No entry dispatches for ever: answered, refused or abandoned, its dial
\* comes to an end and the entry learns of it.
DispatchEnds == \A e \in Entry : []<>(e \notin Dispatching)

\* A caller put into the queue hears of it: an operator is dialled, the
\* workflow is told "placed", or the entry is removed.
CallerHearsOfIt ==
    \A e \in Entry :
        []<>(e \in Listed /\ entry[e].mode = "live" => e \in Dispatching \/ entry[e].placed)

\* What the queue keeps in every state, of its entries, index, tickets,
\* reservations and dials.
QueueSafe ==
    /\ TypeOK
    /\ ReservedOnce /\ DispatchingHasADial /\ RetainedWhileLive
    /\ IndexConsistent /\ WaitingWasAnnounced

\* The queue serves its callers: no dispatch is endless, nobody is forgotten.
CallersAreServed == DispatchEnds /\ CallerHearsOfIt
=============================================================================
