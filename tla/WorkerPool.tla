------------------------------ MODULE WorkerPool ------------------------------
(* The media service's pool of worker threads (media/media-service.ts): which *)
(* worker carries the media of a leg.  Legs are placed on the least loaded    *)
(* worker, moved to the worker of the leg they are bridged with, and taken    *)
(* away when they end; a worker without legs is shut down; a worker may die   *)
(* at any moment, and its exit is told later.  Everything that awaits inside  *)
(* the lock of a leg is the leg's task.                                       *)
EXTENDS Integers, FiniteSets

CONSTANTS Legs,         \* the legs
          Workers,      \* worker ids in order of creation, a bound on their number
          MaxWorkers,   \* MEDIA_EXECUTION_MAX_WORKER_COUNT
          MaxFaults     \* bound on the workers that die and the commands refused

ASSUME PoolAssumption == Workers \subseteq Nat \ {0} /\ MaxWorkers \in Nat \ {0} /\ MaxFaults \in Nat

VARIABLES
    worker,     \* unused, up, being shut down, dead with its exit untold (fading:
                \* and out of the pool), gone
    known,      \* the snapshots its control plane holds: its endpoints
    hosts,      \* the legs the thread itself has
    assigned,   \* legAssignments
    callState,  \* new, live, ended, removed
    socket,     \* the leg's transport attachment
    bound,      \* the worker the attachment delivers to
    task,       \* what holds the leg's lock
    closing,    \* legs whose transport was told closed, waiting for the lock
    reap,       \* workers with a reap timer
    faults,     \* workers that died, commands refused
    wpFlaws     \* what went wrong, with whom

wpVars == <<worker, known, hosts, assigned, callState, socket, bound, task, closing, reap, faults,
            wpFlaws>>

None == 0
Idle == [do |-> "idle", w |-> None, to |-> None]
Doing(what, w, to) == [do |-> what, w |-> w, to |-> to]
Free(l) == task[l].do = "idle"
InPool(w) == worker[w] \in {"up", "dead"}
Answers(w) == worker[w] \in {"up", "leaving"}

WpInit ==
    /\ worker = [w \in Workers |-> "unused"]
    /\ known = [w \in Workers |-> {}] /\ hosts = [w \in Workers |-> {}]
    /\ assigned = [l \in Legs |-> None] /\ callState = [l \in Legs |-> "new"]
    /\ socket = [l \in Legs |-> "none"] /\ bound = [l \in Legs |-> None]
    /\ task = [l \in Legs |-> Idle]
    /\ closing = {} /\ reap = {} /\ faults = 0 /\ wpFlaws = {}

Flawed(why, case, who) == wpFlaws' = wpFlaws \cup (IF case THEN {<<why, who>>} ELSE {})
Does(l, what, w, to) == task' = [task EXCEPT ![l] = Doing(what, w, to)]
Ends(l) == task' = [task EXCEPT ![l] = Idle]

\* findWorkerByLegId; an assignment that leads nowhere is dropped on the way.
Find(l) == IF assigned[l] # None /\ InPool(assigned[l]) /\ l \in known[assigned[l]]
           THEN assigned[l] ELSE None

-----------------------------------------------------------------------------
(* Placing a leg.                                                            *)

Load(w) == Cardinality(known[w])
Pool == {w \in Workers : InPool(w)}
LeastLoaded == {w \in Pool : \A v \in Pool : Load(w) =< Load(v)}
Fresh == {w \in Workers : worker[w] = "unused" /\ \A v \in Workers : v < w => worker[v] # "unused"}

\* selectWorkerForNewLeg: an idle worker (that of a leg of the same dial or
\* extension first), a new one while there is room, the least loaded.
Selected ==
    IF \E w \in Pool : Load(w) = 0 THEN {w \in Pool : Load(w) = 0}
    ELSE IF Cardinality(Pool) < MaxWorkers THEN Fresh
    ELSE LeastLoaded

LegArrives(l) ==
    /\ callState[l] = "new" /\ callState' = [callState EXCEPT ![l] = "live"]
    /\ UNCHANGED <<worker, known, hosts, assigned, socket, bound, task, closing, reap, faults,
                   wpFlaws>>

\* ensureWorkerForLeg, for the start-up of the leg and every command after it,
\* up to the configuration of the attachment.
EnsureBegins(l) ==
    /\ Free(l) /\ callState[l] = "live"
    /\ socket' = [socket EXCEPT ![l] = "open"]
    /\ Does(l, "configuring", None, None)
    /\ UNCHANGED <<worker, known, hosts, assigned, callState, bound, closing, reap, faults, wpFlaws>>

\* The worker is looked up or chosen, and sent EnsureEndpoint.
EnsureAsks(l, w) ==
    /\ task[l].do = "configuring"
    /\ w \in (IF Find(l) # None THEN {Find(l)} ELSE Selected)
    /\ worker' = [worker EXCEPT ![w] = IF @ = "unused" THEN "up" ELSE @]
    /\ assigned' = [assigned EXCEPT ![l] = Find(l)]
    /\ reap' = reap \ {w}
    /\ Does(l, "ensuring", w, None)
    /\ UNCHANGED <<known, hosts, callState, socket, bound, closing, faults, wpFlaws>>

\* The answer.  A worker that was found empty in the meantime answers, and is
\* shut down with the leg it was just given.
LegEnsured(l) ==
    LET w == task[l].w IN
    /\ task[l].do = "ensuring" /\ Answers(w)
    /\ hosts' = [hosts EXCEPT ![w] = @ \cup {l}] /\ known' = [known EXCEPT ![w] = @ \cup {l}]
    /\ assigned' = [assigned EXCEPT ![l] = w] /\ bound' = [bound EXCEPT ![l] = w]
    /\ Flawed("reaped", worker[w] = "leaving", l)
    /\ Ends(l)
    /\ UNCHANGED <<worker, callState, socket, closing, reap, faults>>

\* The worker refuses: its leg may have been made all the same, and the
\* worker's reap timer is gone.
EnsureFails(l, made) ==
    LET w == task[l].w IN
    /\ task[l].do = "ensuring" /\ Answers(w) /\ faults < MaxFaults /\ l \notin known[w]
    /\ faults' = faults + 1
    /\ hosts' = [hosts EXCEPT ![w] = IF made THEN @ \cup {l} ELSE @]
    /\ Flawed("ghost", made, l)
    /\ Ends(l)
    /\ UNCHANGED <<worker, known, assigned, callState, socket, bound, closing, reap>>

-----------------------------------------------------------------------------
(* Taking a leg away.                                                        *)

Hangup(l) ==
    /\ callState[l] = "live" /\ callState' = [callState EXCEPT ![l] = "ended"]
    /\ UNCHANGED <<worker, known, hosts, assigned, socket, bound, task, closing, reap, faults,
                   wpFlaws>>

\* handleTransportClosed, once it has the lock.
HandleTransportClosed(l) ==
    /\ l \in closing /\ Free(l) /\ closing' = closing \ {l}
    /\ callState' = [callState EXCEPT ![l] = IF @ = "live" THEN "ended" ELSE @]
    /\ UNCHANGED <<worker, known, hosts, assigned, socket, bound, task, reap, faults, wpFlaws>>

\* removeLeg of a leg that ended, or removeIfIdle.
RemoveBegins(l) ==
    /\ Free(l) /\ callState[l] = "ended" /\ callState' = [callState EXCEPT ![l] = "removed"]
    /\ assigned' = [assigned EXCEPT ![l] = Find(l)]
    /\ IF Find(l) = None
       THEN socket' = [socket EXCEPT ![l] = "closed"] /\ UNCHANGED task
       ELSE Does(l, "removing", Find(l), None) /\ UNCHANGED socket
    /\ UNCHANGED <<worker, known, hosts, bound, closing, reap, faults, wpFlaws>>

\* RemoveEndpoint is answered; the socket is being closed.
Removed(l) ==
    LET w == task[l].w IN
    /\ task[l].do = "removing" /\ Answers(w)
    /\ hosts' = [hosts EXCEPT ![w] = @ \ {l}] /\ known' = [known EXCEPT ![w] = @ \ {l}]
    /\ assigned' = [assigned EXCEPT ![l] = None]
    /\ Does(l, "closing", w, None)
    /\ UNCHANGED <<worker, callState, socket, bound, closing, reap, faults, wpFlaws>>

\* A plausible mistake: a worker that has legs is taken for empty.
ReapsBusy(w) == InPool(w)

\* removeWorkerIfEmpty: the worker leaves the pool before it is shut down.
Reapable(w) == InPool(w) /\ known[w] = {}
Leave(w) == [worker EXCEPT ![w] = IF @ = "up" THEN "leaving" ELSE "fading"]

CloseDone(l) ==
    LET w == task[l].w IN
    /\ task[l].do = "closing"
    /\ socket' = [socket EXCEPT ![l] = "closed"]
    /\ IF Reapable(w)
       THEN worker' = Leave(w) /\ reap' = reap \ {w} /\ Does(l, "shutting", w, None)
       ELSE /\ reap' = IF InPool(w) THEN reap \cup {w} ELSE reap \ {w}
            /\ Ends(l) /\ UNCHANGED worker
    /\ UNCHANGED <<known, hosts, assigned, callState, bound, closing, faults, wpFlaws>>

ReapTimerFires(w) ==
    /\ w \in reap /\ reap' = reap \ {w}
    /\ worker' = IF Reapable(w) THEN Leave(w) ELSE worker
    /\ UNCHANGED <<known, hosts, assigned, callState, socket, bound, task, closing, faults, wpFlaws>>

-----------------------------------------------------------------------------
(* Moving a leg to the worker of its peer.                                   *)

Peers(l) == {p \in Legs \ {l} : Find(p) # None /\ Find(l) # None /\ Find(p) # Find(l)}

\* migrateLeg, asked for by colocateBridgeLegs.
MigrateBegins(l, p) ==
    /\ Free(l) /\ callState[l] = "live" /\ p \in Peers(l) /\ socket[l] = "open"
    /\ reap' = reap \ {Find(l), Find(p)}
    /\ Does(l, "exporting", Find(l), Find(p))
    /\ UNCHANGED <<worker, known, hosts, assigned, callState, socket, bound, closing, faults, wpFlaws>>

\* A command to a worker that was told to shut down, or whose exit was told
\* already, is never answered: the leg's lock is held for ever.
Asks(l, what, to, w, v) ==
    /\ Does(l, IF worker[to] \in {"leaving", "gone"} THEN "hung" ELSE what, w, v)
    /\ Flawed("hung", worker[to] \in {"leaving", "gone"}, l)

\* The state is exported; the target is asked to take it.
Exported(l) ==
    LET w == task[l].w v == task[l].to IN
    /\ task[l].do = "exporting" /\ Answers(w)
    /\ Asks(l, "accepting", v, w, v)
    /\ UNCHANGED <<worker, known, hosts, assigned, callState, socket, bound, closing, reap, faults>>

\* The target has the leg: the attachment delivers to it, and the source is
\* told to forget the leg.
Accepted(l) ==
    LET w == task[l].w v == task[l].to IN
    /\ task[l].do = "accepting" /\ Answers(v)
    /\ hosts' = [hosts EXCEPT ![v] = @ \cup {l}] /\ known' = [known EXCEPT ![v] = @ \cup {l}]
    /\ bound' = [bound EXCEPT ![l] = v]
    /\ Asks(l, "leaving", w, w, v)
    /\ UNCHANGED <<worker, assigned, callState, socket, closing, reap, faults>>

\* The source forgot it.  A target that exited meanwhile had no leg to tell
\* of: the leg is left with a worker that is gone.
Moved(l) ==
    LET w == task[l].w v == task[l].to
        rest == known[w] \ {l} IN
    /\ task[l].do = "leaving" /\ Answers(w)
    /\ hosts' = [hosts EXCEPT ![w] = @ \ {l}] /\ known' = [known EXCEPT ![w] = rest]
    /\ assigned' = [assigned EXCEPT ![l] = v]
    /\ IF InPool(w) /\ rest = {}
       THEN worker' = Leave(w) /\ reap' = reap \ {w} /\ Does(l, "shutting", w, None)
       ELSE UNCHANGED worker /\ reap' = reap \cup {w} /\ Ends(l)
    /\ wpFlaws' = wpFlaws \cup (IF worker[v] = "gone" THEN {<<"unnoticed", l>>} ELSE {})
                          \cup (IF worker[v] = "leaving" THEN {<<"reaped", l>>} ELSE {})
    /\ UNCHANGED <<callState, socket, bound, closing, faults>>

\* The rollback of a failed move took the leg off the target again.
Undone(l) ==
    LET v == task[l].to IN
    /\ task[l].do = "undoing" /\ Answers(v)
    /\ hosts' = [hosts EXCEPT ![v] = @ \ {l}] /\ known' = [known EXCEPT ![v] = @ \ {l}]
    /\ bound' = [bound EXCEPT ![l] = task[l].w]
    /\ Ends(l)
    /\ UNCHANGED <<worker, assigned, callState, socket, closing, reap, faults, wpFlaws>>

-----------------------------------------------------------------------------
(* The end of a worker.                                                      *)

WorkerDies(w) ==
    /\ worker[w] = "up" /\ faults < MaxFaults /\ faults' = faults + 1
    /\ worker' = [worker EXCEPT ![w] = "dead"] /\ hosts' = [hosts EXCEPT ![w] = {}]
    /\ UNCHANGED <<known, assigned, callState, socket, bound, task, closing, reap, wpFlaws>>

\* The worker a task awaits.
Awaits(l) == CASE task[l].do \in {"ensuring", "removing", "exporting", "leaving"} -> task[l].w
               [] task[l].do \in {"accepting", "undoing"} -> task[l].to
               [] OTHER -> None
ShutsDown(l, w) == task[l].do = "shutting" /\ task[l].w = w

\* What the rejection of a leg's command makes of its task.
Rejected(l) ==
    IF task[l].do # "leaving" THEN Idle
    ELSE IF worker[task[l].to] \in {"leaving", "gone"} THEN Doing("hung", task[l].w, task[l].to)
    ELSE Doing("undoing", task[l].w, task[l].to)

\* The exit event of a dead worker: its legs lose their transport, commands to
\* it are rejected, except that a worker told to shut down after its error was
\* reported rejects nobody.  A rejected removal leaves its socket open.
WorkerExits(w, rejects) ==
    LET hit == {l \in Legs : Awaits(l) = w \/ ShutsDown(l, w)} IN
    /\ (worker[w] = "dead" /\ rejects) \/ worker[w] = "fading"
    /\ worker' = [worker EXCEPT ![w] = "gone"]
    /\ reap' = reap \ {w}
    /\ assigned' = [l \in Legs |-> IF assigned[l] = w THEN None ELSE assigned[l]]
    /\ closing' = closing \cup {l \in Legs : assigned[l] = w}
    /\ task' = [l \in Legs |-> IF l \notin hit THEN task[l]
                               ELSE IF rejects THEN Rejected(l) ELSE [task[l] EXCEPT !.do = "hung"]]
    /\ bound' = [l \in Legs |-> IF rejects /\ l \in hit /\ task[l].do = "accepting"
                                THEN task[l].w ELSE bound[l]]
    /\ wpFlaws' = wpFlaws
         \cup {<<"stranded", l>> : l \in {l \in hit : task[l].do = "removing"}}
         \cup {<<"hung", l>> : l \in {l \in hit : task'[l].do = "hung"}}
    /\ UNCHANGED <<known, hosts, callState, socket, faults>>

\* Shutdown is answered after everything asked before it, and the thread is
\* terminated; the exit tells of the legs it had.
ShutDown(w) ==
    /\ worker[w] = "leaving" /\ \A l \in Legs : Awaits(l) # w
    /\ worker' = [worker EXCEPT ![w] = "gone"] /\ hosts' = [hosts EXCEPT ![w] = {}]
    /\ known' = [known EXCEPT ![w] = {}]
    /\ assigned' = [l \in Legs |-> IF assigned[l] = w THEN None ELSE assigned[l]]
    /\ closing' = closing \cup {l \in Legs : assigned[l] = w}
    /\ task' = [l \in Legs |-> IF ShutsDown(l, w) THEN Idle ELSE task[l]]
    /\ UNCHANGED <<callState, socket, bound, reap, faults, wpFlaws>>

WpNext ==
    \/ \E l \in Legs :
          \/ LegArrives(l) \/ EnsureBegins(l) \/ LegEnsured(l) \/ Hangup(l)
          \/ \E w \in Workers : EnsureAsks(l, w)
          \/ \E made \in BOOLEAN : EnsureFails(l, made)
          \/ HandleTransportClosed(l) \/ RemoveBegins(l) \/ Removed(l) \/ CloseDone(l)
          \/ \E p \in Legs : MigrateBegins(l, p)
          \/ Exported(l) \/ Accepted(l) \/ Moved(l) \/ Undone(l)
    \/ \E w \in Workers : 
          \/ ReapTimerFires(w) \/ WorkerDies(w) \/ ShutDown(w)
          \/ \E rejects \in BOOLEAN : WorkerExits(w, rejects)

-----------------------------------------------------------------------------
Had(why) == {f[2] : f \in {g \in wpFlaws : g[1] = why}}
Placed(l) == socket[l] = "open" /\ bound[l] # None

\* Every value is one the code can have.
WpTypeOK ==
    /\ worker \in [Workers -> {"unused", "up", "leaving", "dead", "fading", "gone"}]
    /\ known \in [Workers -> SUBSET Legs] /\ hosts \in [Workers -> SUBSET Legs]
    /\ assigned \in [Legs -> Workers \cup {None}] /\ bound \in [Legs -> Workers \cup {None}]
    /\ callState \in [Legs -> {"new", "live", "ended", "removed"}]
    /\ socket \in [Legs -> {"none", "open", "closed"}]
    /\ task \in [Legs -> [do : {"idle", "configuring", "ensuring", "removing", "closing",
                                "shutting", "exporting", "accepting", "leaving", "undoing",
                                "hung"},
                          w : Workers \cup {None}, to : Workers \cup {None}]]
    /\ closing \subseteq Legs /\ reap \subseteq Workers

\* The media of a live leg nobody works at is carried: its attachment delivers
\* to a worker of the pool that has the leg, or the worker's death is about to
\* end the call.  (Not for a leg given to a worker that was being shut down, or
\* moved to one that died meanwhile.)
LiveLegIsCarried ==
    \A l \in Legs : callState[l] = "live" /\ Free(l) /\ Placed(l) =>
        \/ l \in closing
        \/ worker[bound[l]] = "dead" /\ assigned[l] = bound[l]
        \/ worker[bound[l]] = "up" /\ l \in hosts[bound[l]] /\ assigned[l] = bound[l]
        \/ l \in Had("reaped") \cup Had("unnoticed")

\* A leg has one endpoint, except while it moves or after a worker refused it
\* half-way.
OneEndpoint ==
    \A l \in Legs : Cardinality({w \in Workers : worker[w] = "up" /\ l \in hosts[w]}) > 1 =>
        task[l].do \in {"leaving", "undoing", "hung"} \/ l \in Had("ghost")

\* A leg that was taken away leaves nothing: no endpoint, no assignment, no
\* open socket, unless its worker died under the command, or it was refused.
RemovedIsGone ==
    \A l \in Legs : callState[l] = "removed" /\ Free(l) =>
        \/ /\ socket[l] \in {"none", "closed"} /\ assigned[l] = None
           /\ \A w \in Workers : worker[w] = "up" => l \notin hosts[w] \cup known[w]
        \/ l \in Had("stranded") \cup Had("ghost")

\* The control plane of a worker of the pool knows the legs it carries.
PoolKnowsItsLegs ==
    \A w \in Workers : worker[w] = "up" =>
        known[w] = {l \in hosts[w] : l \notin Had("ghost") \/ l \in known[w]}

\* A lock is never held for ever but by a task whose command went to a worker
\* that was on its way out.
LocksComeFree ==
    \A l \in Legs : ~Free(l) =>
        \/ task[l].do \in {"configuring", "closing"}
        \/ \E w \in Workers : ShutsDown(l, w) /\ worker[w] \in {"leaving", "fading"}
        \/ Awaits(l) # None /\ worker[Awaits(l)] \notin {"unused", "gone"}
        \/ l \in Had("hung")

\* What the pool promises of its legs and its threads.
PoolSafe == WpTypeOK /\ LiveLegIsCarried /\ OneEndpoint /\ RemovedIsGone
            /\ PoolKnowsItsLegs /\ LocksComeFree

WpSpec == WpInit /\ [][WpNext]_wpVars
=============================================================================
