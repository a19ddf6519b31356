------------------------------ MODULE PoolProofs ------------------------------
(***************************************************************************)
(* Where the media of the legs are carried, and what gets through.         *)
(*                                                                         *)
(* WorkerPool: for any number of legs, of workers and of faults, the pool  *)
(* keeps its promises up to the races the history records, in every order  *)
(* of placements, moves, removals, reaped and dying workers.  Its          *)
(* invariant is stated leg by leg.  A step is that of one leg, or of one   *)
(* worker: OthersRest says that it leaves every other leg as it was.       *)
(*                                                                         *)
(* RtpStream: for any number of packets, of digits and of packets held     *)
(* back, what a leg hears and sends stays in order while the leg is moved  *)
(* from one worker of the pool to another.                                 *)
(*                                                                         *)
(* WsStream and WsAudio: for any number of agents, of sends and of         *)
(* sockets, the leg of a voice agent has one socket, and whoever waits for *)
(* it goes on; for any chunks and frames, what the agent says is heard     *)
(* whole and in order.                                                     *)
(***************************************************************************)
EXTENDS WorkerPool, RtpStream, WsAudio, FiniteSetTheorems, SequenceTheorems, TLAPS

States == {"unused", "up", "leaving", "dead", "fading", "gone"}
TaskRecords == [do : {"idle", "configuring", "ensuring", "removing", "closing", "shutting",
                      "exporting", "accepting", "leaving", "undoing", "hung"},
                w : Workers \cup {None}, to : Workers \cup {None}]

\* Every variable has its type.
PoolTypes ==
    /\ worker \in [Workers -> States]
    /\ known \in [Workers -> SUBSET Legs] /\ hosts \in [Workers -> SUBSET Legs]
    /\ assigned \in [Legs -> Workers \cup {None}] /\ bound \in [Legs -> Workers \cup {None}]
    /\ callState \in [Legs -> {"new", "live", "ended", "removed"}]
    /\ socket \in [Legs -> {"none", "open", "closed"}]
    /\ task \in [Legs -> TaskRecords]
    /\ closing \subseteq Legs /\ reap \subseteq Workers

LEMMA PoolTypesHold == WpTypeOK <=> PoolTypes
  BY DEF WpTypeOK, PoolTypes, TaskRecords, States

Told(l) == l \in Had("reaped") \cup Had("unnoticed")
Ghost(l) == l \in Had("ghost")
Stranded(l) == l \in Had("stranded")
Hangs(l) == l \in Had("hung")

\* A worker has what its control plane knows, and that nothing else; one that
\* was not made has nothing.
KnownIsHosted(l) ==
    \A w \in Workers :
        /\ worker[w] = "unused" => l \notin known[w] /\ l \notin hosts[w]
        /\ worker[w] = "up" => /\ l \in known[w] => l \in hosts[w]
                               /\ l \in hosts[w] => l \in known[w] \/ Ghost(l)

\* An assignment leads to a worker that was made; one of the pool knows the leg.
AssignedIsKnown(l) ==
    assigned[l] # None =>
        /\ worker[assigned[l]] # "unused"
        /\ InPool(assigned[l]) => l \in known[assigned[l]]

Moves == {"exporting", "accepting", "leaving", "undoing"}

\* A task works with workers that were made, a move with two.
TaskHasWorkers(l) ==
    LET w == task[l].w v == task[l].to IN
    /\ task[l].do \in Moves \cup {"ensuring", "removing", "closing", "shutting"} =>
            w \in Workers /\ worker[w] # "unused"
    /\ task[l].do \in Moves => v \in Workers /\ worker[v] # "unused" /\ v # w

\* While it moves the leg stays assigned to the source, unless that exited.
MovesFrom(l) ==
    LET w == task[l].w IN
    /\ task[l].do \in {"exporting", "leaving"} => assigned[l] = w /\ InPool(w)
    /\ task[l].do = "accepting" => \/ assigned[l] = w /\ InPool(w)
                                   \/ l \in closing /\ worker[w] = "gone" /\ assigned[l] = None

\* The target that took it knows it; a move is undone when the source exited.
MovesTo(l) ==
    LET v == task[l].to IN
    /\ task[l].do = "leaving" => /\ bound[l] = v /\ worker[v] # "fading"
                                 /\ InPool(v) => l \in known[v]
    /\ task[l].do = "undoing" => l \in closing /\ assigned[l] = None

\* What a task asks of a worker it asks where the leg is assigned.
AsksItsWorker(l) ==
    task[l].do \in {"ensuring", "removing"} => assigned[l] \in {None, task[l].w}

\* A live leg is delivered to the worker of the pool it is assigned to, except
\* while the source forgets it; one that did not arrive has no task yet.
DeliveredWhereAssigned(l) ==
    /\ callState[l] = "new" => bound[l] = None /\ Free(l)
    /\ (callState[l] = "live" /\ bound[l] # None
          /\ task[l].do \notin {"leaving", "undoing", "hung"}) =>
        l \in closing \/ Told(l) \/ (assigned[l] = bound[l] /\ InPool(bound[l]))

\* A running worker that has a leg is the one it is assigned to, or takes part
\* in its move.
HostedWhereAssigned(l) ==
    ~Ghost(l) => \A w \in Workers : worker[w] = "up" /\ l \in hosts[w] =>
        /\ task[l].do = "leaving" => w \in {task[l].w, task[l].to}
        /\ task[l].do = "undoing" => w = task[l].to
        /\ task[l].do \notin {"leaving", "undoing", "hung"} => assigned[l] = w

\* A leg that is removed goes through the steps of its removal.
RemovalEnds(l) ==
    /\ task[l].do \in {"removing", "closing"} => callState[l] = "removed"
    /\ callState[l] = "removed" =>
        /\ task[l].do \in {"idle", "removing", "closing", "shutting", "hung"}
        /\ task[l].do \in {"idle", "shutting"} => socket[l] = "closed" \/ Stranded(l)
        /\ task[l].do \in {"idle", "closing", "shutting"} => assigned[l] = None \/ Stranded(l)

\* What a leg's lock waits for will come, unless the history says it hangs.
LockComesFree(l) ==
    LET w == task[l].w v == task[l].to IN
    /\ task[l].do = "hung" => Hangs(l)
    /\ task[l].do = "shutting" => worker[w] \in {"leaving", "fading"}
    /\ task[l].do \in {"ensuring", "removing", "exporting", "leaving"} => worker[w] # "gone"
    /\ task[l].do \in {"accepting", "undoing"} => worker[v] # "gone"

LegInv(l) ==
    /\ KnownIsHosted(l) /\ AssignedIsKnown(l) /\ TaskHasWorkers(l) /\ MovesFrom(l) /\ MovesTo(l)
    /\ AsksItsWorker(l) /\ DeliveredWhereAssigned(l) /\ HostedWhereAssigned(l) /\ RemovalEnds(l)
    /\ LockComesFree(l)

WpInv == PoolTypes /\ \A l \in Legs : LegInv(l)

-----------------------------------------------------------------------------
(* What a step leaves alone.                                                 *)

LEMMA HistoryGrows ==
    ASSUME wpFlaws \subseteq wpFlaws', NEW l
    PROVE  /\ (Told(l) => Told(l)') /\ (Ghost(l) => Ghost(l)')
           /\ (Stranded(l) => Stranded(l)') /\ (Hangs(l) => Hangs(l)')
<1>1. \A why : Had(why) \subseteq Had(why)'
  BY DEF Had
<1>. QED
  BY <1>1 DEF Told, Ghost, Stranded, Hangs

LEMMA HistoryTells ==
    ASSUME NEW why, NEW l, <<why, l>> \in wpFlaws'
    PROVE  /\ why \in {"reaped", "unnoticed"} => Told(l)'
           /\ why = "ghost" => Ghost(l)'
           /\ why = "stranded" => Stranded(l)'
           /\ why = "hung" => Hangs(l)'
<1>1. l \in Had(why)'
  BY DEF Had
<1>. QED
  BY <1>1 DEF Told, Ghost, Stranded, Hangs

\* How a worker may change while no leg of it does: it is made, leaves the pool
\* when it knows nobody, or dies with what it had.
WorkerRests(w, k) ==
    \/ worker'[w] = worker[w] /\ (k \in hosts'[w] <=> k \in hosts[w])
    \/ worker[w] = "unused" /\ worker'[w] = "up" /\ (k \in hosts'[w] <=> k \in hosts[w])
    \/ worker[w] = "up" /\ worker'[w] = "leaving" /\ k \notin known[w]
    \/ worker[w] = "dead" /\ worker'[w] = "fading" /\ k \notin known[w]
    \/ worker[w] = "up" /\ worker'[w] = "dead"

LegRests(k) ==
    /\ assigned'[k] = assigned[k] /\ bound'[k] = bound[k] /\ callState'[k] = callState[k]
    /\ socket'[k] = socket[k] /\ task'[k] = task[k] /\ (k \in closing => k \in closing')
    /\ \A w \in Workers : (k \in known'[w] <=> k \in known[w]) /\ WorkerRests(w, k)

\* A leg that rests keeps its invariant, whatever another leg or worker does.
LEMMA OthersRest ==
    ASSUME PoolAssumption, PoolTypes, NEW k \in Legs, LegInv(k), LegRests(k),
           wpFlaws \subseteq wpFlaws'
    PROVE  LegInv(k)'
<1>1. /\ (Told(k) => Told(k)') /\ (Ghost(k) => Ghost(k)')
      /\ (Stranded(k) => Stranded(k)') /\ (Hangs(k) => Hangs(k)')
  BY HistoryGrows
<1>2. /\ assigned'[k] = assigned[k] /\ bound'[k] = bound[k] /\ callState'[k] = callState[k]
      /\ socket'[k] = socket[k] /\ task'[k] = task[k] /\ (k \in closing => k \in closing')
      /\ \A w \in Workers : k \in known'[w] <=> k \in known[w]
      /\ \A w \in Workers : WorkerRests(w, k)
  BY DEF LegRests
<1>3. /\ assigned[k] \in Workers \cup {None} /\ bound[k] \in Workers \cup {None}
      /\ task[k].w \in Workers \cup {None} /\ task[k].to \in Workers \cup {None}
      /\ None \notin Workers
  BY PoolAssumption DEF PoolTypes, TaskRecords, None
<1>4. \A w \in Workers :
        /\ worker'[w] = "unused" => worker[w] = "unused"
        /\ worker[w] # "unused" => worker'[w] # "unused"
        /\ worker'[w] = "gone" <=> worker[w] = "gone"
        /\ worker'[w] = "fading" => worker[w] = "fading" \/ (InPool(w) /\ k \notin known[w])
        /\ worker[w] \in {"leaving", "fading"} => worker'[w] = worker[w]
        /\ InPool(w) => InPool(w)' \/ k \notin known[w]
        /\ InPool(w)' => InPool(w) \/ worker[w] = "unused"
        /\ worker'[w] = "up" => worker[w] \in {"up", "unused"} /\ (k \in hosts'[w] <=> k \in hosts[w])
        /\ worker'[w] = "unused" => (k \in hosts'[w] <=> k \in hosts[w])
  BY <1>2 DEF WorkerRests, InPool
<1>5. KnownIsHosted(k)'
  BY <1>1, <1>2, <1>4 DEF LegInv, KnownIsHosted
<1>6. AssignedIsKnown(k)' /\ TaskHasWorkers(k)' /\ AsksItsWorker(k)'
  <2>1. AssignedIsKnown(k)'
    <3>1. CASE assigned[k] = None
      BY <1>2, <3>1 DEF AssignedIsKnown
    <3>2. CASE assigned[k] \in Workers
      BY <1>2, <1>3, <1>4, <3>2 DEF LegInv, AssignedIsKnown
    <3>. QED
      BY <1>3, <3>1, <3>2
  <2>2. TaskHasWorkers(k)'
    <3>1. \A w \in Workers : worker[w] # "unused" => worker'[w] # "unused"
      BY <1>4
    <3>. QED
      BY <1>2, <3>1 DEF LegInv, TaskHasWorkers
  <2>3. AsksItsWorker(k)'
    BY <1>2 DEF LegInv, AsksItsWorker
  <2>. QED
    BY <2>1, <2>2, <2>3
<1>7. MovesFrom(k)'
  <2>1. CASE task[k].w \in Workers /\ assigned[k] = task[k].w /\ InPool(task[k].w)
    <3>1. k \in known[task[k].w]
      BY <1>3, <2>1 DEF LegInv, AssignedIsKnown
    <3>2. worker'[task[k].w] \in {"up", "dead"}
      BY <1>4, <2>1, <3>1 DEF InPool
    <3>. QED
      BY <1>2, <2>1, <3>2 DEF MovesFrom, InPool
  <2>2. CASE ~(task[k].w \in Workers /\ assigned[k] = task[k].w /\ InPool(task[k].w))
    <3>1. task[k].do \in {"exporting", "leaving", "accepting"} => task[k].w \in Workers
      BY DEF LegInv, TaskHasWorkers, Moves
    <3>2. /\ task[k].do \notin {"exporting", "leaving"}
          /\ task[k].do = "accepting" =>
                /\ k \in closing /\ worker[task[k].w] = "gone" /\ assigned[k] = None
      BY <2>2, <3>1 DEF LegInv, MovesFrom
    <3>3. task[k].do = "accepting" => worker'[task[k].w] = "gone"
      BY <1>4, <3>1, <3>2
    <3>. QED
      BY <1>2, <3>2, <3>3 DEF MovesFrom
  <2>. QED
    BY <2>1, <2>2
<1>8. MovesTo(k)'
  <2>1. CASE task[k].do = "leaving"
    <3>1. /\ task[k].to \in Workers /\ worker[task[k].to] \notin {"unused", "fading"}
          /\ bound[k] = task[k].to /\ (InPool(task[k].to) => k \in known[task[k].to])
      BY <2>1 DEF LegInv, TaskHasWorkers, MovesTo, Moves
    <3>2. worker'[task[k].to] # "fading"
      <4>1. worker'[task[k].to] = "fading" =>
               \/ worker[task[k].to] = "fading"
               \/ InPool(task[k].to) /\ k \notin known[task[k].to]
        BY <1>4, <3>1
      <4>. QED
        BY <3>1, <4>1
    <3>3. worker'[task[k].to] \in {"up", "dead"} => k \in known'[task[k].to]
      <4>1. InPool(task[k].to)' => InPool(task[k].to)
        BY <1>2, <1>4, <3>1
      <4>. QED
        BY <1>2, <3>1, <4>1 DEF InPool
    <3>. QED
      BY <1>2, <2>1, <3>1, <3>2, <3>3 DEF MovesTo, InPool
  <2>2. CASE task[k].do # "leaving"
    BY <1>2, <2>2 DEF LegInv, MovesTo
  <2>. QED
    BY <2>1, <2>2
<1>9. DeliveredWhereAssigned(k)'
  BY <1>1, <1>2, <1>3, <1>4 DEF LegInv, AssignedIsKnown, DeliveredWhereAssigned, Free
<1>10. HostedWhereAssigned(k)'
  BY <1>1, <1>2, <1>3, <1>4 DEF LegInv, KnownIsHosted, HostedWhereAssigned
<1>11. RemovalEnds(k)'
  BY <1>1, <1>2 DEF LegInv, RemovalEnds
<1>12. LockComesFree(k)'
  <2>1. task[k].do = "hung" => Hangs(k)'
    BY <1>1 DEF LegInv, LockComesFree
  <2>2. task[k].do = "shutting" => worker'[task[k].w] \in {"leaving", "fading"}
    <3>1. task[k].do = "shutting" =>
             task[k].w \in Workers /\ worker[task[k].w] \in {"leaving", "fading"}
      BY DEF LegInv, TaskHasWorkers, LockComesFree
    <3>. QED
      BY <1>4, <3>1
  <2>3. \A w \in Workers : worker[w] # "gone" => worker'[w] # "gone"
    BY <1>4
  <2>4. task[k].do \in {"ensuring", "removing", "exporting", "leaving"} =>
           worker'[task[k].w] # "gone"
    BY <2>3 DEF LegInv, TaskHasWorkers, LockComesFree, Moves
  <2>5. task[k].do \in {"accepting", "undoing"} => worker'[task[k].to] # "gone"
    BY <2>3 DEF LegInv, TaskHasWorkers, LockComesFree, Moves
  <2>. QED
    BY <1>2, <2>1, <2>2, <2>4, <2>5 DEF LockComesFree
<1>. QED
  BY <1>5, <1>6, <1>7, <1>8, <1>9, <1>10, <1>11, <1>12 DEF LegInv

\* The step of a leg: the others rest.
LEMMA OneLegSteps ==
    ASSUME PoolAssumption, WpInv, NEW l \in Legs, PoolTypes', LegInv(l)',
           wpFlaws \subseteq wpFlaws', \A k \in Legs \ {l} : LegRests(k)
    PROVE  WpInv'
<1>1. \A k \in Legs \ {l} : LegInv(k)'
  BY OthersRest DEF WpInv
<1>. QED
  BY <1>1 DEF WpInv

\* So does the step of a worker, to all.
LEMMA NoLegSteps ==
    ASSUME PoolAssumption, WpInv, PoolTypes', wpFlaws \subseteq wpFlaws',
           \A k \in Legs : LegRests(k)
    PROVE  WpInv'
<1>1. \A k \in Legs : LegInv(k)'
  BY OthersRest DEF WpInv
<1>. QED
  BY <1>1 DEF WpInv

LEMMA WpInitHolds == PoolAssumption /\ WpInit => WpInv
<1>. SUFFICES ASSUME PoolAssumption, WpInit PROVE WpInv
  OBVIOUS
<1>1. PoolTypes
  <2>1. /\ worker \in [Workers -> States]
        /\ known \in [Workers -> SUBSET Legs] /\ hosts \in [Workers -> SUBSET Legs]
    BY DEF WpInit, States
  <2>2. /\ assigned \in [Legs -> Workers \cup {None}] /\ bound \in [Legs -> Workers \cup {None}]
        /\ callState \in [Legs -> {"new", "live", "ended", "removed"}]
        /\ socket \in [Legs -> {"none", "open", "closed"}]
    BY DEF WpInit
  <2>3. Idle \in TaskRecords
    BY DEF Idle, TaskRecords
  <2>4. task \in [Legs -> TaskRecords]
    BY <2>3 DEF WpInit
  <2>. QED
    BY <2>1, <2>2, <2>4 DEF PoolTypes, WpInit
<1>2. ASSUME NEW l \in Legs PROVE LegInv(l)
  <2>1. /\ assigned[l] = None /\ bound[l] = None /\ callState[l] = "new" /\ task[l].do = "idle"
        /\ \A w \in Workers : known[w] = {} /\ hosts[w] = {}
    BY DEF WpInit, Idle
  <2>2. KnownIsHosted(l) /\ HostedWhereAssigned(l)
    BY <2>1 DEF KnownIsHosted, HostedWhereAssigned
  <2>3. AssignedIsKnown(l) /\ TaskHasWorkers(l) /\ MovesFrom(l) /\ MovesTo(l) /\ AsksItsWorker(l)
    BY <2>1 DEF AssignedIsKnown, TaskHasWorkers, MovesFrom, MovesTo, AsksItsWorker, Moves
  <2>4. DeliveredWhereAssigned(l) /\ RemovalEnds(l) /\ LockComesFree(l)
    BY <2>1 DEF DeliveredWhereAssigned, RemovalEnds, LockComesFree, Free
  <2>. QED
    BY <2>2, <2>3, <2>4 DEF LegInv
<1>. QED
  BY <1>1, <1>2 DEF WpInv

-----------------------------------------------------------------------------
(* The steps of a leg.                                                       *)

\* What is known of a leg with its task.
LEMMA LegTypes ==
    ASSUME PoolAssumption, PoolTypes, NEW l \in Legs
    PROVE  /\ task[l] \in TaskRecords
           /\ task[l].w \in Workers \cup {None} /\ task[l].to \in Workers \cup {None}
           /\ assigned[l] \in Workers \cup {None} /\ bound[l] \in Workers \cup {None}
           /\ None \notin Workers
  BY PoolAssumption DEF PoolTypes, TaskRecords, None

\* The call of a leg goes on, or its transport is told closed.
LEMMA CallSteps ==
    ASSUME PoolAssumption, WpInv, NEW l \in Legs,
           LegArrives(l) \/ Hangup(l) \/ HandleTransportClosed(l)
    PROVE  WpInv'
<1>1. PoolTypes /\ LegInv(l)
  BY DEF WpInv
<1>2. /\ UNCHANGED <<worker, known, hosts, assigned, socket, bound, task, wpFlaws>>
      /\ \A k \in Legs \ {l} : callState'[k] = callState[k] /\ (k \in closing => k \in closing')
      /\ callState' \in [Legs -> {"new", "live", "ended", "removed"}]
      /\ callState'[l] = "removed" <=> callState[l] = "removed"
      /\ UNCHANGED reap /\ closing' \subseteq Legs
  <2>1. CASE LegArrives(l) \/ Hangup(l)
    BY <1>1, <2>1 DEF LegArrives, Hangup, PoolTypes
  <2>2. CASE HandleTransportClosed(l)
    BY <1>1, <2>2 DEF HandleTransportClosed, PoolTypes
  <2>. QED
    BY <2>1, <2>2
<1>3. /\ callState'[l] # "new" \/ callState[l] = "new"
      /\ callState'[l] = "live" => callState[l] = "new"
      /\ l \in closing => l \in closing' \/ Free(l)
  BY <1>1 DEF LegArrives, Hangup, HandleTransportClosed, PoolTypes
<1>4. PoolTypes'
  BY <1>1, <1>2 DEF PoolTypes
<1>5. \A k \in Legs \ {l} : LegRests(k)
  BY <1>2 DEF LegRests, WorkerRests
<1>6. /\ (Told(l) => Told(l)') /\ (Ghost(l) <=> Ghost(l)')
      /\ (Stranded(l) => Stranded(l)') /\ (Hangs(l) => Hangs(l)')
  BY <1>2 DEF Told, Ghost, Stranded, Hangs, Had
<1>7. /\ KnownIsHosted(l)' /\ AssignedIsKnown(l)' /\ TaskHasWorkers(l)'
      /\ AsksItsWorker(l)' /\ HostedWhereAssigned(l)' /\ LockComesFree(l)'
  BY <1>1, <1>2, <1>6 DEF LegInv, KnownIsHosted, AssignedIsKnown, TaskHasWorkers, AsksItsWorker,
                          HostedWhereAssigned, LockComesFree, InPool
<1>8. MovesFrom(l)' /\ MovesTo(l)'
  BY <1>1, <1>2, <1>3 DEF LegInv, MovesFrom, MovesTo, InPool, Free
<1>9. DeliveredWhereAssigned(l)' /\ RemovalEnds(l)'
  BY <1>1, <1>2, <1>3, <1>6 DEF LegInv, DeliveredWhereAssigned, RemovalEnds, InPool, Free
<1>. QED
  BY <1>2, <1>4, <1>5, <1>7, <1>8, <1>9, OneLegSteps DEF LegInv

\* A task begins or ends while nothing else of the leg changes but its socket.
LEMMA HistorySame ==
    ASSUME wpFlaws' = wpFlaws, NEW l
    PROVE  /\ (Told(l) <=> Told(l)') /\ (Ghost(l) <=> Ghost(l)')
           /\ (Stranded(l) <=> Stranded(l)') /\ (Hangs(l) <=> Hangs(l)')
  BY DEF Told, Ghost, Stranded, Hangs, Had

\* ensureWorkerForLeg begins.
LEMMA EnsureBeginStep ==
    ASSUME PoolAssumption, WpInv, NEW l \in Legs, EnsureBegins(l)
    PROVE  WpInv'
<1>1. PoolTypes /\ LegInv(l)
  BY DEF WpInv
<1>2. /\ task[l].do = "idle" /\ callState[l] = "live"
      /\ socket' = [socket EXCEPT ![l] = "open"]
      /\ task' = [task EXCEPT ![l] = Doing("configuring", None, None)]
      /\ UNCHANGED <<worker, known, hosts, assigned, callState, bound, closing, reap, faults, wpFlaws>>
  BY DEF EnsureBegins, Does, Free
<1>3. Doing("configuring", None, None) \in TaskRecords
  BY DEF Doing, TaskRecords
<1>4. PoolTypes'
  BY <1>1, <1>2, <1>3 DEF PoolTypes
<1>5. \A k \in Legs \ {l} : LegRests(k)
  BY <1>1, <1>2 DEF LegRests, WorkerRests, PoolTypes
<1>6. task'[l].do = "configuring"
  BY <1>1, <1>2 DEF PoolTypes, Doing
<1>7. /\ KnownIsHosted(l)' /\ AssignedIsKnown(l)' /\ TaskHasWorkers(l)' /\ MovesFrom(l)'
      /\ MovesTo(l)' /\ AsksItsWorker(l)' /\ RemovalEnds(l)' /\ LockComesFree(l)'
  BY <1>1, <1>2, <1>6, HistorySame
     DEF LegInv, KnownIsHosted, AssignedIsKnown, TaskHasWorkers, MovesFrom, MovesTo, AsksItsWorker,
         RemovalEnds, LockComesFree, InPool, Moves
<1>8. DeliveredWhereAssigned(l)' /\ HostedWhereAssigned(l)'
  BY <1>1, <1>2, <1>6, HistorySame DEF LegInv, DeliveredWhereAssigned, HostedWhereAssigned, InPool
<1>. QED
  BY <1>2, <1>4, <1>5, <1>7, <1>8, OneLegSteps DEF LegInv

\* Where a leg is found it is assigned, and known; an assignment is dropped only
\* when no running worker has the leg.
LEMMA FindLeg ==
    ASSUME PoolAssumption, PoolTypes, NEW l \in Legs, LegInv(l)
    PROVE  /\ Find(l) \in {None, assigned[l]}
           /\ Find(l) # None => Find(l) \in Workers /\ InPool(Find(l)) /\ l \in known[Find(l)]
           /\ assigned[l] # None /\ InPool(assigned[l]) => Find(l) = assigned[l]
  BY LegTypes DEF Find, LegInv, AssignedIsKnown

\* What may be selected is in the pool, or not made yet.
LEMMA SelectedWorker ==
    ASSUME NEW w \in Selected
    PROVE  w \in Workers /\ worker[w] \in {"unused", "up", "dead"}
  BY DEF Selected, Fresh, LeastLoaded, Pool, InPool

\* The worker is chosen and asked.
LEMMA EnsureAskStep ==
    ASSUME PoolAssumption, WpInv, NEW l \in Legs, NEW w \in Workers, EnsureAsks(l, w)
    PROVE  WpInv'
<1>1. PoolTypes /\ LegInv(l)
  BY DEF WpInv
<1>2. /\ task[l].do = "configuring"
      /\ w \in (IF Find(l) # None THEN {Find(l)} ELSE Selected)
      /\ worker' = [worker EXCEPT ![w] = IF worker[w] = "unused" THEN "up" ELSE worker[w]]
      /\ assigned' = [assigned EXCEPT ![l] = Find(l)]
      /\ reap' = reap \ {w} /\ task' = [task EXCEPT ![l] = Doing("ensuring", w, None)]
      /\ UNCHANGED <<known, hosts, callState, socket, bound, closing, faults, wpFlaws>>
  BY DEF EnsureAsks, Does
<1>3. /\ Find(l) \in {None, assigned[l], w} /\ Find(l) \in Workers \cup {None}
      /\ Find(l) # None => Find(l) = w /\ Find(l) = assigned[l] /\ InPool(w) /\ l \in known[w]
      /\ assigned[l] # None /\ InPool(assigned[l]) => Find(l) = assigned[l]
  BY <1>1, <1>2, FindLeg
<1>4. worker[w] \in {"unused", "up", "dead"}
  BY <1>2, <1>3, SelectedWorker DEF InPool
<1>5. /\ \A v \in Workers \ {w} : worker'[v] = worker[v]
      /\ worker'[w] = (IF worker[w] = "unused" THEN "up" ELSE worker[w])
      /\ worker'[w] \in {"up", "dead"} /\ worker' \in [Workers -> States]
  BY <1>1, <1>2, <1>4 DEF PoolTypes, States
<1>6. Doing("ensuring", w, None) \in TaskRecords
  BY DEF Doing, TaskRecords
<1>7. PoolTypes'
  BY <1>1, <1>2, <1>3, <1>5, <1>6 DEF PoolTypes
<1>8. \A k \in Legs \ {l} : LegRests(k)
  BY <1>1, <1>2, <1>5 DEF LegRests, WorkerRests, PoolTypes
<1>9. /\ task'[l].do = "ensuring" /\ task'[l].w = w /\ assigned'[l] = Find(l)
      /\ assigned[l] \in Workers \cup {None} /\ bound[l] \in Workers \cup {None}
      /\ None \notin Workers
  BY <1>1, <1>2, LegTypes DEF PoolTypes, Doing
<1>10. \A v \in Workers : worker'[v] = "up" /\ l \in hosts[v] /\ ~Ghost(l) => v = Find(l)
  <2>1. ASSUME NEW v \in Workers, worker'[v] = "up", l \in hosts[v], ~Ghost(l)
        PROVE  v = Find(l)
    <3>1. worker[v] = "up"
      BY <1>1, <1>5, <2>1 DEF LegInv, KnownIsHosted
    <3>2. assigned[l] = v
      BY <1>1, <1>2, <2>1, <3>1 DEF LegInv, HostedWhereAssigned
    <3>. QED
      BY <1>3, <1>9, <3>1, <3>2 DEF InPool
  <2>. QED
    BY <2>1
<1>11. KnownIsHosted(l)' /\ HostedWhereAssigned(l)'
  BY <1>1, <1>2, <1>5, <1>9, <1>10, HistorySame DEF LegInv, KnownIsHosted, HostedWhereAssigned
<1>12. /\ AssignedIsKnown(l)' /\ TaskHasWorkers(l)' /\ MovesFrom(l)' /\ MovesTo(l)'
       /\ AsksItsWorker(l)' /\ RemovalEnds(l)' /\ LockComesFree(l)'
  BY <1>1, <1>2, <1>3, <1>5, <1>9
     DEF LegInv, AssignedIsKnown, TaskHasWorkers, MovesFrom, MovesTo, AsksItsWorker, RemovalEnds,
         LockComesFree, InPool, Moves
<1>13. DeliveredWhereAssigned(l)'
  BY <1>1, <1>2, <1>3, <1>5, <1>9, HistorySame DEF LegInv, DeliveredWhereAssigned, InPool, Free
<1>. QED
  BY <1>2, <1>7, <1>8, <1>11, <1>12, <1>13, OneLegSteps DEF LegInv

\* The worker has the leg.
LEMMA EnsuredStep ==
    ASSUME PoolAssumption, WpInv, NEW l \in Legs, LegEnsured(l)
    PROVE  WpInv'
<1>. DEFINE w == task[l].w
<1>1. PoolTypes /\ LegInv(l)
  BY DEF WpInv
<1>2. /\ task[l].do = "ensuring" /\ Answers(w)
      /\ hosts' = [hosts EXCEPT ![w] = hosts[w] \cup {l}]
      /\ known' = [known EXCEPT ![w] = known[w] \cup {l}]
      /\ assigned' = [assigned EXCEPT ![l] = w] /\ bound' = [bound EXCEPT ![l] = w]
      /\ wpFlaws' = wpFlaws \cup (IF worker[w] = "leaving" THEN {<<"reaped", l>>} ELSE {})
      /\ task' = [task EXCEPT ![l] = Idle]
      /\ UNCHANGED <<worker, callState, socket, closing, reap, faults>>
  BY DEF LegEnsured, Flawed, Ends
<1>3. /\ w \in Workers /\ worker[w] \in {"up", "leaving"} /\ assigned[l] \in {None, w}
      /\ None \notin Workers /\ callState[l] \notin {"new", "removed"}
  BY <1>1, <1>2, LegTypes
     DEF LegInv, TaskHasWorkers, AsksItsWorker, RemovalEnds, DeliveredWhereAssigned, Free, Answers
<1>. HIDE DEF w
<1>4. Idle \in TaskRecords
  BY DEF Idle, TaskRecords
<1>5. PoolTypes'
  BY <1>1, <1>2, <1>3, <1>4 DEF PoolTypes
<1>6. /\ \A k \in Legs \ {l} : \A v \in Workers : (k \in hosts'[v] <=> k \in hosts[v])
                                               /\ (k \in known'[v] <=> k \in known[v])
      /\ \A v \in Workers \ {w} : (l \in hosts'[v] <=> l \in hosts[v])
                                  /\ (l \in known'[v] <=> l \in known[v])
      /\ l \in hosts'[w] /\ l \in known'[w]
  BY <1>1, <1>2, <1>3 DEF PoolTypes
<1>7. \A k \in Legs \ {l} : LegRests(k)
  BY <1>1, <1>2, <1>6 DEF LegRests, WorkerRests, PoolTypes
<1>8. task'[l].do = "idle" /\ assigned'[l] = w /\ bound'[l] = w
  BY <1>1, <1>2 DEF PoolTypes, Idle
<1>9. /\ (Ghost(l) => Ghost(l)') /\ (worker[w] = "leaving" => Told(l)')
  BY <1>2, HistoryGrows, HistoryTells
<1>10. KnownIsHosted(l)'
  BY <1>1, <1>2, <1>3, <1>6, <1>9 DEF LegInv, KnownIsHosted
<1>11. HostedWhereAssigned(l)'
  BY <1>1, <1>2, <1>3, <1>6, <1>8, <1>9 DEF LegInv, HostedWhereAssigned
<1>12. /\ AssignedIsKnown(l)' /\ TaskHasWorkers(l)' /\ MovesFrom(l)' /\ MovesTo(l)'
       /\ AsksItsWorker(l)' /\ RemovalEnds(l)' /\ LockComesFree(l)'
  BY <1>1, <1>2, <1>3, <1>6, <1>8
     DEF AssignedIsKnown, TaskHasWorkers, MovesFrom, MovesTo, AsksItsWorker, RemovalEnds,
         LockComesFree, InPool, Moves
<1>13. DeliveredWhereAssigned(l)'
  BY <1>1, <1>2, <1>3, <1>8, <1>9 DEF DeliveredWhereAssigned, InPool, Free
<1>. QED
  BY <1>2, <1>5, <1>7, <1>10, <1>11, <1>12, <1>13, OneLegSteps DEF LegInv

\* The worker refuses it, and may keep a ghost of it.
LEMMA EnsureFailStep ==
    ASSUME PoolAssumption, WpInv, NEW l \in Legs, NEW made \in BOOLEAN, EnsureFails(l, made)
    PROVE  WpInv'
<1>. DEFINE w == task[l].w
<1>1. PoolTypes /\ LegInv(l)
  BY DEF WpInv
<1>2. /\ task[l].do = "ensuring" /\ Answers(w) /\ l \notin known[w]
      /\ hosts' = [hosts EXCEPT ![w] = IF made THEN hosts[w] \cup {l} ELSE hosts[w]]
      /\ wpFlaws' = wpFlaws \cup (IF made THEN {<<"ghost", l>>} ELSE {})
      /\ task' = [task EXCEPT ![l] = Idle]
      /\ UNCHANGED <<worker, known, assigned, callState, socket, bound, closing, reap>>
  BY DEF EnsureFails, Flawed, Ends
<1>3. /\ w \in Workers /\ worker[w] \in {"up", "leaving"}
      /\ callState[l] \notin {"new", "removed"}
  BY <1>1, <1>2 DEF LegInv, TaskHasWorkers, RemovalEnds, DeliveredWhereAssigned, Free, Answers
<1>. HIDE DEF w
<1>4. Idle \in TaskRecords
  BY DEF Idle, TaskRecords
<1>5. PoolTypes'
  BY <1>1, <1>2, <1>3, <1>4 DEF PoolTypes
<1>6. /\ \A k \in Legs \ {l} : \A v \in Workers : k \in hosts'[v] <=> k \in hosts[v]
      /\ \A v \in Workers : l \in hosts[v] => l \in hosts'[v]
      /\ \A v \in Workers : l \in hosts'[v] => l \in hosts[v] \/ (v = w /\ made)
  BY <1>1, <1>2, <1>3 DEF PoolTypes
<1>7. \A k \in Legs \ {l} : LegRests(k)
  BY <1>1, <1>2, <1>6 DEF LegRests, WorkerRests, PoolTypes
<1>8. task'[l].do = "idle"
  BY <1>1, <1>2 DEF PoolTypes, Idle
<1>9. (Ghost(l) => Ghost(l)') /\ (made => Ghost(l)') /\ (Told(l) => Told(l)')
  BY <1>2, HistoryGrows, HistoryTells
<1>10. KnownIsHosted(l)'
  BY <1>1, <1>2, <1>3, <1>6, <1>9 DEF LegInv, KnownIsHosted
<1>11. HostedWhereAssigned(l)'
  BY <1>1, <1>2, <1>3, <1>6, <1>8, <1>9 DEF LegInv, HostedWhereAssigned
<1>12. /\ AssignedIsKnown(l)' /\ TaskHasWorkers(l)' /\ MovesFrom(l)' /\ MovesTo(l)'
       /\ AsksItsWorker(l)' /\ RemovalEnds(l)' /\ LockComesFree(l)'
  BY <1>1, <1>2, <1>3, <1>8
     DEF LegInv, AssignedIsKnown, TaskHasWorkers, MovesFrom, MovesTo, AsksItsWorker, RemovalEnds,
         LockComesFree, InPool, Moves
<1>13. DeliveredWhereAssigned(l)'
  BY <1>1, <1>2, <1>3, <1>8, <1>9 DEF LegInv, DeliveredWhereAssigned, InPool, Free
<1>. QED
  BY <1>2, <1>5, <1>7, <1>10, <1>11, <1>12, <1>13, OneLegSteps DEF LegInv

-----------------------------------------------------------------------------
(* Taking a leg away.                                                        *)

LEMMA RemoveBeginStep ==
    ASSUME PoolAssumption, WpInv, NEW l \in Legs, RemoveBegins(l)
    PROVE  WpInv'
<1>1. PoolTypes /\ LegInv(l)
  BY DEF WpInv
<1>2. /\ task[l].do = "idle" /\ callState' = [callState EXCEPT ![l] = "removed"]
      /\ assigned' = [assigned EXCEPT ![l] = Find(l)]
      /\ \/ /\ Find(l) = None /\ socket' = [socket EXCEPT ![l] = "closed"] /\ task' = task
         \/ /\ Find(l) # None /\ task' = [task EXCEPT ![l] = Doing("removing", Find(l), None)]
            /\ socket' = socket
      /\ UNCHANGED <<worker, known, hosts, bound, closing, reap, faults, wpFlaws>>
  BY DEF RemoveBegins, Does, Free
<1>3. /\ Find(l) \in {None, assigned[l]} /\ Find(l) \in Workers \cup {None}
      /\ Find(l) # None => InPool(Find(l)) /\ l \in known[Find(l)]
      /\ assigned[l] # None /\ InPool(assigned[l]) => Find(l) = assigned[l]
      /\ None \notin Workers
  BY <1>1, FindLeg, LegTypes
<1>4. Find(l) # None => Doing("removing", Find(l), None) \in TaskRecords
  BY <1>3 DEF Doing, TaskRecords
<1>5. PoolTypes'
  <2>1. task' \in [Legs -> TaskRecords] /\ socket' \in [Legs -> {"none", "open", "closed"}]
    BY <1>1, <1>2, <1>4 DEF PoolTypes
  <2>. QED
    BY <1>1, <1>2, <1>3, <2>1 DEF PoolTypes
<1>6. \A k \in Legs \ {l} : LegRests(k)
  BY <1>1, <1>2 DEF LegRests, WorkerRests, PoolTypes
<1>7. /\ assigned'[l] = Find(l) /\ callState'[l] = "removed"
      /\ \/ Find(l) = None /\ task'[l].do = "idle" /\ socket'[l] = "closed"
         \/ Find(l) # None /\ task'[l].do = "removing" /\ task'[l].w = Find(l)
  BY <1>1, <1>2 DEF PoolTypes, Doing
<1>8. HostedWhereAssigned(l)'
  <2>1. ASSUME NEW v \in Workers, worker[v] = "up", l \in hosts[v], ~Ghost(l)
        PROVE  v = Find(l)
    <3>1. assigned[l] = v
      BY <1>1, <1>2, <2>1 DEF LegInv, HostedWhereAssigned
    <3>. QED
      BY <1>3, <2>1, <3>1 DEF InPool
  <2>. QED
    BY <1>2, <1>7, <2>1, HistorySame DEF HostedWhereAssigned
<1>9. /\ KnownIsHosted(l)' /\ AssignedIsKnown(l)' /\ TaskHasWorkers(l)' /\ MovesFrom(l)'
      /\ MovesTo(l)' /\ AsksItsWorker(l)'
  BY <1>1, <1>2, <1>3, <1>7, HistorySame
     DEF LegInv, KnownIsHosted, AssignedIsKnown, TaskHasWorkers, MovesFrom, MovesTo, AsksItsWorker,
         InPool, Moves
<1>10. DeliveredWhereAssigned(l)' /\ RemovalEnds(l)' /\ LockComesFree(l)'
  BY <1>1, <1>2, <1>3, <1>7 DEF DeliveredWhereAssigned, RemovalEnds, LockComesFree, InPool
<1>. QED
  BY <1>2, <1>5, <1>6, <1>8, <1>9, <1>10, OneLegSteps DEF LegInv

\* RemoveEndpoint is answered.
LEMMA RemovedStep ==
    ASSUME PoolAssumption, WpInv, NEW l \in Legs, Removed(l)
    PROVE  WpInv'
<1>. DEFINE w == task[l].w
<1>1. PoolTypes /\ LegInv(l)
  BY DEF WpInv
<1>2. /\ task[l].do = "removing" /\ Answers(w)
      /\ hosts' = [hosts EXCEPT ![w] = hosts[w] \ {l}]
      /\ known' = [known EXCEPT ![w] = known[w] \ {l}]
      /\ assigned' = [assigned EXCEPT ![l] = None]
      /\ task' = [task EXCEPT ![l] = Doing("closing", w, None)]
      /\ UNCHANGED <<worker, callState, socket, bound, closing, reap, faults, wpFlaws>>
  BY DEF Removed, Does
<1>3. /\ w \in Workers /\ worker[w] \in {"up", "leaving"} /\ callState[l] = "removed"
      /\ assigned[l] \in {None, w} /\ None \notin Workers
  BY <1>1, <1>2, LegTypes DEF LegInv, TaskHasWorkers, RemovalEnds, AsksItsWorker, Answers
<1>. HIDE DEF w
<1>4. Doing("closing", w, None) \in TaskRecords
  BY <1>3 DEF Doing, TaskRecords
<1>5. PoolTypes'
  BY <1>1, <1>2, <1>3, <1>4 DEF PoolTypes
<1>6. /\ \A k \in Legs \ {l} : \A v \in Workers : (k \in hosts'[v] <=> k \in hosts[v])
                                               /\ (k \in known'[v] <=> k \in known[v])
      /\ \A v \in Workers \ {w} : (l \in hosts'[v] <=> l \in hosts[v])
                                  /\ (l \in known'[v] <=> l \in known[v])
      /\ l \notin hosts'[w] /\ l \notin known'[w]
  BY <1>1, <1>2, <1>3 DEF PoolTypes
<1>7. \A k \in Legs \ {l} : LegRests(k)
  BY <1>1, <1>2, <1>6 DEF LegRests, WorkerRests, PoolTypes
<1>8. task'[l].do = "closing" /\ task'[l].w = w /\ assigned'[l] = None
  BY <1>1, <1>2 DEF PoolTypes, Doing
<1>9. KnownIsHosted(l)' /\ HostedWhereAssigned(l)'
  BY <1>1, <1>2, <1>3, <1>6, <1>8, HistorySame DEF LegInv, KnownIsHosted, HostedWhereAssigned
<1>10. /\ AssignedIsKnown(l)' /\ TaskHasWorkers(l)' /\ MovesFrom(l)' /\ MovesTo(l)'
       /\ AsksItsWorker(l)' /\ DeliveredWhereAssigned(l)' /\ RemovalEnds(l)' /\ LockComesFree(l)'
  BY <1>1, <1>2, <1>3, <1>8
     DEF AssignedIsKnown, TaskHasWorkers, MovesFrom, MovesTo, AsksItsWorker,
         DeliveredWhereAssigned, RemovalEnds, LockComesFree, Moves
<1>. QED
  BY <1>2, <1>5, <1>7, <1>9, <1>10, OneLegSteps DEF LegInv

\* A worker that knows nobody leaves the pool.
LEMMA LeavesEmpty ==
    ASSUME PoolTypes, NEW w \in Workers, Reapable(w), worker' = Leave(w)
    PROVE  /\ worker' \in [Workers -> States]
           /\ \/ worker[w] = "up" /\ worker'[w] = "leaving"
              \/ worker[w] = "dead" /\ worker'[w] = "fading"
           /\ \A v \in Workers \ {w} : worker'[v] = worker[v]
           /\ \A l \in Legs : l \notin known[w]
  BY DEF Reapable, Leave, InPool, PoolTypes, States

\* The socket is closed, and the worker taken away when that was its last leg.
LEMMA CloseStep ==
    ASSUME PoolAssumption, WpInv, NEW l \in Legs, CloseDone(l)
    PROVE  WpInv'
<1>. DEFINE w == task[l].w
<1>1. PoolTypes /\ LegInv(l)
  BY DEF WpInv
<1>2. /\ task[l].do = "closing" /\ socket' = [socket EXCEPT ![l] = "closed"]
      /\ UNCHANGED <<known, hosts, assigned, callState, bound, closing, faults, wpFlaws>>
      /\ \/ /\ Reapable(w) /\ worker' = Leave(w) /\ reap' = reap \ {w}
            /\ task' = [task EXCEPT ![l] = Doing("shutting", w, None)]
         \/ /\ worker' = worker /\ reap' \subseteq reap \cup {w}
            /\ task' = [task EXCEPT ![l] = Idle]
  BY DEF CloseDone, Does, Ends
<1>3. /\ w \in Workers /\ worker[w] # "unused" /\ callState[l] = "removed"
  BY <1>1, <1>2 DEF LegInv, TaskHasWorkers, RemovalEnds
<1>. HIDE DEF w
<1>4. Doing("shutting", w, None) \in TaskRecords /\ Idle \in TaskRecords
  BY <1>3 DEF Doing, Idle, TaskRecords
<1>5. /\ worker' \in [Workers -> States]
      /\ \A k \in Legs, v \in Workers : WorkerRests(v, k)
  <2>1. CASE worker' = worker
    BY <1>1, <1>2, <2>1 DEF WorkerRests, PoolTypes
  <2>2. CASE Reapable(w) /\ worker' = Leave(w)
    BY <1>1, <1>2, <1>3, <2>2, LeavesEmpty DEF WorkerRests
  <2>. QED
    BY <1>2, <2>1, <2>2
<1>6. PoolTypes'
  <2>1. task' \in [Legs -> TaskRecords] /\ reap' \subseteq Workers
    <3>1. task \in [Legs -> TaskRecords] /\ reap \subseteq Workers
      BY <1>1 DEF PoolTypes
    <3>2. \A r \in TaskRecords : [task EXCEPT ![l] = r] \in [Legs -> TaskRecords]
      BY <3>1
    <3>3. task' \in [Legs -> TaskRecords]
      BY <1>2, <1>4, <3>2
    <3>4. reap' \subseteq Workers
      BY <1>2, <1>3, <3>1
    <3>. QED
      BY <3>3, <3>4
  <2>2. socket' \in [Legs -> {"none", "open", "closed"}]
    BY <1>1, <1>2 DEF PoolTypes
  <2>. QED
    BY <1>1, <1>2, <1>5, <2>1, <2>2 DEF PoolTypes
<1>7. \A k \in Legs \ {l} : LegRests(k)
  BY <1>1, <1>2, <1>5 DEF LegRests, PoolTypes
<1>8. /\ socket'[l] = "closed"
      /\ \/ task'[l].do = "idle"
         \/ task'[l].do = "shutting" /\ task'[l].w = w /\ worker'[w] \in {"leaving", "fading"}
  BY <1>1, <1>2, <1>3, LeavesEmpty DEF PoolTypes, Doing, Idle
<1>9. \A v \in Workers :
        /\ worker'[v] = "unused" => worker[v] = "unused"
        /\ worker[v] # "unused" => worker'[v] # "unused"
        /\ worker'[v] = "up" => worker[v] = "up"
        /\ InPool(v)' => InPool(v)
  <2>1. CASE worker' = worker
    BY <2>1 DEF InPool
  <2>2. CASE Reapable(w) /\ worker' = Leave(w)
    BY <1>1, <1>3, <2>2, LeavesEmpty DEF InPool
  <2>. QED
    BY <1>2, <2>1, <2>2
<1>10. /\ (Ghost(l) <=> Ghost(l)') /\ (Stranded(l) <=> Stranded(l)')
  BY <1>2, HistorySame
<1>11. /\ KnownIsHosted(l)' /\ AssignedIsKnown(l)' /\ TaskHasWorkers(l)' /\ MovesFrom(l)'
       /\ MovesTo(l)' /\ AsksItsWorker(l)'
  <2>1. KnownIsHosted(l)'
    <3>1. \A v \in Workers : worker'[v] = "unused" => worker[v] = "unused"
      BY <1>9
    <3>. QED
      BY <1>1, <1>2, <1>9, <1>10, <3>1 DEF LegInv, KnownIsHosted
  <2>2. AssignedIsKnown(l)'
    BY <1>1, <1>2, <1>9, LegTypes DEF LegInv, AssignedIsKnown
  <2>3. TaskHasWorkers(l)' /\ MovesFrom(l)' /\ MovesTo(l)' /\ AsksItsWorker(l)'
    BY <1>3, <1>8, <1>9 DEF TaskHasWorkers, MovesFrom, MovesTo, AsksItsWorker, Moves
  <2>. QED
    BY <2>1, <2>2, <2>3
<1>12. HostedWhereAssigned(l)'
  BY <1>1, <1>2, <1>8, <1>9, <1>10 DEF LegInv, HostedWhereAssigned
<1>13. DeliveredWhereAssigned(l)' /\ RemovalEnds(l)' /\ LockComesFree(l)'
  BY <1>1, <1>2, <1>3, <1>8, <1>10
     DEF LegInv, DeliveredWhereAssigned, RemovalEnds, LockComesFree
<1>. QED
  BY <1>2, <1>6, <1>7, <1>11, <1>12, <1>13, OneLegSteps DEF LegInv

\* The timer of an empty worker, and the death of a running one, are no leg's.
LEMMA WorkerSteps ==
    ASSUME PoolAssumption, WpInv, NEW w \in Workers, ReapTimerFires(w) \/ WorkerDies(w)
    PROVE  WpInv'
<1>1. PoolTypes
  BY DEF WpInv
<1>2. UNCHANGED <<known, assigned, callState, socket, bound, task, closing, wpFlaws>>
  BY DEF ReapTimerFires, WorkerDies
<1>3. /\ worker' \in [Workers -> States] /\ reap' \subseteq Workers
      /\ hosts' \in [Workers -> SUBSET Legs]
      /\ \A k \in Legs, v \in Workers : WorkerRests(v, k)
  <2>1. CASE ReapTimerFires(w) /\ Reapable(w)
    BY <1>1, <2>1, LeavesEmpty DEF ReapTimerFires, WorkerRests, PoolTypes
  <2>2. CASE ReapTimerFires(w) /\ ~Reapable(w)
    BY <1>1, <2>2 DEF ReapTimerFires, WorkerRests, PoolTypes
  <2>3. CASE WorkerDies(w)
    <3>1. /\ worker[w] = "up" /\ worker' = [worker EXCEPT ![w] = "dead"]
          /\ hosts' = [hosts EXCEPT ![w] = {}] /\ reap' = reap
      BY <2>3 DEF WorkerDies
    <3>. QED
      BY <1>1, <3>1 DEF WorkerRests, PoolTypes, States
  <2>. QED
    BY <2>1, <2>2, <2>3
<1>4. PoolTypes'
  BY <1>1, <1>2, <1>3 DEF PoolTypes
<1>5. \A k \in Legs : LegRests(k)
  BY <1>2, <1>3 DEF LegRests
<1>. QED
  BY <1>2, <1>4, <1>5, NoLegSteps

-----------------------------------------------------------------------------
(* Moving a leg.                                                             *)

LEMMA MigrateStep ==
    ASSUME PoolAssumption, WpInv, NEW l \in Legs, NEW p \in Legs, MigrateBegins(l, p)
    PROVE  WpInv'
<1>. DEFINE w == Find(l) v == Find(p)
<1>1. PoolTypes /\ LegInv(l) /\ LegInv(p)
  BY DEF WpInv
<1>2. /\ task[l].do = "idle" /\ callState[l] = "live" /\ w # None /\ v # None /\ v # w
      /\ task' = [task EXCEPT ![l] = Doing("exporting", w, v)] /\ reap' \subseteq reap
      /\ UNCHANGED <<worker, known, hosts, assigned, callState, socket, bound, closing, faults, wpFlaws>>
  BY DEF MigrateBegins, Peers, Does, Free
<1>3. /\ w \in Workers /\ v \in Workers /\ InPool(w) /\ InPool(v) /\ assigned[l] = w
  BY <1>1, <1>2, FindLeg
<1>. HIDE DEF w, v
<1>4. Doing("exporting", w, v) \in TaskRecords
  BY <1>3 DEF Doing, TaskRecords
<1>5. PoolTypes'
  BY <1>1, <1>2, <1>4 DEF PoolTypes
<1>6. \A k \in Legs \ {l} : LegRests(k)
  BY <1>1, <1>2 DEF LegRests, WorkerRests, PoolTypes
<1>7. task'[l].do = "exporting" /\ task'[l].w = w /\ task'[l].to = v
  BY <1>1, <1>2 DEF PoolTypes, Doing
<1>8. /\ KnownIsHosted(l)' /\ AssignedIsKnown(l)' /\ HostedWhereAssigned(l)'
      /\ DeliveredWhereAssigned(l)'
  BY <1>1, <1>2, <1>7, HistorySame
     DEF LegInv, KnownIsHosted, AssignedIsKnown, HostedWhereAssigned, DeliveredWhereAssigned, InPool
<1>9. /\ TaskHasWorkers(l)' /\ MovesFrom(l)' /\ MovesTo(l)' /\ AsksItsWorker(l)'
      /\ RemovalEnds(l)' /\ LockComesFree(l)'
  BY <1>1, <1>2, <1>3, <1>7
     DEF TaskHasWorkers, MovesFrom, MovesTo, AsksItsWorker, RemovalEnds, LockComesFree, InPool,
         Moves
<1>. QED
  BY <1>2, <1>5, <1>6, <1>8, <1>9, OneLegSteps DEF LegInv

\* The state was exported, and the target is asked.
LEMMA ExportedStep ==
    ASSUME PoolAssumption, WpInv, NEW l \in Legs, Exported(l)
    PROVE  WpInv'
<1>. DEFINE w == task[l].w v == task[l].to
            after == IF worker[v] \in {"leaving", "gone"} THEN "hung" ELSE "accepting"
<1>1. PoolTypes /\ LegInv(l)
  BY DEF WpInv
<1>2. /\ task[l].do = "exporting" /\ task' = [task EXCEPT ![l] = Doing(after, w, v)]
      /\ wpFlaws' = wpFlaws \cup (IF worker[v] \in {"leaving", "gone"} THEN {<<"hung", l>>} ELSE {})
      /\ UNCHANGED <<worker, known, hosts, assigned, callState, socket, bound, closing, reap, faults>>
  BY DEF Exported, Asks, Does, Flawed
<1>3. /\ w \in Workers /\ v \in Workers /\ v # w /\ assigned[l] = w /\ InPool(w)
      /\ worker[w] # "unused" /\ worker[v] # "unused"
      /\ after \in {"hung", "accepting"} /\ (after = "accepting" => worker[v] # "gone")
      /\ callState[l] # "removed" /\ callState[l] # "new"
  BY <1>1, <1>2
     DEF LegInv, TaskHasWorkers, MovesFrom, Moves, RemovalEnds, DeliveredWhereAssigned, Free
<1>4. after = "hung" => <<"hung", l>> \in wpFlaws'
  BY <1>2
<1>. HIDE DEF w, v, after
<1>5. Doing(after, w, v) \in TaskRecords
  BY <1>3 DEF Doing, TaskRecords
<1>6. PoolTypes'
  BY <1>1, <1>2, <1>5 DEF PoolTypes
<1>7. \A k \in Legs \ {l} : LegRests(k)
  BY <1>1, <1>2 DEF LegRests, WorkerRests, PoolTypes
<1>8. task'[l].do = after /\ task'[l].w = w /\ task'[l].to = v
  BY <1>1, <1>2 DEF PoolTypes, Doing
<1>9. (Ghost(l) => Ghost(l)') /\ (Told(l) => Told(l)') /\ (after = "hung" => Hangs(l)')
  BY <1>2, <1>4, HistoryGrows, HistoryTells
<1>10. KnownIsHosted(l)' /\ AssignedIsKnown(l)'
  BY <1>1, <1>2, <1>9 DEF LegInv, KnownIsHosted, AssignedIsKnown, InPool
<1>11. HostedWhereAssigned(l)' /\ DeliveredWhereAssigned(l)'
  BY <1>1, <1>2, <1>3, <1>8, <1>9 DEF LegInv, HostedWhereAssigned, DeliveredWhereAssigned, InPool
<1>12. /\ TaskHasWorkers(l)' /\ MovesFrom(l)' /\ MovesTo(l)' /\ AsksItsWorker(l)'
      /\ RemovalEnds(l)' /\ LockComesFree(l)'
  BY <1>1, <1>2, <1>3, <1>8, <1>9
     DEF TaskHasWorkers, MovesFrom, MovesTo, AsksItsWorker, RemovalEnds, LockComesFree, InPool,
         Moves
<1>. QED
  BY <1>2, <1>6, <1>7, <1>10, <1>11, <1>12, OneLegSteps DEF LegInv

\* The target took it, and the source is told to forget it.
LEMMA AcceptedStep ==
    ASSUME PoolAssumption, WpInv, NEW l \in Legs, Accepted(l)
    PROVE  WpInv'
<1>. DEFINE w == task[l].w v == task[l].to
            after == IF worker[w] \in {"leaving", "gone"} THEN "hung" ELSE "leaving"
<1>1. PoolTypes /\ LegInv(l)
  BY DEF WpInv
<1>2. /\ task[l].do = "accepting" /\ Answers(v)
      /\ hosts' = [hosts EXCEPT ![v] = hosts[v] \cup {l}]
      /\ known' = [known EXCEPT ![v] = known[v] \cup {l}]
      /\ bound' = [bound EXCEPT ![l] = v]
      /\ task' = [task EXCEPT ![l] = Doing(after, w, v)]
      /\ wpFlaws' = wpFlaws \cup (IF worker[w] \in {"leaving", "gone"} THEN {<<"hung", l>>} ELSE {})
      /\ UNCHANGED <<worker, assigned, callState, socket, closing, reap, faults>>
  BY DEF Accepted, Asks, Does, Flawed
<1>3. /\ w \in Workers /\ v \in Workers /\ v # w /\ worker[v] \in {"up", "leaving"}
      /\ worker[w] # "unused"
      /\ after = "leaving" => assigned[l] = w /\ InPool(w)
      /\ assigned[l] = w \/ assigned[l] = None
      /\ after \in {"hung", "leaving"} /\ callState[l] # "removed" /\ callState[l] # "new"
      /\ None \notin Workers
  BY <1>1, <1>2, LegTypes
     DEF LegInv, TaskHasWorkers, MovesFrom, Moves, RemovalEnds, DeliveredWhereAssigned, Free, Answers
<1>4. after = "hung" => <<"hung", l>> \in wpFlaws'
  BY <1>2
<1>. HIDE DEF w, v, after
<1>5. Doing(after, w, v) \in TaskRecords
  BY <1>3 DEF Doing, TaskRecords
<1>6. PoolTypes'
  BY <1>1, <1>2, <1>3, <1>5 DEF PoolTypes
<1>7. /\ \A k \in Legs \ {l} : \A u \in Workers : (k \in hosts'[u] <=> k \in hosts[u])
                                               /\ (k \in known'[u] <=> k \in known[u])
      /\ \A u \in Workers \ {v} : (l \in hosts'[u] <=> l \in hosts[u])
                                  /\ (l \in known'[u] <=> l \in known[u])
      /\ l \in hosts'[v] /\ l \in known'[v]
  BY <1>1, <1>2, <1>3 DEF PoolTypes
<1>8. \A k \in Legs \ {l} : LegRests(k)
  BY <1>1, <1>2, <1>7 DEF LegRests, WorkerRests, PoolTypes
<1>9. task'[l].do = after /\ task'[l].w = w /\ task'[l].to = v /\ bound'[l] = v
  BY <1>1, <1>2 DEF PoolTypes, Doing
<1>10. (Ghost(l) => Ghost(l)') /\ (after = "hung" => Hangs(l)')
  BY <1>2, <1>4, HistoryGrows, HistoryTells
<1>11. KnownIsHosted(l)'
  BY <1>1, <1>2, <1>3, <1>7, <1>10 DEF LegInv, KnownIsHosted
<1>12. HostedWhereAssigned(l)'
  BY <1>1, <1>2, <1>3, <1>7, <1>9, <1>10 DEF LegInv, HostedWhereAssigned
<1>13. AssignedIsKnown(l)'
  BY <1>1, <1>2, <1>3, <1>7 DEF LegInv, AssignedIsKnown, InPool
<1>14. /\ TaskHasWorkers(l)' /\ MovesFrom(l)' /\ MovesTo(l)' /\ AsksItsWorker(l)'
       /\ RemovalEnds(l)' /\ LockComesFree(l)' /\ DeliveredWhereAssigned(l)'
  BY <1>1, <1>2, <1>3, <1>7, <1>9, <1>10
     DEF TaskHasWorkers, MovesFrom, MovesTo, AsksItsWorker, RemovalEnds, LockComesFree, InPool,
         Moves, DeliveredWhereAssigned
<1>. QED
  BY <1>2, <1>6, <1>8, <1>11, <1>12, <1>13, <1>14, OneLegSteps DEF LegInv

\* The source forgot it, and leaves when that was its last leg.
LEMMA MovedStep ==
    ASSUME PoolAssumption, WpInv, NEW l \in Legs, Moved(l)
    PROVE  WpInv'
<1>. DEFINE w == task[l].w v == task[l].to
<1>1. PoolTypes /\ LegInv(l)
  BY DEF WpInv
<1>2. /\ task[l].do = "leaving" /\ Answers(w)
      /\ hosts' = [hosts EXCEPT ![w] = hosts[w] \ {l}]
      /\ known' = [known EXCEPT ![w] = known[w] \ {l}]
      /\ assigned' = [assigned EXCEPT ![l] = v]
      /\ \/ /\ InPool(w) /\ known[w] \ {l} = {} /\ worker' = Leave(w) /\ reap' = reap \ {w}
            /\ task' = [task EXCEPT ![l] = Doing("shutting", w, None)]
         \/ /\ worker' = worker /\ reap' = reap \cup {w} /\ task' = [task EXCEPT ![l] = Idle]
      /\ wpFlaws' = wpFlaws \cup (IF worker[v] = "gone" THEN {<<"unnoticed", l>>} ELSE {})
                            \cup (IF worker[v] = "leaving" THEN {<<"reaped", l>>} ELSE {})
      /\ UNCHANGED <<callState, socket, bound, closing, faults>>
  BY DEF Moved, Does, Ends
<1>3. /\ w \in Workers /\ v \in Workers /\ v # w /\ assigned[l] = w /\ worker[w] = "up"
      /\ worker[v] # "unused" /\ worker[v] # "fading" /\ bound[l] = v
      /\ InPool(v) => l \in known[v]
      /\ callState[l] # "removed" /\ callState[l] # "new" /\ None \notin Workers
  BY <1>1, <1>2, LegTypes
     DEF LegInv, TaskHasWorkers, MovesFrom, MovesTo, Moves, RemovalEnds, DeliveredWhereAssigned,
         Free, Answers, InPool
<1>. HIDE DEF w, v
<1>4. Doing("shutting", w, None) \in TaskRecords /\ Idle \in TaskRecords
  BY <1>3 DEF Doing, Idle, TaskRecords
<1>5. /\ worker' \in [Workers -> States] /\ \A u \in Workers \ {w} : worker'[u] = worker[u]
      /\ \/ worker'[w] = "up"
         \/ worker'[w] = "leaving" /\ known[w] \ {l} = {}
  BY <1>1, <1>2, <1>3 DEF Leave, PoolTypes, States
<1>6. PoolTypes'
  <2>1. task' \in [Legs -> TaskRecords]
    BY <1>1, <1>2, <1>4 DEF PoolTypes
  <2>3. reap' \subseteq Workers
    BY <1>1, <1>2, <1>3 DEF PoolTypes
  <2>2. /\ known' \in [Workers -> SUBSET Legs] /\ hosts' \in [Workers -> SUBSET Legs]
        /\ assigned' \in [Legs -> Workers \cup {None}]
    BY <1>1, <1>2, <1>3 DEF PoolTypes
  <2>. QED
    BY <1>1, <1>2, <1>5, <2>1, <2>2, <2>3 DEF PoolTypes
<1>7. /\ \A k \in Legs \ {l} : \A u \in Workers : (k \in hosts'[u] <=> k \in hosts[u])
                                               /\ (k \in known'[u] <=> k \in known[u])
      /\ \A u \in Workers \ {w} : (l \in hosts'[u] <=> l \in hosts[u])
                                  /\ (l \in known'[u] <=> l \in known[u])
      /\ l \notin hosts'[w] /\ l \notin known'[w]
  BY <1>1, <1>2, <1>3 DEF PoolTypes
<1>8. \A k \in Legs \ {l} : LegRests(k)
  <2>1. \A k \in Legs \ {l}, u \in Workers : WorkerRests(u, k)
    BY <1>3, <1>5, <1>7 DEF WorkerRests
  <2>. QED
    BY <1>1, <1>2, <1>7, <2>1 DEF LegRests, PoolTypes
<1>9. /\ assigned'[l] = v /\ bound'[l] = v
      /\ \/ task'[l].do = "idle"
         \/ task'[l].do = "shutting" /\ task'[l].w = w /\ worker'[w] = "leaving"
  BY <1>1, <1>2, <1>3 DEF PoolTypes, Doing, Idle, Leave
<1>10. /\ (Ghost(l) => Ghost(l)') /\ (worker[v] \in {"gone", "leaving"} => Told(l)')
  BY <1>2, HistoryGrows, HistoryTells
<1>11. KnownIsHosted(l)'
  BY <1>1, <1>2, <1>3, <1>5, <1>7, <1>10 DEF LegInv, KnownIsHosted
<1>12. HostedWhereAssigned(l)'
  <2>1. ASSUME NEW u \in Workers, worker'[u] = "up", l \in hosts'[u], ~Ghost(l)
        PROVE  u = v
    <3>1. u # w /\ worker[u] = "up" /\ l \in hosts[u]
      BY <1>5, <1>7, <2>1
    <3>2. u \in {w, v}
      BY <1>1, <1>2, <2>1, <3>1 DEF LegInv, HostedWhereAssigned, w, v
    <3>. QED
      BY <3>1, <3>2
  <2>. QED
    BY <1>9, <1>10, <2>1 DEF HostedWhereAssigned
<1>13. AssignedIsKnown(l)'
  BY <1>1, <1>2, <1>3, <1>5, <1>7, <1>9 DEF LegInv, AssignedIsKnown, InPool
<1>14. DeliveredWhereAssigned(l)'
  BY <1>2, <1>3, <1>5, <1>9, <1>10, <1>1 DEF DeliveredWhereAssigned, InPool, PoolTypes, States
<1>15. /\ TaskHasWorkers(l)' /\ MovesFrom(l)' /\ MovesTo(l)' /\ AsksItsWorker(l)'
       /\ RemovalEnds(l)' /\ LockComesFree(l)'
  BY <1>1, <1>2, <1>3, <1>5, <1>9
     DEF TaskHasWorkers, MovesFrom, MovesTo, AsksItsWorker, RemovalEnds, LockComesFree, Moves
<1>. QED
  BY <1>2, <1>6, <1>8, <1>11, <1>12, <1>13, <1>14, <1>15, OneLegSteps DEF LegInv

\* The rollback of a move.
LEMMA UndoneStep ==
    ASSUME PoolAssumption, WpInv, NEW l \in Legs, Undone(l)
    PROVE  WpInv'
<1>. DEFINE v == task[l].to
<1>1. PoolTypes /\ LegInv(l)
  BY DEF WpInv
<1>2. /\ task[l].do = "undoing" /\ Answers(v)
      /\ hosts' = [hosts EXCEPT ![v] = hosts[v] \ {l}]
      /\ known' = [known EXCEPT ![v] = known[v] \ {l}]
      /\ bound' = [bound EXCEPT ![l] = task[l].w] /\ task' = [task EXCEPT ![l] = Idle]
      /\ UNCHANGED <<worker, assigned, callState, socket, closing, reap, faults, wpFlaws>>
  BY DEF Undone, Ends
<1>3. /\ v \in Workers /\ task[l].w \in Workers /\ l \in closing /\ assigned[l] = None
      /\ callState[l] # "removed" /\ callState[l] # "new"
  BY <1>1, <1>2 DEF LegInv, TaskHasWorkers, MovesTo, Moves, RemovalEnds, DeliveredWhereAssigned, Free
<1>. HIDE DEF v
<1>4. Idle \in TaskRecords
  BY DEF Idle, TaskRecords
<1>5. PoolTypes'
  BY <1>1, <1>2, <1>3, <1>4 DEF PoolTypes
<1>6. /\ \A k \in Legs \ {l} : \A u \in Workers : (k \in hosts'[u] <=> k \in hosts[u])
                                               /\ (k \in known'[u] <=> k \in known[u])
      /\ \A u \in Workers \ {v} : (l \in hosts'[u] <=> l \in hosts[u])
                                  /\ (l \in known'[u] <=> l \in known[u])
      /\ l \notin hosts'[v] /\ l \notin known'[v]
  BY <1>1, <1>2, <1>3 DEF PoolTypes
<1>7. \A k \in Legs \ {l} : LegRests(k)
  BY <1>1, <1>2, <1>6 DEF LegRests, WorkerRests, PoolTypes
<1>8. task'[l].do = "idle"
  BY <1>1, <1>2 DEF PoolTypes, Idle
<1>9. KnownIsHosted(l)'
  BY <1>1, <1>2, <1>3, <1>6, HistorySame DEF LegInv, KnownIsHosted
<1>10. HostedWhereAssigned(l)'
  <2>1. ASSUME NEW u \in Workers, worker[u] = "up", l \in hosts'[u], ~Ghost(l)
        PROVE  FALSE
    <3>1. u # v /\ l \in hosts[u]
      BY <1>6, <2>1
    <3>. QED
      BY <1>1, <1>2, <2>1, <3>1 DEF LegInv, HostedWhereAssigned, v
  <2>. QED
    BY <1>2, <2>1, HistorySame DEF HostedWhereAssigned
<1>11. /\ AssignedIsKnown(l)' /\ DeliveredWhereAssigned(l)' /\ TaskHasWorkers(l)'
       /\ MovesFrom(l)' /\ MovesTo(l)' /\ AsksItsWorker(l)' /\ RemovalEnds(l)' /\ LockComesFree(l)'
  BY <1>2, <1>3, <1>8
     DEF AssignedIsKnown, DeliveredWhereAssigned, TaskHasWorkers, MovesFrom, MovesTo, AsksItsWorker,
         RemovalEnds, LockComesFree, Moves
<1>. QED
  BY <1>2, <1>5, <1>7, <1>9, <1>10, <1>11, OneLegSteps DEF LegInv

-----------------------------------------------------------------------------
(* The end of a worker.                                                      *)

\* What the exit of a dead worker does to each leg.
LEMMA ExitOfLeg ==
    ASSUME PoolAssumption, WpInv, NEW w \in Workers, NEW rejects \in BOOLEAN,
           WorkerExits(w, rejects), NEW k \in Legs
    PROVE  LET t == task[k]
               hit == Awaits(k) = w \/ ShutsDown(k, w) IN
           /\ worker[w] \in {"dead", "fading"} /\ worker' = [worker EXCEPT ![w] = "gone"]
           /\ assigned'[k] = (IF assigned[k] = w THEN None ELSE assigned[k])
           /\ k \in closing' <=> k \in closing \/ assigned[k] = w
           /\ \/ ~hit /\ task'[k] = t /\ bound'[k] = bound[k]
              \/ hit /\ t.do # "leaving" /\ task'[k] = Idle
                 /\ bound'[k] = (IF t.do = "accepting" THEN t.w ELSE bound[k])
              \/ hit /\ t.do = "leaving" /\ task'[k] = Doing("undoing", t.w, t.to)
                 /\ worker[t.to] \notin {"leaving", "gone"} /\ bound'[k] = bound[k]
              \/ hit /\ task'[k] = [t EXCEPT !.do = "hung"] /\ Hangs(k)'
                 /\ bound'[k] \in {bound[k], t.w}
           /\ hit /\ t.do = "removing" => Stranded(k)'
           /\ UNCHANGED <<known, hosts, callState, socket>> /\ wpFlaws \subseteq wpFlaws'
<1>. DEFINE t == task[k]
            hits == {l \in Legs : Awaits(l) = w \/ ShutsDown(l, w)}
            hit == Awaits(k) = w \/ ShutsDown(k, w)
<1>1. PoolTypes
  BY DEF WpInv
<1>2. /\ worker[w] \in {"dead", "fading"} /\ worker' = [worker EXCEPT ![w] = "gone"]
      /\ assigned'[k] = (IF assigned[k] = w THEN None ELSE assigned[k])
      /\ k \in closing' <=> k \in closing \/ assigned[k] = w
      /\ UNCHANGED <<known, hosts, callState, socket>>
  BY DEF WorkerExits
<1>3. k \in hits <=> hit
  OBVIOUS
<1>4. /\ task'[k] = (IF ~hit THEN t ELSE IF rejects THEN Rejected(k) ELSE [t EXCEPT !.do = "hung"])
      /\ bound'[k] = (IF rejects /\ hit /\ t.do = "accepting" THEN t.w ELSE bound[k])
  BY <1>3 DEF WorkerExits
<1>5. wpFlaws' = wpFlaws
         \cup {<<"stranded", l>> : l \in {l \in hits : task[l].do = "removing"}}
         \cup {<<"hung", l>> : l \in {l \in hits : task'[l].do = "hung"}}
  BY DEF WorkerExits
<1>. HIDE DEF hits
<1>6. wpFlaws \subseteq wpFlaws'
  BY <1>5
<1>7. hit /\ t.do = "removing" => Stranded(k)'
  <2>1. hit /\ t.do = "removing" => <<"stranded", k>> \in wpFlaws'
    BY <1>3, <1>5
  <2>. QED
    BY <2>1, HistoryTells
<1>8. hit /\ task'[k].do = "hung" => Hangs(k)'
  <2>1. hit /\ task'[k].do = "hung" => <<"hung", k>> \in wpFlaws'
    BY <1>3, <1>5
  <2>. QED
    BY <2>1, HistoryTells
<1>. HIDE DEF hit
<1>9. CASE ~hit
  BY <1>2, <1>4, <1>6, <1>7, <1>9 DEF hit
<1>10. CASE hit /\ rejects /\ t.do # "leaving"
  BY <1>2, <1>4, <1>6, <1>7, <1>10 DEF hit, Rejected
<1>11. CASE hit /\ rejects /\ t.do = "leaving" /\ worker[t.to] \notin {"leaving", "gone"}
  BY <1>2, <1>4, <1>6, <1>7, <1>11 DEF hit, Rejected
<1>12. CASE hit /\ rejects /\ t.do = "leaving" /\ worker[t.to] \in {"leaving", "gone"}
  <2>1. task'[k] = Doing("hung", t.w, t.to) /\ bound'[k] = bound[k]
    BY <1>4, <1>12 DEF Rejected
  <2>2. t \in TaskRecords
    BY <1>1 DEF PoolTypes
  <2>3. task'[k] = [t EXCEPT !.do = "hung"] /\ task'[k].do = "hung"
    BY <2>1, <2>2 DEF Doing, TaskRecords
  <2>. QED
    BY <1>2, <1>6, <1>7, <1>8, <1>12, <2>1, <2>3 DEF hit
<1>13. CASE hit /\ ~rejects
  <2>1. task'[k] = [t EXCEPT !.do = "hung"] /\ bound'[k] = bound[k]
    BY <1>4, <1>13
  <2>2. t \in TaskRecords
    BY <1>1 DEF PoolTypes
  <2>3. task'[k].do = "hung"
    BY <2>1, <2>2 DEF TaskRecords
  <2>. QED
    BY <1>2, <1>6, <1>7, <1>8, <1>13, <2>1, <2>3 DEF hit
<1>. QED
  BY <1>9, <1>10, <1>11, <1>12, <1>13

\* A dead worker's exit leaves each leg where its invariant wants it.
LEMMA ExitLegStep ==
    ASSUME PoolAssumption, WpInv, NEW w \in Workers, NEW rejects \in BOOLEAN,
           WorkerExits(w, rejects), NEW k \in Legs
    PROVE  /\ LegInv(k)' /\ task'[k] \in TaskRecords
           /\ bound'[k] \in Workers \cup {None} /\ assigned'[k] \in Workers \cup {None}
<1>. DEFINE t == task[k] hit == Awaits(k) = w \/ ShutsDown(k, w)
<1>1. PoolTypes /\ LegInv(k)
  BY DEF WpInv
<1>2. /\ worker[w] \in {"dead", "fading"} /\ worker' = [worker EXCEPT ![w] = "gone"]
      /\ assigned'[k] = (IF assigned[k] = w THEN None ELSE assigned[k])
      /\ k \in closing' <=> k \in closing \/ assigned[k] = w
      /\ \/ ~hit /\ task'[k] = t /\ bound'[k] = bound[k]
         \/ hit /\ t.do # "leaving" /\ task'[k] = Idle
            /\ bound'[k] = (IF t.do = "accepting" THEN t.w ELSE bound[k])
         \/ hit /\ t.do = "leaving" /\ task'[k] = Doing("undoing", t.w, t.to)
            /\ worker[t.to] \notin {"leaving", "gone"} /\ bound'[k] = bound[k]
         \/ hit /\ task'[k] = [t EXCEPT !.do = "hung"] /\ Hangs(k)'
            /\ bound'[k] \in {bound[k], t.w}
      /\ hit /\ t.do = "removing" => Stranded(k)'
      /\ UNCHANGED <<known, hosts, callState, socket>> /\ wpFlaws \subseteq wpFlaws'
  BY ExitOfLeg
<1>3. /\ (Told(k) => Told(k)') /\ (Ghost(k) => Ghost(k)')
      /\ (Stranded(k) => Stranded(k)') /\ (Hangs(k) => Hangs(k)')
  BY <1>2, HistoryGrows
<1>4. /\ t \in TaskRecords /\ t.w \in Workers \cup {None} /\ t.to \in Workers \cup {None}
      /\ assigned[k] \in Workers \cup {None} /\ bound[k] \in Workers \cup {None}
      /\ None \notin Workers
  BY <1>1, LegTypes
<1>5. /\ \A v \in Workers \ {w} : worker'[v] = worker[v]
      /\ worker'[w] = "gone" /\ ~InPool(w)'
      /\ \A v \in Workers \ {w} : InPool(v)' <=> InPool(v)
      /\ \A v \in Workers : worker'[v] = "unused" => worker[v] = "unused"
      /\ \A v \in Workers : worker[v] # "unused" => worker'[v] # "unused"
  BY <1>1, <1>2 DEF PoolTypes, InPool
<1>6. /\ t.do \in {"ensuring", "removing", "exporting", "leaving"} => (hit <=> t.w = w)
      /\ t.do \in {"accepting", "undoing"} => (hit <=> t.to = w)
      /\ t.do = "shutting" => (hit <=> t.w = w)
      /\ t.do \in {"idle", "configuring", "closing", "hung"} => ~hit
  BY <1>4 DEF Awaits, ShutsDown
<1>. HIDE DEF hit, t
<1>7. \/ ~hit /\ task'[k] = t /\ bound'[k] = bound[k]
      \/ hit /\ t.do # "leaving" /\ task'[k].do = "idle"
         /\ bound'[k] = (IF t.do = "accepting" THEN t.w ELSE bound[k])
      \/ /\ hit /\ t.do = "leaving" /\ task'[k].do = "undoing" /\ task'[k].w = t.w
         /\ task'[k].to = t.to /\ worker[t.to] \notin {"leaving", "gone"} /\ bound'[k] = bound[k]
      \/ hit /\ task'[k].do = "hung" /\ Hangs(k)'
  BY <1>2, <1>4 DEF Idle, Doing, TaskRecords
<1>8. /\ task'[k] \in TaskRecords
      /\ bound'[k] \in Workers \cup {None} /\ assigned'[k] \in Workers \cup {None}
  BY <1>2, <1>4 DEF Idle, Doing, TaskRecords
<1>9. t = task[k]
  BY DEF t
<1>10. KnownIsHosted(k)'
  BY <1>1, <1>2, <1>3, <1>5 DEF LegInv, KnownIsHosted
<1>11. AssignedIsKnown(k)'
  BY <1>1, <1>2, <1>4, <1>5 DEF LegInv, AssignedIsKnown
<1>12. TaskHasWorkers(k)'
  BY <1>1, <1>4, <1>5, <1>7, <1>9 DEF LegInv, TaskHasWorkers, Moves
<1>13. MovesFrom(k)'
  BY <1>1, <1>2, <1>4, <1>5, <1>6, <1>7, <1>9 DEF LegInv, MovesFrom, TaskHasWorkers, Moves
<1>14. MovesTo(k)'
  BY <1>1, <1>2, <1>4, <1>5, <1>6, <1>7, <1>9 DEF LegInv, MovesTo, MovesFrom, TaskHasWorkers, Moves
<1>15. AsksItsWorker(k)'
  BY <1>1, <1>2, <1>7, <1>9 DEF LegInv, AsksItsWorker
<1>16. HostedWhereAssigned(k)'
  <2>. SUFFICES ASSUME ~Ghost(k), NEW u \in Workers, worker'[u] = "up", k \in hosts[u]
       PROVE  /\ task'[k].do = "leaving" => u \in {task'[k].w, task'[k].to}
              /\ task'[k].do = "undoing" => u = task'[k].to
              /\ task'[k].do \notin {"leaving", "undoing", "hung"} => assigned'[k] = u
    BY <1>2, <1>3 DEF HostedWhereAssigned
  <2>1. u # w /\ worker[u] = "up"
    BY <1>5
  <2>2. /\ t.do = "leaving" => u \in {t.w, t.to}
        /\ t.do = "undoing" => u = t.to
        /\ t.do \notin {"leaving", "undoing", "hung"} => assigned[k] = u
    BY <1>1, <1>9, <2>1 DEF LegInv, HostedWhereAssigned
  <2>. QED
    BY <1>2, <1>6, <1>7, <2>1, <2>2
<1>17. RemovalEnds(k)'
  BY <1>1, <1>2, <1>3, <1>6, <1>7, <1>9 DEF LegInv, RemovalEnds
<1>18. LockComesFree(k)'
  BY <1>1, <1>3, <1>4, <1>5, <1>6, <1>7, <1>9 DEF LegInv, LockComesFree, TaskHasWorkers, Moves
<1>19. DeliveredWhereAssigned(k)'
  <2>1. CASE ~hit
    BY <1>1, <1>2, <1>3, <1>4, <1>5, <1>7, <1>9, <2>1 DEF LegInv, DeliveredWhereAssigned, Free
  <2>2. CASE task'[k].do \in {"undoing", "hung"}
    BY <1>1, <1>2, <1>6, <1>7, <1>9, <2>2 DEF LegInv, DeliveredWhereAssigned, Free
  <2>3. CASE hit /\ task'[k].do = "idle" /\ t.do = "accepting"
    BY <1>1, <1>2, <1>4, <1>5, <1>6, <1>7, <1>9, <2>3
       DEF LegInv, DeliveredWhereAssigned, MovesFrom, TaskHasWorkers, Moves, Free
  <2>4. CASE hit /\ task'[k].do = "idle" /\ t.do = "undoing"
    BY <1>1, <1>2, <1>9, <2>4 DEF LegInv, DeliveredWhereAssigned, MovesTo, Free
  <2>5. CASE hit /\ task'[k].do = "idle" /\ t.do \notin {"accepting", "undoing"}
    BY <1>1, <1>2, <1>3, <1>4, <1>5, <1>6, <1>7, <1>9, <2>5 DEF LegInv, DeliveredWhereAssigned, Free
  <2>. QED
    BY <1>7, <2>1, <2>2, <2>3, <2>4, <2>5
<1>. QED
  BY <1>8, <1>10, <1>11, <1>12, <1>13, <1>14, <1>15, <1>16, <1>17, <1>18, <1>19 DEF LegInv

LEMMA ExitStep ==
    ASSUME PoolAssumption, WpInv, NEW w \in Workers, NEW rejects \in BOOLEAN,
           WorkerExits(w, rejects)
    PROVE  WpInv'
<1>1. PoolTypes
  BY DEF WpInv
<1>2. \A k \in Legs : /\ LegInv(k)' /\ task'[k] \in TaskRecords
                      /\ bound'[k] \in Workers \cup {None} /\ assigned'[k] \in Workers \cup {None}
  BY ExitLegStep
<1>3. /\ worker' \in [Workers -> States] /\ reap' \subseteq Workers /\ closing' \subseteq Legs
      /\ UNCHANGED <<known, hosts, callState, socket>>
  BY <1>1 DEF WorkerExits, PoolTypes, States
<1>4. /\ task' = [k \in Legs |-> task'[k]] /\ bound' = [k \in Legs |-> bound'[k]]
      /\ assigned' = [k \in Legs |-> assigned'[k]]
  BY DEF WorkerExits
<1>5. PoolTypes'
  <2>1. /\ task' \in [Legs -> TaskRecords] /\ bound' \in [Legs -> Workers \cup {None}]
        /\ assigned' \in [Legs -> Workers \cup {None}]
    BY <1>2, <1>4
  <2>. QED
    BY <1>1, <1>3, <2>1 DEF PoolTypes
<1>. QED
  BY <1>2, <1>5 DEF WpInv

\* A worker that was told to shut down is gone, with the legs it was given since.
LEMMA ShutDownStep ==
    ASSUME PoolAssumption, WpInv, NEW w \in Workers, ShutDown(w)
    PROVE  WpInv'
<1>1. PoolTypes
  BY DEF WpInv
<1>2. /\ worker[w] = "leaving" /\ \A l \in Legs : Awaits(l) # w
      /\ worker' = [worker EXCEPT ![w] = "gone"] /\ hosts' = [hosts EXCEPT ![w] = {}]
      /\ known' = [known EXCEPT ![w] = {}]
      /\ assigned' = [l \in Legs |-> IF assigned[l] = w THEN None ELSE assigned[l]]
      /\ closing' = closing \cup {l \in Legs : assigned[l] = w}
      /\ task' = [l \in Legs |-> IF ShutsDown(l, w) THEN Idle ELSE task[l]]
      /\ UNCHANGED <<callState, socket, bound, reap, faults, wpFlaws>>
  BY DEF ShutDown
<1>3. PoolTypes'
  <2>1. Idle \in TaskRecords
    BY DEF Idle, TaskRecords
  <2>2. task' \in [Legs -> TaskRecords] /\ assigned' \in [Legs -> Workers \cup {None}]
    BY <1>1, <1>2, <2>1 DEF PoolTypes
  <2>3. /\ worker' \in [Workers -> States]
        /\ known' \in [Workers -> SUBSET Legs] /\ hosts' \in [Workers -> SUBSET Legs]
    BY <1>1, <1>2 DEF PoolTypes, States
  <2>. QED
    BY <1>1, <1>2, <2>2, <2>3 DEF PoolTypes
<1>4. ASSUME NEW k \in Legs PROVE LegInv(k)'
  <2>. DEFINE t == task[k]
  <2>1. LegInv(k)
    BY DEF WpInv
  <2>2. /\ t \in TaskRecords /\ t.w \in Workers \cup {None} /\ t.to \in Workers \cup {None}
        /\ assigned[k] \in Workers \cup {None} /\ bound[k] \in Workers \cup {None}
        /\ None \notin Workers
    BY <1>1, LegTypes
  <2>3. /\ t.do \in {"ensuring", "removing", "exporting", "leaving"} => t.w # w
        /\ t.do \in {"accepting", "undoing"} => t.to # w
    BY <1>2 DEF Awaits
  <2>4. /\ \/ task'[k] = t /\ (t.do = "shutting" => t.w # w)
           \/ t.do = "shutting" /\ task'[k].do = "idle"
        /\ assigned'[k] = (IF assigned[k] = w THEN None ELSE assigned[k])
        /\ k \in closing' <=> k \in closing \/ assigned[k] = w
    BY <1>2 DEF ShutsDown, Idle
  <2>. HIDE DEF t
  <2>5. t = task[k]
    BY DEF t
  <2>6. /\ \A v \in Workers \ {w} : worker'[v] = worker[v]
        /\ worker'[w] = "gone" /\ ~InPool(w)' /\ ~InPool(w)
        /\ \A v \in Workers \ {w} : InPool(v)' <=> InPool(v)
        /\ \A v \in Workers \ {w} : known'[v] = known[v] /\ hosts'[v] = hosts[v]
        /\ \A v \in Workers : worker[v] # "unused" => worker'[v] # "unused"
    BY <1>1, <1>2 DEF PoolTypes, InPool
  <2>7. KnownIsHosted(k)' /\ AssignedIsKnown(k)'
    <3>1. KnownIsHosted(k)'
      BY <1>2, <2>1, <2>6, HistorySame DEF LegInv, KnownIsHosted
    <3>2. AssignedIsKnown(k)'
      BY <2>1, <2>2, <2>4, <2>6 DEF LegInv, AssignedIsKnown
    <3>. QED
      BY <3>1, <3>2
  <2>8. TaskHasWorkers(k)'
    BY <2>1, <2>2, <2>4, <2>5, <2>6 DEF LegInv, TaskHasWorkers, Moves
  <2>9. MovesFrom(k)'
    BY <2>1, <2>2, <2>3, <2>4, <2>5, <2>6 DEF LegInv, MovesFrom, TaskHasWorkers, Moves
  <2>10. MovesTo(k)'
    <3>1. CASE t.do = "leaving"
      <4>1. task'[k] = t /\ t.to \in Workers /\ bound'[k] = t.to /\ worker[t.to] # "fading"
        BY <1>2, <2>1, <2>4, <2>5, <3>1 DEF LegInv, MovesTo, TaskHasWorkers, Moves
      <4>2. worker'[t.to] # "fading" /\ (worker'[t.to] \in {"up", "dead"} => k \in known'[t.to])
        BY <2>1, <2>5, <2>6, <3>1, <4>1 DEF LegInv, MovesTo, InPool
      <4>. QED
        BY <2>5, <3>1, <4>1, <4>2 DEF MovesTo, InPool
    <3>2. CASE t.do # "leaving"
      BY <2>1, <2>2, <2>4, <2>5, <3>2 DEF LegInv, MovesTo
    <3>. QED
      BY <3>1, <3>2
  <2>11. AsksItsWorker(k)'
    BY <2>1, <2>4, <2>5 DEF LegInv, AsksItsWorker
  <2>12. DeliveredWhereAssigned(k)'
    BY <1>2, <2>1, <2>2, <2>4, <2>5, <2>6, HistorySame DEF LegInv, DeliveredWhereAssigned, Free
  <2>13. HostedWhereAssigned(k)'
    <3>. SUFFICES ASSUME ~Ghost(k), NEW u \in Workers, worker'[u] = "up", k \in hosts'[u]
         PROVE  /\ task'[k].do = "leaving" => u \in {task'[k].w, task'[k].to}
                /\ task'[k].do = "undoing" => u = task'[k].to
                /\ task'[k].do \notin {"leaving", "undoing", "hung"} => assigned'[k] = u
      BY <1>2, HistorySame DEF HostedWhereAssigned
    <3>1. u # w /\ worker[u] = "up" /\ k \in hosts[u]
      BY <2>6
    <3>2. /\ t.do = "leaving" => u \in {t.w, t.to}
          /\ t.do = "undoing" => u = t.to
          /\ t.do \notin {"leaving", "undoing", "hung"} => assigned[k] = u
      BY <2>1, <2>5, <3>1 DEF LegInv, HostedWhereAssigned
    <3>. QED
      BY <2>4, <3>1, <3>2
  <2>14. RemovalEnds(k)'
    BY <1>2, <2>1, <2>4, <2>5, HistorySame DEF LegInv, RemovalEnds
  <2>15. LockComesFree(k)'
    BY <1>2, <2>1, <2>2, <2>3, <2>4, <2>5, <2>6, HistorySame
       DEF LegInv, LockComesFree, TaskHasWorkers, Moves
  <2>. QED
    BY <2>7, <2>8, <2>9, <2>10, <2>11, <2>12, <2>13, <2>14, <2>15 DEF LegInv
<1>. QED
  BY <1>3, <1>4 DEF WpInv

LEMMA WpStepHolds == PoolAssumption /\ WpInv /\ [WpNext]_wpVars => WpInv'
<1>. SUFFICES ASSUME PoolAssumption, WpInv, [WpNext]_wpVars PROVE WpInv'
  OBVIOUS
<1>1. ASSUME NEW l \in Legs, LegArrives(l) \/ Hangup(l) \/ HandleTransportClosed(l)
      PROVE  WpInv'
  BY <1>1, CallSteps
<1>2. ASSUME NEW l \in Legs, EnsureBegins(l) \/ LegEnsured(l) PROVE WpInv'
  BY <1>2, EnsureBeginStep, EnsuredStep
<1>3. ASSUME NEW l \in Legs, NEW w \in Workers, EnsureAsks(l, w) PROVE WpInv'
  BY <1>3, EnsureAskStep
<1>4. ASSUME NEW l \in Legs, NEW made \in BOOLEAN, EnsureFails(l, made) PROVE WpInv'
  BY <1>4, EnsureFailStep
<1>5. ASSUME NEW l \in Legs, RemoveBegins(l) \/ Removed(l) \/ CloseDone(l) PROVE WpInv'
  BY <1>5, RemoveBeginStep, RemovedStep, CloseStep
<1>6. ASSUME NEW l \in Legs, NEW p \in Legs, MigrateBegins(l, p) PROVE WpInv'
  BY <1>6, MigrateStep
<1>7. ASSUME NEW l \in Legs, Exported(l) \/ Accepted(l) \/ Moved(l) \/ Undone(l) PROVE WpInv'
  BY <1>7, ExportedStep, AcceptedStep, MovedStep, UndoneStep
<1>8. ASSUME NEW w \in Workers, ReapTimerFires(w) \/ WorkerDies(w) PROVE WpInv'
  BY <1>8, WorkerSteps
<1>9. ASSUME NEW w \in Workers, ShutDown(w) PROVE WpInv'
  BY <1>9, ShutDownStep
<1>10. ASSUME NEW w \in Workers, NEW rejects \in BOOLEAN, WorkerExits(w, rejects) PROVE WpInv'
  BY <1>10, ExitStep
<1>11. CASE UNCHANGED wpVars
  <2>1. UNCHANGED <<worker, known, hosts, assigned, callState, socket, bound, task, closing, reap,
                    faults, wpFlaws>>
    BY <1>11 DEF wpVars
  <2>2. PoolTypes' /\ \A k \in Legs : LegRests(k)
    BY <2>1 DEF WpInv, PoolTypes, LegRests, WorkerRests
  <2>. QED
    BY <2>1, <2>2, NoLegSteps
<1>. QED
  BY <1>1, <1>2, <1>3, <1>4, <1>5, <1>6, <1>7, <1>8, <1>9, <1>10, <1>11 DEF WpNext

\* A set with no two members has at most one.
LEMMA AtMostOne ==
    ASSUME NEW S, \A x, y \in S : x = y
    PROVE  ~(Cardinality(S) > 1)
<1>1. CASE S = {}
  BY <1>1, FS_EmptySet
<1>2. CASE S # {}
  <2>1. PICK x \in S : TRUE
    BY <1>2
  <2>2. S = {x}
    BY <2>1
  <2>3. Cardinality(S) = 1
    BY <2>2, FS_Singleton
  <2>. QED
    BY <2>3
<1>. QED
  BY <1>1, <1>2

\* What the pool promises it keeps: a live leg is carried by a worker of the
\* pool or its call is about to end, it has one endpoint, one that was removed
\* leaves nothing, and its lock comes free, up to the races the history records
\* (media/media-service.ts).
THEOREM PoolIsSafe == WpSpec => []PoolSafe
<1>1. WpInit => WpInv
  BY WpInitHolds, PoolAssumption
<1>2. WpInv /\ [WpNext]_wpVars => WpInv'
  BY WpStepHolds, PoolAssumption
<1>3. WpInv => PoolSafe
  <2>. SUFFICES ASSUME WpInv PROVE PoolSafe
    OBVIOUS
  <2>1. PoolTypes /\ \A l \in Legs : LegInv(l)
    BY DEF WpInv
  <2>2. \A l \in Legs :
            /\ task[l].w \in Workers \cup {None} /\ task[l].to \in Workers \cup {None}
            /\ assigned[l] \in Workers \cup {None} /\ bound[l] \in Workers \cup {None}
            /\ None \notin Workers /\ task[l] \in TaskRecords
    BY <2>1, LegTypes, PoolAssumption
  <2>3. LiveLegIsCarried
    <3>1. ASSUME NEW l \in Legs, callState[l] = "live", Free(l), Placed(l)
          PROVE  \/ l \in closing
                 \/ worker[bound[l]] = "dead" /\ assigned[l] = bound[l]
                 \/ worker[bound[l]] = "up" /\ l \in hosts[bound[l]] /\ assigned[l] = bound[l]
                 \/ l \in Had("reaped") \cup Had("unnoticed")
      <4>1. l \in closing \/ Told(l) \/ (assigned[l] = bound[l] /\ InPool(bound[l]))
        BY <2>1, <3>1 DEF LegInv, DeliveredWhereAssigned, Free, Placed
      <4>2. bound[l] \in Workers
        BY <2>2, <3>1 DEF Placed
      <4>. QED
        BY <2>1, <2>2, <4>1, <4>2 DEF LegInv, AssignedIsKnown, KnownIsHosted, InPool, Told
    <3>. QED
      BY <3>1 DEF LiveLegIsCarried
  <2>4. OneEndpoint
    <3>1. ASSUME NEW l \in Legs, task[l].do \notin {"leaving", "undoing", "hung"}, ~Ghost(l)
          PROVE  ~(Cardinality({w \in Workers : worker[w] = "up" /\ l \in hosts[w]}) > 1)
      <4>. DEFINE S == {w \in Workers : worker[w] = "up" /\ l \in hosts[w]}
      <4>1. \A x, y \in S : x = y
        BY <2>1, <3>1 DEF LegInv, HostedWhereAssigned
      <4>. HIDE DEF S
      <4>2. ~(Cardinality(S) > 1)
        BY <4>1, AtMostOne
      <4>. QED
        BY <4>2 DEF S
    <3>. QED
      BY <3>1 DEF OneEndpoint, Ghost
  <2>5. RemovedIsGone
    <3>1. ASSUME NEW l \in Legs, callState[l] = "removed", Free(l), ~Stranded(l), ~Ghost(l)
          PROVE  /\ socket[l] \in {"none", "closed"} /\ assigned[l] = None
                 /\ \A w \in Workers : worker[w] = "up" => l \notin hosts[w] \cup known[w]
      <4>1. socket[l] = "closed" /\ assigned[l] = None /\ task[l].do = "idle"
        BY <2>1, <3>1 DEF LegInv, RemovalEnds, Free
      <4>2. \A w \in Workers : worker[w] = "up" => l \notin hosts[w]
        BY <2>1, <2>2, <3>1, <4>1 DEF LegInv, HostedWhereAssigned
      <4>. QED
        BY <2>1, <4>1, <4>2 DEF LegInv, KnownIsHosted
    <3>. QED
      BY <3>1 DEF RemovedIsGone, Stranded, Ghost
  <2>6. PoolKnowsItsLegs
    <3>1. ASSUME NEW w \in Workers, worker[w] = "up"
          PROVE  known[w] = {l \in hosts[w] : l \notin Had("ghost") \/ l \in known[w]}
      <4>1. known[w] \subseteq Legs /\ hosts[w] \subseteq Legs
        BY <2>1 DEF PoolTypes
      <4>. QED
        BY <2>1, <3>1, <4>1 DEF LegInv, KnownIsHosted, Ghost
    <3>. QED
      BY <3>1 DEF PoolKnowsItsLegs
  <2>7. LocksComeFree
    <3>1. ASSUME NEW l \in Legs, ~Free(l), task[l].do \notin {"configuring", "closing"}, ~Hangs(l)
          PROVE  \/ \E w \in Workers : ShutsDown(l, w) /\ worker[w] \in {"leaving", "fading"}
                 \/ Awaits(l) # None /\ worker[Awaits(l)] \notin {"unused", "gone"}
      <4>. DEFINE d == task[l].do
      <4>1. d \in {"shutting", "ensuring", "removing", "exporting", "leaving", "accepting", "undoing"}
        BY <2>1, <2>2, <3>1 DEF LegInv, LockComesFree, TaskRecords, Free
      <4>2. CASE d = "shutting"
        BY <2>1, <4>2 DEF LegInv, LockComesFree, TaskHasWorkers, ShutsDown
      <4>3. CASE d \in {"ensuring", "removing", "exporting", "leaving"}
        <5>1. Awaits(l) = task[l].w
          BY <4>3 DEF Awaits
        <5>. QED
          BY <2>1, <2>2, <4>3, <5>1 DEF LegInv, LockComesFree, TaskHasWorkers, Moves
      <4>4. CASE d \in {"accepting", "undoing"}
        <5>1. Awaits(l) = task[l].to
          BY <4>4 DEF Awaits
        <5>. QED
          BY <2>1, <2>2, <4>4, <5>1 DEF LegInv, LockComesFree, TaskHasWorkers, Moves
      <4>. QED
        BY <4>1, <4>2, <4>3, <4>4
    <3>. QED
      BY <3>1 DEF LocksComeFree, Hangs
  <2>. QED
    BY <2>1, <2>3, <2>4, <2>5, <2>6, <2>7, PoolTypesHold DEF PoolSafe
<1>. QED
  BY <1>1, <1>2, <1>3, PTL DEF WpSpec

-----------------------------------------------------------------------------
(* The RTP transport.  A packet is numbered as it arrives, so that digits     *)
(* come out in order if every place a packet can wait in is sorted, and if    *)
(* all that waits behind comes later than all that waits ahead: in the source *)
(* of a move, then in its target, then held back in the attachment.           *)

Stages == {"new", "placing", "placed", "ensuring", "exporting", "accepting", "leaving",
           "moved", "gone"}

RtTypes ==
    /\ control \in {0} \cup Workers2 /\ holding \in BOOLEAN /\ stage \in Stages
    /\ arrived \in Seq(1 .. MaxEvents)
    /\ early \in Seq(Nat) /\ Len(early) =< MaxPending
    /\ inbox \in [Workers2 -> Seq(Nat)]
    /\ last \in [Workers2 -> 0 .. MaxEvents]
    /\ next \in [Workers2 -> 0 .. Modulus - 1]
    /\ reported \in Seq([packet : Nat, event : 1 .. MaxEvents, by : Workers2])
    /\ sent \in Seq([n : 0 .. Modulus - 1, by : Workers2, late : BOOLEAN])

SocketTypes ==
    /\ udp \in [state : {"none", "binding", "open", "closed"}, leaked : BOOLEAN]
    /\ {remote, setup, heard} \subseteq Remotes \cup {"none"}
    /\ shut \in BOOLEAN /\ died \in BOOLEAN /\ reportedClosed \in BOOLEAN

\* What the attachment knows of its socket.
SocketInv == SocketTypes /\ RemoteIsLatest /\ SocketIsAccounted

\* The attachment is bound where the leg is, and holds back while it moves; the
\* target is fed only when the source is drained.
StageBinds ==
    /\ stage \in {"new", "placing"} => control = 0 /\ sent = <<>>
    /\ stage \in {"placed", "ensuring", "exporting", "accepting"} => control = 1
    /\ stage \in {"leaving", "moved"} => control = 2
    /\ stage \in {"accepting", "leaving", "gone"} => holding
    /\ stage = "moved" => inbox[1] = <<>>
    /\ inbox[2] # <<>> => inbox[1] = <<>> /\ stage \in {"moved", "gone"}
    /\ early # <<>> => holding \/ control = 0

\* A sequence of packets is sorted (the message of the closed transport may
\* come in between), below a bound, or all of it before another.
Rising(s) == \A i, j \in 1 .. Len(s) : i < j /\ s[j] # Closed => s[i] < s[j]
Below(s, n) == \A i \in 1 .. Len(s) : s[i] =< n
Before(s, t) == \A i \in 1 .. Len(s), j \in 1 .. Len(t) : t[j] # Closed => s[i] < t[j]
ReportedBefore(r, s) ==
    \A k \in 1 .. Len(r), j \in 1 .. Len(s) : s[j] # Closed => r[k].packet < s[j]

PacketsInOrder ==
    /\ \A w \in Workers2 : /\ Rising(inbox[w]) /\ Below(inbox[w], Len(arrived))
                           /\ Before(inbox[w], early) /\ ReportedBefore(reported, inbox[w])
    /\ Rising(early) /\ Below(early, Len(arrived)) /\ ReportedBefore(reported, early)

\* What a report says of its packet.
ReportsArrived ==
    \A k \in 1 .. Len(reported) : /\ reported[k].packet \in 1 .. Len(arrived)
                                  /\ reported[k].event = arrived[reported[k].packet]

\* The last key of a worker is that of its latest report.
LastIsLatest ==
    \A w \in Workers2 :
        IF last[w] = 0 THEN \A k \in 1 .. Len(reported) : reported[k].by # w
        ELSE \E k \in 1 .. Len(reported) :
                /\ reported[k].by = w /\ reported[k].event = last[w]
                /\ \A h \in k + 1 .. Len(reported) : reported[h].by # w

\* Where a packet may be.
Waits(m) == m \in ToSet(early) \cup ToSet(inbox[1]) \cup ToSet(inbox[2]) \cup lost
Answered(e) == \E k \in 1 .. Len(reported) : reported[k].event = e
NoneForgotten == \A m \in 1 .. Len(arrived) : Waits(m) \/ Answered(arrived[m])

\* Both counters stand behind what was sent last: the one that sends, and the
\* one that will after the move.
LastSent == sent[Len(sent)].n
Numbered ==
    sent # <<>> /\ (\A k \in 1 .. Len(sent) : ~sent[k].late) =>
        /\ stage \in {"placed", "ensuring", "exporting", "accepting", "leaving"} =>
              next[1] = Advance(LastSent)
        /\ stage \in {"exporting", "accepting", "leaving", "moved"} => next[2] = Advance(LastSent)

PathInv == StageBinds /\ PacketsInOrder /\ NoneForgotten
DigitInv == ReportsArrived /\ LastIsLatest /\ InOrder /\ OncePerDigit
NumberInv == Numbered /\ NumbersGoOn
RtInv == RtTypes /\ SocketInv /\ PathInv /\ DigitInv /\ NumberInv

\* The elements of a sequence.
LEMMA Elements ==
  ASSUME NEW s \in Seq(Nat), NEW t \in Seq(Nat), NEW m \in Nat
  PROVE  /\ ToSet(s \o t) = ToSet(s) \cup ToSet(t)
         /\ ToSet(Append(s, m)) = ToSet(s) \cup {m}
         /\ ToSet(<<>>) = {}
         /\ s # <<>> => ToSet(s) \subseteq {Head(s)} \cup ToSet(Tail(s))
<1>1. /\ \A q \in Seq(Nat) : ToSet(q) = {q[i] : i \in 1 .. Len(q)}
      /\ ToSet(<<>>) = {}
  <2>1. ASSUME NEW q \in Seq(Nat)
        PROVE  ToSet(q) = {q[i] : i \in 1 .. Len(q)}
    <3>1. DOMAIN q = 1 .. Len(q)
      OBVIOUS
    <3>. QED
      BY <3>1 DEF ToSet
  <2>2. <<>> \in Seq(Nat) /\ 1 .. Len(<<>>) = {}
    OBVIOUS
  <2>3. ToSet(<<>>) = {<<>>[i] : i \in {}}
    BY <2>1, <2>2, Zenon
  <2>. QED
    BY <2>1, <2>3
<1>2. ToSet(s \o t) = ToSet(s) \cup ToSet(t)
  <2>1. s \o t \in Seq(Nat) /\ Len(s \o t) = Len(s) + Len(t)
    OBVIOUS
  <2>2. ToSet(s \o t) = {(s \o t)[i] : i \in 1 .. Len(s) + Len(t)}
    BY <1>1, <2>1
  <2>3. \A i \in 1 .. Len(s) : (s \o t)[i] = s[i]
    OBVIOUS
  <2>4. \A i \in 1 .. Len(t) : (s \o t)[Len(s) + i] = t[i] /\ Len(s) + i \in 1 .. Len(s) + Len(t)
    OBVIOUS
  <2>5. \A i \in 1 .. Len(s) + Len(t) :
            i \in 1 .. Len(s) \/ (i - Len(s) \in 1 .. Len(t) /\ Len(s) + (i - Len(s)) = i)
    OBVIOUS
  <2>6. ToSet(s \o t) \subseteq ToSet(s) \cup ToSet(t)
    <3>1. ASSUME NEW i \in 1 .. Len(s) + Len(t)
          PROVE  (s \o t)[i] \in ToSet(s) \cup ToSet(t)
      <4>1. CASE i \in 1 .. Len(s)
        BY <1>1, <2>3, <4>1
      <4>2. CASE i - Len(s) \in 1 .. Len(t) /\ Len(s) + (i - Len(s)) = i
        <5>1. (s \o t)[i] = t[i - Len(s)]
          BY <2>4, <4>2
        <5>. QED
          BY <1>1, <4>2, <5>1
      <4>. QED
        BY <2>5, <4>1, <4>2
    <3>. QED
      BY <2>2, <3>1
  <2>7. ToSet(s) \subseteq ToSet(s \o t)
    <3>1. \A i \in 1 .. Len(s) : i \in 1 .. Len(s) + Len(t)
      OBVIOUS
    <3>. QED
      BY <1>1, <2>2, <2>3, <3>1
  <2>8. ToSet(t) \subseteq ToSet(s \o t)
    <3>1. ASSUME NEW i \in 1 .. Len(t)
          PROVE  t[i] \in ToSet(s \o t)
      BY <2>2, <2>4
    <3>. QED
      BY <1>1, <3>1
  <2>. QED
    BY <2>6, <2>7, <2>8
<1>3. ToSet(Append(s, m)) = ToSet(s) \cup {m}
  <2>1. Append(s, m) \in Seq(Nat) /\ Len(Append(s, m)) = Len(s) + 1
    OBVIOUS
  <2>2. ToSet(Append(s, m)) = {Append(s, m)[i] : i \in 1 .. Len(s) + 1}
    BY <1>1, <2>1
  <2>3. \A i \in 1 .. Len(s) : Append(s, m)[i] = s[i]
    OBVIOUS
  <2>4. Append(s, m)[Len(s) + 1] = m
    OBVIOUS
  <2>. QED
    BY <1>1, <2>2, <2>3, <2>4
<1>4. s # <<>> => ToSet(s) \subseteq {Head(s)} \cup ToSet(Tail(s))
  <2>1. ASSUME s # <<>>
        PROVE  ToSet(s) \subseteq {Head(s)} \cup ToSet(Tail(s))
    <3>1. Tail(s) \in Seq(Nat) /\ Len(Tail(s)) = Len(s) - 1
      BY <2>1
    <3>2. ToSet(Tail(s)) = {Tail(s)[i] : i \in 1 .. Len(s) - 1}
      BY <1>1, <3>1
    <3>3. \A i \in 1 .. Len(s) : i = 1 \/ (i - 1 \in 1 .. Len(s) - 1 /\ Tail(s)[i - 1] = s[i])
      BY <2>1
    <3>4. Head(s) = s[1]
      BY <2>1
    <3>5. ASSUME NEW i \in 1 .. Len(s)
          PROVE  s[i] \in {Head(s)} \cup ToSet(Tail(s))
      BY <3>2, <3>3, <3>4
    <3>. QED
      BY <1>1, <3>5
  <2>. QED
    BY <2>1
<1>. QED
  BY <1>1, <1>2, <1>3, <1>4

\* What is appended comes last.
LEMMA AppendKeeps ==
  ASSUME NEW s \in Seq(Nat), NEW t \in Seq(Nat), NEW m \in Nat, NEW n \in Nat, NEW r,
         Rising(s), Below(s, n), Before(t, s), ReportedBefore(r, s),
         NEW b \in Nat, n =< b, m =< b,
         m # Closed => /\ n < m /\ Below(t, n)
                       /\ \A k \in 1 .. Len(r) : r[k].packet < m
  PROVE  /\ Append(s, m) \in Seq(Nat)
         /\ Rising(Append(s, m)) /\ Below(Append(s, m), b)
         /\ Before(t, Append(s, m)) /\ ReportedBefore(r, Append(s, m))
<1>1. /\ Append(s, m) \in Seq(Nat) /\ Len(Append(s, m)) = Len(s) + 1
      /\ \A i \in 1 .. Len(s) : Append(s, m)[i] = s[i] /\ s[i] \in Nat
      /\ Append(s, m)[Len(s) + 1] = m
      /\ \A i \in 1 .. Len(s) + 1 : i \in 1 .. Len(s) \/ i = Len(s) + 1
      /\ Len(s) \in Nat
  OBVIOUS
<1>2. \A i \in 1 .. Len(t) : t[i] \in Nat
  OBVIOUS
<1>3. ASSUME NEW i \in 1 .. Len(s) + 1, NEW j \in 1 .. Len(s) + 1,
             i < j, Append(s, m)[j] # Closed
      PROVE  Append(s, m)[i] < Append(s, m)[j]
  <2>1. i \in 1 .. Len(s) /\ Append(s, m)[i] = s[i] /\ s[i] =< n /\ s[i] \in Nat
    BY <1>1, <1>3 DEF Below
  <2>2. CASE j \in 1 .. Len(s)
    <3>1. Append(s, m)[j] = s[j]
      BY <1>1, <2>2
    <3>. QED
      BY <1>3, <2>1, <2>2, <3>1 DEF Rising
  <2>3. CASE j = Len(s) + 1
    BY <1>1, <1>3, <2>1, <2>3
  <2>. QED
    BY <1>1, <2>2, <2>3
<1>4. Below(Append(s, m), b)
  BY <1>1 DEF Below
<1>5. ASSUME NEW i \in 1 .. Len(t), NEW j \in 1 .. Len(s) + 1, Append(s, m)[j] # Closed
      PROVE  t[i] < Append(s, m)[j]
  <2>1. CASE j \in 1 .. Len(s)
    <3>1. Append(s, m)[j] = s[j]
      BY <1>1, <2>1
    <3>. QED
      BY <1>5, <2>1, <3>1 DEF Before
  <2>2. CASE j = Len(s) + 1
    <3>1. Append(s, m)[j] = m /\ t[i] \in Nat
      BY <1>1, <1>2, <2>2
    <3>2. t[i] =< n /\ n < m
      BY <1>5, <3>1 DEF Below
    <3>. QED
      BY <3>1, <3>2
  <2>. QED
    BY <1>1, <2>1, <2>2
<1>6. ReportedBefore(r, Append(s, m))
  BY <1>1 DEF ReportedBefore
<1>7. Rising(Append(s, m))
  BY <1>1, <1>3 DEF Rising
<1>8. Before(t, Append(s, m))
  BY <1>1, <1>5 DEF Before
<1>. QED
  BY <1>1, <1>4, <1>6, <1>7, <1>8

\* What is left when the first goes.
LEMMA TailKeeps ==
  ASSUME NEW s \in Seq(Nat), s # <<>>, NEW t \in Seq(Nat), NEW n \in Nat, NEW r,
         Rising(s), Below(s, n), ReportedBefore(r, s)
  PROVE  /\ Tail(s) \in Seq(Nat) /\ Len(Tail(s)) = Len(s) - 1
         /\ Rising(Tail(s)) /\ Below(Tail(s), n) /\ ReportedBefore(r, Tail(s))
         /\ Before(t, s) => Before(t, Tail(s))
         /\ Before(s, t) => Before(Tail(s), t)
         /\ Head(s) \in Nat /\ Head(s) =< n
         /\ \A j \in 1 .. Len(Tail(s)) : Tail(s)[j] # Closed => Head(s) < Tail(s)[j]
<1>1. /\ Tail(s) \in Seq(Nat) /\ Len(Tail(s)) = Len(s) - 1
      /\ \A i \in 1 .. Len(s) - 1 : /\ Tail(s)[i] = s[i + 1] /\ i + 1 \in 1 .. Len(s)
                                    /\ 1 < i + 1
      /\ Head(s) = s[1] /\ 1 \in 1 .. Len(s) /\ s[1] \in Nat /\ Len(s) \in Nat
  OBVIOUS
<1>2. Rising(Tail(s))
  BY <1>1 DEF Rising
<1>3. Below(Tail(s), n) /\ ReportedBefore(r, Tail(s)) /\ Head(s) =< n
  BY <1>1 DEF Below, ReportedBefore
<1>4. (Before(t, s) => Before(t, Tail(s))) /\ (Before(s, t) => Before(Tail(s), t))
  BY <1>1 DEF Before
<1>5. \A j \in 1 .. Len(Tail(s)) : Tail(s)[j] # Closed => Head(s) < Tail(s)[j]
  BY <1>1 DEF Rising
<1>. QED
  BY <1>1, <1>2, <1>3, <1>4, <1>5

\* Two sorted sequences, one behind the other.
LEMMA ConcatKeeps ==
  ASSUME NEW s \in Seq(Nat), NEW t \in Seq(Nat), NEW n \in Nat, NEW r,
         Rising(s), Below(s, n), ReportedBefore(r, s),
         Rising(t), Below(t, n), ReportedBefore(r, t), Before(s, t)
  PROVE  /\ s \o t \in Seq(Nat)
         /\ Rising(s \o t) /\ Below(s \o t, n) /\ ReportedBefore(r, s \o t)
<1>1. /\ s \o t \in Seq(Nat) /\ Len(s \o t) = Len(s) + Len(t)
      /\ Len(s) \in Nat /\ Len(t) \in Nat
      /\ \A i \in 1 .. Len(s) : (s \o t)[i] = s[i] /\ s[i] \in Nat
      /\ \A i \in 1 .. Len(s) + Len(t) :
            i \notin 1 .. Len(s) => /\ i - Len(s) \in 1 .. Len(t) /\ Len(s) < i
                                    /\ (s \o t)[i] = t[i - Len(s)]
      /\ \A i \in 1 .. Len(t) : t[i] \in Nat
  OBVIOUS
<1>2. Rising(s \o t)
  <2>1. ASSUME NEW i \in 1 .. Len(s) + Len(t), NEW j \in 1 .. Len(s) + Len(t),
               i < j, (s \o t)[j] # Closed
        PROVE  (s \o t)[i] < (s \o t)[j]
    <3>1. CASE j \in 1 .. Len(s)
      BY <1>1, <2>1, <3>1 DEF Rising
    <3>2. CASE j \notin 1 .. Len(s) /\ i \in 1 .. Len(s)
      BY <1>1, <2>1, <3>2 DEF Before
    <3>3. CASE i \notin 1 .. Len(s) /\ j \notin 1 .. Len(s)
      <4>1. i - Len(s) < j - Len(s)
        BY <1>1, <2>1
      <4>. QED
        BY <1>1, <2>1, <3>3, <4>1 DEF Rising
    <3>4. i \notin 1 .. Len(s) => j \notin 1 .. Len(s)
      BY <1>1, <2>1
    <3>. QED
      BY <3>1, <3>2, <3>3, <3>4
  <2>. QED
    BY <1>1, <2>1 DEF Rising
<1>3. Below(s \o t, n)
  BY <1>1 DEF Below
<1>4. ReportedBefore(r, s \o t)
  BY <1>1 DEF ReportedBefore
<1>. QED
  BY <1>1, <1>2, <1>3, <1>4

LEMMA NoPackets ==
  /\ <<>> \in Seq(Nat) /\ Len(<<>>) = 0 /\ Rising(<<>>)
  /\ \A r : ReportedBefore(r, <<>>)
  /\ \A n : Below(<<>>, n)
  /\ \A s : Before(s, <<>>) /\ Before(<<>>, s)
<1>1. <<>> \in Seq(Nat) /\ Len(<<>>) = 0 /\ 1 .. 0 = {}
  OBVIOUS
<1>. QED
  BY <1>1 DEF Rising, ReportedBefore, Below, Before

\* A longer history of arrivals changes nothing for what waits.
LEMMA BelowGrows ==
  ASSUME NEW s \in Seq(Nat), NEW n \in Nat, NEW b \in Nat, n =< b, Below(s, n)
  PROVE  Below(s, b)
<1>1. \A i \in 1 .. Len(s) : s[i] \in Nat
  OBVIOUS
<1>. QED
  BY <1>1 DEF Below

-----------------------------------------------------------------------------
\* The initial state.
LEMMA RtInitHolds == RtInit => RtInv
<1>. SUFFICES ASSUME RtInit PROVE RtInv
  OBVIOUS
<1>. USE RtpAssumption
<1>1. \A S : <<>> \in Seq(S)
  OBVIOUS
<1>2. Modulus - 1 \in 0 .. Modulus - 1 /\ Len(early) = 0 /\ 0 =< MaxPending
  BY DEF RtInit
<1>3. RtTypes
  <2>1. /\ inbox \in [Workers2 -> Seq(Nat)] /\ last \in [Workers2 -> 0 .. MaxEvents]
        /\ next \in [Workers2 -> 0 .. Modulus - 1]
    BY <1>1, <1>2 DEF RtInit
  <2>. QED
    BY <1>1, <1>2, <2>1 DEF RtInit, RtTypes, Stages
<1>4. SocketInv
  BY DEF RtInit, SocketInv, SocketTypes, Remotes, RemoteIsLatest, SocketIsAccounted
<1>5. StageBinds
  BY DEF RtInit, StageBinds, Workers2
<1>6. PacketsInOrder
  BY NoPackets, 0 =< Len(arrived) DEF RtInit, PacketsInOrder
<1>7. 1 .. Len(arrived) = {} /\ 1 .. Len(reported) = {}
  BY DEF RtInit
<1>8. NoneForgotten /\ ReportsArrived /\ InOrder /\ OncePerDigit
  BY <1>7 DEF NoneForgotten, ReportsArrived, InOrder, OncePerDigit
<1>9. LastIsLatest
  BY <1>7 DEF RtInit, LastIsLatest
<1>10. Numbered /\ NumbersGoOn
  <2>1. 1 .. Len(sent) - 1 = {} /\ sent = <<>>
    BY DEF RtInit
  <2>. QED
    BY <2>1 DEF Numbered, NumbersGoOn
<1>. QED
  BY <1>3, <1>4, <1>5, <1>6, <1>8, <1>9, <1>10 DEF RtInv, PathInv, DigitInv, NumberInv

\* The socket is its own business: the remote follows the signalling and the
\* peer, and a socket that closes by itself is reported.
LEMMA SocketStep ==
  ASSUME SocketInv, RtNext
  PROVE  SocketInv'
<1>. USE DEF SocketInv, SocketTypes, Remotes, RemoteIsLatest, SocketIsAccounted
<1>1. CASE UNCHANGED unlessSocket
  BY <1>1 DEF unlessSocket
<1>2. ASSUME NEW r \in {"offered", "renegotiated"}, ConfigureRtp(r)
      PROVE  SocketInv'
  <2>. DEFINE st == IF udp.state = "none" THEN "binding" ELSE udp.state
  <2>1. udp' = [udp EXCEPT !.state = st]
    BY <1>2 DEF ConfigureRtp
  <2>2. st \in {"none", "binding", "open", "closed"} /\ (st = "open" => udp.state = "open")
    OBVIOUS
  <2>. HIDE DEF st
  <2>3. /\ udp' \in [state : {"none", "binding", "open", "closed"}, leaked : BOOLEAN]
        /\ udp'.state = st /\ udp'.leaked = udp.leaked
    BY <2>1, <2>2
  <2>. QED
    BY <1>2, <2>2, <2>3 DEF ConfigureRtp
<1>3. CASE Bound
  BY <1>3 DEF Bound
<1>4. ASSUME NEW e \in 1 .. MaxEvents, NEW from \in {"offered", "latched"}, PacketArrives(e, from)
      PROVE  SocketInv'
  BY <1>4 DEF PacketArrives
<1>5. CASE SocketDies
  BY <1>5 DEF SocketDies
<1>6. CASE CloseRtp
  <2>. DEFINE st == IF udp.state = "open" THEN "closed" ELSE udp.state
  <2>1. udp' = [udp EXCEPT !.state = st]
    BY <1>6 DEF CloseRtp
  <2>2. st \in {"none", "binding", "closed"}
    OBVIOUS
  <2>. HIDE DEF st
  <2>3. /\ udp' \in [state : {"none", "binding", "open", "closed"}, leaked : BOOLEAN]
        /\ udp'.state = st
    BY <2>1, <2>2
  <2>. QED
    BY <1>6, <2>2, <2>3 DEF CloseRtp
<1>. QED
  BY <1>1, <1>2, <1>3, <1>4, <1>5, <1>6
     DEF RtNext, PlaceBegins, PlaceEnds, PlaceFails, MoveBegins, Suspended, Rebound, MoveEnds,
         MoveFails, WorkerHears, SendRtp

-----------------------------------------------------------------------------
\* Steps that report nothing, and steps that send nothing.
LEMMA DigitsRest ==
  ASSUME RtTypes, DigitInv, UNCHANGED <<last, reported>>,
         \A m \in 1 .. Len(arrived) : m \in 1 .. Len(arrived') /\ arrived'[m] = arrived[m]
  PROVE  DigitInv'
<1>1. LastIsLatest' /\ InOrder' /\ OncePerDigit'
  BY DEF DigitInv, LastIsLatest, InOrder, OncePerDigit
<1>2. ReportsArrived'
  BY DEF DigitInv, ReportsArrived
<1>. QED
  BY <1>1, <1>2 DEF DigitInv

LEMMA NumbersRest ==
  ASSUME RtTypes, StageBinds, NumberInv, UNCHANGED <<next, sent>>,
         \/ UNCHANGED stage \/ stage' = "gone" \/ stage \in {"new", "placing"}
         \/ stage' = "placed" /\ stage \notin {"moved", "gone"}
         \/ <<stage, stage'>> \in {<<"placed", "ensuring">>, <<"exporting", "accepting">>,
                                   <<"accepting", "leaving">>, <<"leaving", "moved">>}
  PROVE  NumberInv'
<1>1. Numbered'
  BY DEF RtTypes, Stages, StageBinds, NumberInv, Numbered, LastSent
<1>2. NumbersGoOn'
  BY DEF NumberInv, NumbersGoOn
<1>. QED
  BY <1>1, <1>2 DEF NumberInv

\* Steps that leave what was posted and held back where it is.
LEMMA PathRests ==
  ASSUME RtTypes, PathInv, UNCHANGED <<early, inbox, lost, arrived, reported>>, StageBinds'
  PROVE  PathInv'
<1>1. PacketsInOrder'
  BY DEF PathInv, PacketsInOrder
<1>2. NoneForgotten'
  BY DEF PathInv, NoneForgotten, Waits, Answered
<1>. QED
  BY <1>1, <1>2 DEF PathInv

-----------------------------------------------------------------------------
\* A packet, or the message of the closed transport, is held back or posted to
\* the worker the attachment is bound to; what is dropped is known.
LEMMA QueueStep ==
  ASSUME RtTypes, PathInv, ReportsArrived, NEW m \in Nat, Queue(m),
         UNCHANGED <<holding, control, stage, last, next, reported, sent>>,
         \/ m = Closed /\ UNCHANGED arrived
         \/ \E e \in 1 .. MaxEvents : arrived' = Append(arrived, e) /\ m = Len(arrived) + 1
  PROVE  /\ RtTypes' /\ PathInv'
         /\ \A i \in 1 .. Len(arrived) : i \in 1 .. Len(arrived') /\ arrived'[i] = arrived[i]
<1>. DEFINE n == Len(arrived)
            b == Len(arrived')
<1>. USE RtpAssumption
<1>1. /\ arrived' \in Seq(1 .. MaxEvents) /\ n \in Nat /\ b \in Nat /\ n =< b /\ m =< b
      /\ m # Closed => n < m
      /\ \A i \in 1 .. n : i \in 1 .. b /\ arrived'[i] = arrived[i]
      /\ \A i \in 1 .. b : i \in 1 .. n \/ i = m
  <2>1. arrived \in Seq(1 .. MaxEvents)
    BY DEF RtTypes
  <2>2. CASE m = Closed /\ UNCHANGED arrived
    BY <2>1, <2>2 DEF Closed
  <2>3. CASE \E e \in 1 .. MaxEvents : arrived' = Append(arrived, e) /\ m = Len(arrived) + 1
    <3>1. PICK e \in 1 .. MaxEvents : arrived' = Append(arrived, e) /\ m = Len(arrived) + 1
      BY <2>3
    <3>. QED
      BY <2>1, <3>1 DEF Closed
  <2>. QED
    BY <2>2, <2>3
<1>. HIDE DEF n, b
<1>2. \A k \in 1 .. Len(reported) : reported[k].packet \in Nat /\ (m # Closed => reported[k].packet < m)
  <2>1. \A k \in 1 .. Len(reported) : reported[k].packet \in 1 .. n
    BY DEF ReportsArrived, n
  <2>. QED
    BY <1>1, <2>1
<1>3. /\ early \in Seq(Nat) /\ inbox[1] \in Seq(Nat) /\ inbox[2] \in Seq(Nat)
      /\ inbox \in [Workers2 -> Seq(Nat)] /\ lost \cup {} = lost
  BY DEF RtTypes, Workers2
<1>4. /\ Rising(early) /\ Below(early, n) /\ ReportedBefore(reported, early)
      /\ \A w \in Workers2 : /\ Rising(inbox[w]) /\ Below(inbox[w], n)
                             /\ Before(inbox[w], early) /\ ReportedBefore(reported, inbox[w])
  BY DEF PathInv, PacketsInOrder, n
<1>5. \A w \in Workers2 : Below(inbox[w], b)
  BY <1>1, <1>3, <1>4, BelowGrows DEF Workers2
<1>6. CASE holding \/ control = 0
  <2>. DEFINE kept == IF Len(early) >= MaxPending THEN Tail(early) ELSE early
              gone == IF Len(early) >= MaxPending THEN {Head(early)} ELSE {}
  <2>1. early' = Append(kept, m) /\ lost' = lost \cup gone /\ UNCHANGED inbox
    BY <1>6 DEF Queue
  <2>2. /\ kept \in Seq(Nat) /\ Len(kept) < MaxPending
        /\ Rising(kept) /\ Below(kept, n) /\ ReportedBefore(reported, kept)
        /\ Before(inbox[1], kept) /\ Before(inbox[2], kept)
        /\ ToSet(early) \subseteq gone \cup ToSet(kept)
    <3>1. CASE Len(early) >= MaxPending
      <4>1. early # <<>> /\ Len(early) - 1 < MaxPending
        BY <3>1, <1>3 DEF RtTypes
      <4>. QED
        BY <1>1, <1>3, <1>4, <3>1, <4>1, TailKeeps, Elements DEF Workers2
    <3>2. CASE ~(Len(early) >= MaxPending)
      <4>1. Len(early) < MaxPending
        BY <3>2, <1>3
      <4>. QED
        BY <1>3, <1>4, <3>2, <4>1 DEF Workers2
    <3>. QED
      BY <3>1, <3>2
  <2>. HIDE DEF kept, gone
  <2>3. \A w \in Workers2 : Below(inbox[w], n) /\ Before(inbox[w], kept) /\ inbox[w] \in Seq(Nat)
    BY <1>3, <1>4, <2>2 DEF Workers2
  <2>4. /\ Append(kept, m) \in Seq(Nat) /\ Rising(Append(kept, m)) /\ Below(Append(kept, m), b)
        /\ ReportedBefore(reported, Append(kept, m))
        /\ \A w \in Workers2 : Before(inbox[w], Append(kept, m))
    BY <1>1, <1>2, <2>2, <2>3, AppendKeeps DEF Workers2
  <2>5. Len(Append(kept, m)) =< MaxPending
    BY <2>2
  <2>6. ToSet(early') = ToSet(kept) \cup {m}
    BY <2>1, <2>2, <1>3, Elements
  <2>7. RtTypes'
    BY <1>1, <2>1, <2>4, <2>5 DEF RtTypes
  <2>8. StageBinds'
    BY <1>6, <2>1 DEF PathInv, StageBinds
  <2>9. PacketsInOrder'
    BY <1>4, <1>5, <2>1, <2>4 DEF PacketsInOrder, b
  <2>10. NoneForgotten'
    <3>1. ASSUME NEW i \in 1 .. b
          PROVE  Waits(i)' \/ Answered(arrived[i])'
      <4>1. CASE i = m
        BY <2>6, <4>1 DEF Waits
      <4>2. CASE i \in 1 .. n
        <5>1. Waits(i) \/ Answered(arrived[i])
          BY <4>2 DEF PathInv, NoneForgotten, n
        <5>2. Waits(i) => Waits(i)'
          BY <2>1, <2>2, <2>6 DEF Waits
        <5>. QED
          BY <1>1, <4>2, <5>1, <5>2 DEF Answered
      <4>. QED
        BY <1>1, <4>1, <4>2
    <3>. QED
      BY <3>1 DEF NoneForgotten, b
  <2>. QED
    BY <1>1, <2>7, <2>8, <2>9, <2>10 DEF PathInv, n, b
<1>7. CASE ~(holding \/ control = 0)
  <2>. DEFINE c == control
              longer == Append(inbox[c], m)
  <2>1. c \in Workers2 /\ early = <<>>
    BY <1>7 DEF RtTypes, PathInv, StageBinds
  <2>2. inbox' = [inbox EXCEPT ![c] = longer] /\ UNCHANGED <<early, lost>>
    <3>1. inbox[c] \o <<m>> = longer
      BY <1>3, <2>1 DEF Workers2
    <3>. QED
      BY <1>7, <3>1 DEF Queue, Posted
  <2>3. inbox[c] \in Seq(Nat)
    BY <1>3, <2>1 DEF Workers2
  <2>4. /\ longer \in Seq(Nat) /\ Rising(longer) /\ Below(longer, b)
        /\ ReportedBefore(reported, longer)
    BY <1>1, <1>2, <1>4, <2>1, <2>3, NoPackets, AppendKeeps
  <2>5. ToSet(longer) = ToSet(inbox[c]) \cup {m}
    BY <2>3, Elements
  <2>. HIDE DEF longer
  <2>6. /\ inbox' \in [Workers2 -> Seq(Nat)] /\ inbox'[c] = longer
        /\ \A w \in Workers2 : w # c => inbox'[w] = inbox[w]
    BY <1>3, <2>1, <2>2, <2>4
  <2>7. RtTypes'
    BY <1>1, <2>2, <2>6 DEF RtTypes
  <2>8. StageBinds'
    <3>1. CASE c = 1
      <4>1. stage \notin {"moved", "gone"} /\ inbox'[2] = inbox[2]
        BY <1>7, <2>6, <3>1 DEF PathInv, StageBinds, Workers2
      <4>. QED
        BY <1>7, <2>2, <4>1 DEF PathInv, StageBinds
    <3>2. CASE c = 2
      <4>1. stage = "moved" /\ inbox'[1] = inbox[1]
        BY <1>7, <2>6, <3>2 DEF PathInv, StageBinds, RtTypes, Stages, Workers2
      <4>. QED
        BY <1>7, <2>2, <4>1 DEF PathInv, StageBinds
    <3>. QED
      BY <2>1, <3>1, <3>2 DEF Workers2
  <2>9. PacketsInOrder'
    <3>1. \A w \in Workers2 : /\ Rising(inbox'[w]) /\ Below(inbox'[w], b)
                              /\ Before(inbox'[w], early') /\ ReportedBefore(reported, inbox'[w])
      BY <1>4, <1>5, <2>1, <2>2, <2>4, <2>6, NoPackets
    <3>. QED
      BY <2>1, <2>2, <3>1, NoPackets DEF PacketsInOrder, b
  <2>10. NoneForgotten'
    <3>1. ASSUME NEW i \in 1 .. b
          PROVE  Waits(i)' \/ Answered(arrived[i])'
      <4>1. ToSet(inbox[1]) \subseteq ToSet(inbox'[1]) /\ ToSet(inbox[2]) \subseteq ToSet(inbox'[2])
        BY <2>1, <2>5, <2>6 DEF Workers2
      <4>2. CASE i = m
        BY <2>1, <2>5, <2>6, <4>2 DEF Waits, Workers2
      <4>3. CASE i \in 1 .. n
        <5>1. Waits(i) \/ Answered(arrived[i])
          BY <4>3 DEF PathInv, NoneForgotten, n
        <5>2. Waits(i) => Waits(i)'
          BY <2>2, <4>1 DEF Waits
        <5>. QED
          BY <1>1, <4>3, <5>1, <5>2 DEF Answered
      <4>. QED
        BY <1>1, <4>2, <4>3
    <3>. QED
      BY <3>1 DEF NoneForgotten, b
  <2>. QED
    BY <1>1, <2>7, <2>8, <2>9, <2>10 DEF PathInv, n, b
<1>. QED
  BY <1>6, <1>7

\* Resume hands what was held back to the worker the attachment is now bound
\* to: the source, which nothing has overtaken, or the target when the source
\* is drained.
LEMMA ResumeStep ==
  ASSUME RtTypes, PathInv, NEW w \in {0} \cup Workers2, Resume(w),
         stage' \in Stages, UNCHANGED <<last, next, reported, sent, arrived>>,
         w = 0 => stage' = "new" /\ sent = <<>> /\ inbox[2] = <<>>,
         w = 1 => /\ stage' = "placed" /\ inbox[2] = <<>>,
         w = 2 => /\ stage' = "moved" /\ inbox[1] = <<>>
  PROVE  RtTypes' /\ PathInv'
<1>1. /\ early \in Seq(Nat) /\ inbox[1] \in Seq(Nat) /\ inbox[2] \in Seq(Nat)
      /\ inbox \in [Workers2 -> Seq(Nat)] /\ Len(arrived) \in Nat
  BY DEF RtTypes, Workers2
<1>2. control' = w /\ holding' = FALSE /\ early' = <<>>
  BY DEF Resume
<1>3. Len(early') =< MaxPending /\ early' \in Seq(Nat) /\ ToSet(early') = {}
  BY <1>1, <1>2, NoPackets, Elements, RtpAssumption
<1>4. /\ Rising(early) /\ Below(early, Len(arrived)) /\ ReportedBefore(reported, early)
      /\ \A v \in Workers2 : /\ Rising(inbox[v]) /\ Below(inbox[v], Len(arrived))
                             /\ Before(inbox[v], early) /\ ReportedBefore(reported, inbox[v])
  BY DEF PathInv, PacketsInOrder
<1>5. CASE w = 0
  <2>1. lost' = lost \cup ToSet(early) /\ UNCHANGED inbox
    BY <1>5 DEF Resume
  <2>2. RtTypes'
    BY <1>2, <1>3, <2>1 DEF RtTypes
  <2>3. StageBinds'
    <3>1. w = 0 /\ stage' = "new" /\ sent' = <<>>
      BY <1>5
    <3>2. inbox'[2] = <<>>
      BY <1>5, <2>1
    <3>. QED
      BY <1>2, <3>1, <3>2 DEF StageBinds
  <2>4. PacketsInOrder'
    BY <1>2, <1>4, <2>1, NoPackets DEF PacketsInOrder
  <2>5. NoneForgotten'
    BY <2>1 DEF PathInv, NoneForgotten, Waits, Answered
  <2>. QED
    BY <2>2, <2>3, <2>4, <2>5 DEF PathInv
<1>6. CASE w \in Workers2
  <2>. DEFINE longer == inbox[w] \o early
  <2>1. inbox' = [inbox EXCEPT ![w] = longer] /\ UNCHANGED lost
    BY <1>6 DEF Resume, Posted, Workers2
  <2>2. inbox[w] \in Seq(Nat)
    BY <1>1, <1>6 DEF Workers2
  <2>3. /\ longer \in Seq(Nat) /\ Rising(longer) /\ Below(longer, Len(arrived))
        /\ ReportedBefore(reported, longer)
    BY <1>1, <1>4, <1>6, <2>2, ConcatKeeps
  <2>4. ToSet(longer) = ToSet(inbox[w]) \cup ToSet(early)
    BY <1>1, <2>2, Elements
  <2>. HIDE DEF longer
  <2>5. /\ inbox' \in [Workers2 -> Seq(Nat)] /\ inbox'[w] = longer
        /\ \A v \in Workers2 : v # w => inbox'[v] = inbox[v]
    BY <1>1, <1>6, <2>1, <2>3
  <2>6. RtTypes'
    BY <1>2, <1>3, <2>5 DEF RtTypes
  <2>7. StageBinds'
    <3>1. CASE w = 1
      <4>1. inbox'[2] = <<>> /\ stage' = "placed"
        BY <2>5, <3>1 DEF Workers2
      <4>. QED
        BY <1>2, <3>1, <4>1 DEF StageBinds
    <3>2. CASE w = 2
      <4>1. inbox'[1] = <<>> /\ stage' = "moved"
        BY <2>5, <3>2 DEF Workers2
      <4>. QED
        BY <1>2, <3>2, <4>1 DEF StageBinds
    <3>. QED
      BY <1>6, <3>1, <3>2 DEF Workers2
  <2>8. PacketsInOrder'
    <3>1. \A v \in Workers2 : /\ Rising(inbox'[v]) /\ Below(inbox'[v], Len(arrived))
                              /\ ReportedBefore(reported, inbox'[v])
      BY <1>4, <2>3, <2>5
    <3>. QED
      BY <1>2, <3>1, NoPackets DEF PacketsInOrder
  <2>9. NoneForgotten'
    <3>1. ToSet(inbox[1]) \cup ToSet(inbox[2]) \cup ToSet(early) \subseteq ToSet(inbox'[1]) \cup ToSet(inbox'[2])
      BY <1>6, <2>4, <2>5 DEF Workers2
    <3>2. \A i : Waits(i) => Waits(i)'
      BY <2>1, <3>1 DEF Waits
    <3>. QED
      BY <3>2 DEF PathInv, NoneForgotten, Answered
  <2>. QED
    BY <2>6, <2>7, <2>8, <2>9 DEF PathInv
<1>. QED
  BY <1>5, <1>6

-----------------------------------------------------------------------------
LEMMA OneMore ==
  ASSUME NEW R, NEW q \in Seq(R), NEW r \in R
  PROVE  /\ Append(q, r) \in Seq(R) /\ Len(Append(q, r)) = Len(q) + 1
         /\ Append(q, r)[Len(q) + 1] = r /\ Len(q) + 1 \in 1 .. Len(q) + 1 /\ Len(q) \in Nat
         /\ \A k \in 1 .. Len(q) : Append(q, r)[k] = q[k] /\ k \in 1 .. Len(q) + 1
         /\ \A k \in 1 .. Len(q) + 1 : k \in 1 .. Len(q) \/ k = Len(q) + 1
  OBVIOUS

\* A worker hears what was posted first.  Nothing that waits anywhere else came
\* before it; and the last key, which it compares with, is that of its latest
\* report, so that what it drops was reported.
LEMMA HearsStep ==
  ASSUME RtTypes, PathInv, DigitInv, NEW w \in Workers2, WorkerHears(w)
  PROVE  RtTypes' /\ PathInv' /\ DigitInv'
<1>. DEFINE s == inbox[w]
            m == Head(s)
            e == arrived[m]
            new == m # Closed /\ e # last[w]
            n == Len(reported)
<1>. USE RtpAssumption
<1>1. /\ s # <<>> /\ inbox' = [inbox EXCEPT ![w] = Tail(s)]
      /\ UNCHANGED <<holding, control, early, lost, next, sent, stage, arrived>>
  BY DEF WorkerHears, unlessSocket
<1>2. /\ \A v \in Workers2 : inbox[v] \in Seq(Nat) /\ last[v] \in 0 .. MaxEvents
      /\ inbox \in [Workers2 -> Seq(Nat)] /\ last \in [Workers2 -> 0 .. MaxEvents]
      /\ early \in Seq(Nat) /\ Len(arrived) \in Nat /\ n \in Nat
      /\ reported \in Seq([packet : Nat, event : 1 .. MaxEvents, by : Workers2])
      /\ arrived \in Seq(1 .. MaxEvents)
  BY DEF RtTypes
<1>2a. n \in Nat
  BY <1>2
<1>3. /\ Rising(early) /\ Below(early, Len(arrived)) /\ ReportedBefore(reported, early)
      /\ \A v \in Workers2 : /\ Rising(inbox[v]) /\ Below(inbox[v], Len(arrived))
                             /\ Before(inbox[v], early) /\ ReportedBefore(reported, inbox[v])
  BY DEF PathInv, PacketsInOrder
<1>4. /\ Tail(s) \in Seq(Nat) /\ Rising(Tail(s)) /\ Below(Tail(s), Len(arrived))
      /\ ReportedBefore(reported, Tail(s)) /\ Before(Tail(s), early)
      /\ m \in Nat /\ m =< Len(arrived)
      /\ \A j \in 1 .. Len(Tail(s)) : Tail(s)[j] # Closed => m < Tail(s)[j]
  BY <1>1, <1>2, <1>3, TailKeeps
<1>5. /\ m # Closed => m \in 1 .. Len(arrived) /\ e \in 1 .. MaxEvents
      /\ m # Closed => \A k \in 1 .. n : reported[k].packet < m
      /\ \A j \in 1 .. Len(early) : early[j] # Closed => m < early[j]
  <2>1. s[1] = m /\ 1 \in 1 .. Len(s)
    BY <1>1, <1>2
  <2>2. m # Closed => m \in 1 .. Len(arrived) /\ e \in 1 .. MaxEvents
    BY <1>2, <1>4 DEF Closed
  <2>. QED
    BY <1>3, <2>1, <2>2 DEF ReportedBefore, Before
<1>6. \A v \in Workers2 : v # w => inbox[v] = <<>> \/ v = 1
  BY <1>1 DEF PathInv, StageBinds, Workers2
<1>7. \A v \in Workers2 : v # w => inbox[v] = <<>>
  BY <1>1, <1>6 DEF PathInv, StageBinds, Workers2
<1>8. /\ inbox' \in [Workers2 -> Seq(Nat)] /\ inbox'[w] = Tail(s)
      /\ \A v \in Workers2 : v # w => inbox'[v] = <<>>
  BY <1>1, <1>2, <1>4, <1>7
<1>9. ToSet(inbox[1]) \cup ToSet(inbox[2]) \subseteq {m} \cup ToSet(inbox'[1]) \cup ToSet(inbox'[2])
  <2>1. ToSet(s) \subseteq {m} \cup ToSet(Tail(s)) /\ ToSet(<<>>) = {}
    BY <1>1, <1>2, <1>4, Elements
  <2>. QED
    BY <1>7, <1>8, <2>1 DEF Workers2
<1>10. StageBinds'
  <2>1. inbox[2] = <<>> => inbox'[2] = <<>>
    BY <1>1, <1>7, <1>8 DEF Workers2
  <2>2. inbox[1] = <<>> => inbox'[1] = <<>>
    BY <1>1, <1>7, <1>8 DEF Workers2
  <2>. QED
    BY <1>1, <2>1, <2>2 DEF PathInv, StageBinds
<1>11. CASE ~new
  <2>1. UNCHANGED <<last, reported>>
    BY <1>11 DEF WorkerHears
  <2>2. RtTypes'
    BY <1>1, <1>8, <2>1 DEF RtTypes
  <2>3. PacketsInOrder'
    <3>1. \A v \in Workers2 : /\ Rising(inbox'[v]) /\ Below(inbox'[v], Len(arrived))
                              /\ Before(inbox'[v], early) /\ ReportedBefore(reported, inbox'[v])
      BY <1>4, <1>8, NoPackets
    <3>. QED
      BY <1>1, <1>3, <2>1, <3>1 DEF PacketsInOrder
  <2>4. NoneForgotten'
    <3>1. ASSUME NEW i \in 1 .. Len(arrived)
          PROVE  Waits(i)' \/ Answered(arrived[i])'
      <4>1. Waits(i) \/ Answered(arrived[i])
        BY DEF PathInv, NoneForgotten
      <4>2. Answered(arrived[i]) => Answered(arrived[i])'
        BY <1>1, <2>1 DEF Answered
      <4>3. Waits(i) => Waits(i)' \/ i = m
        BY <1>1, <1>9 DEF Waits
      <4>4. CASE i = m
        <5>1. m # Closed /\ e = last[w] /\ last[w] # 0
          BY <1>5, <1>11, <4>4 DEF Closed
        <5>2. \E k \in 1 .. n : reported[k].event = e
          BY <5>1 DEF DigitInv, LastIsLatest, n
        <5>. QED
          BY <1>1, <2>1, <4>4, <5>2 DEF Answered
      <4>. QED
        BY <4>1, <4>2, <4>3, <4>4
    <3>. QED
      BY <1>1, <3>1 DEF NoneForgotten
  <2>5. DigitInv'
    <3>1. \A i \in 1 .. Len(arrived) : i \in 1 .. Len(arrived') /\ arrived'[i] = arrived[i]
      BY <1>1
    <3>. QED
      BY <2>1, <3>1, DigitsRest
  <2>. QED
    BY <1>10, <2>2, <2>3, <2>4, <2>5 DEF PathInv
<1>12. CASE new
  <2>. DEFINE r == [packet |-> m, event |-> e, by |-> w]
              more == Append(reported, r)
  <2>1. last' = [last EXCEPT ![w] = e] /\ reported' = more
    BY <1>12 DEF WorkerHears
  <2>2. m \in 1 .. Len(arrived) /\ e \in 1 .. MaxEvents /\ e # 0
    BY <1>5, <1>12 DEF Closed
  <2>3. r \in [packet : Nat, event : 1 .. MaxEvents, by : Workers2]
    BY <1>4, <2>2
  <2>4. r.packet = m /\ r.event = e /\ r.by = w
    OBVIOUS
  <2>. DEFINE R == [packet : Nat, event : 1 .. MaxEvents, by : Workers2]
  <2>. HIDE DEF r, R
  <2>5. /\ more \in Seq(R)
        /\ Len(more) = n + 1 /\ more[n + 1] = r /\ n + 1 \in 1 .. n + 1
        /\ \A k \in 1 .. n : more[k] = reported[k] /\ k \in 1 .. n + 1
        /\ \A k \in 1 .. n + 1 : k \in 1 .. n \/ k = n + 1
    <3>1. reported \in Seq(R) /\ r \in R
      BY <1>2, <2>3 DEF R
    <3>. QED
      BY <3>1, OneMore
  <2>. HIDE DEF more, n, m, e, s
  <2>6. last' \in [Workers2 -> 0 .. MaxEvents]
    BY <1>2, <2>1, <2>2
  <2>7. RtTypes'
    BY <1>1, <1>8, <2>1, <2>5, <2>6 DEF RtTypes, R
  <2>8. PacketsInOrder'
    <3>1. ReportedBefore(more, Tail(s)) /\ ReportedBefore(more, early)
      BY <1>3, <1>4, <1>5, <1>12, <2>4, <2>5 DEF ReportedBefore, n
    <3>2. \A v \in Workers2 : /\ Rising(inbox'[v]) /\ Below(inbox'[v], Len(arrived))
                              /\ Before(inbox'[v], early) /\ ReportedBefore(more, inbox'[v])
      BY <1>4, <1>8, <3>1, NoPackets
    <3>. QED
      BY <1>1, <1>3, <2>1, <3>1, <3>2 DEF PacketsInOrder
  <2>9. NoneForgotten'
    <3>1. ASSUME NEW i \in 1 .. Len(arrived)
          PROVE  Waits(i)' \/ Answered(arrived[i])'
      <4>1. Waits(i) \/ Answered(arrived[i])
        BY DEF PathInv, NoneForgotten
      <4>2. Answered(arrived[i]) => Answered(arrived[i])'
        BY <1>1, <2>1, <2>5 DEF Answered, n
      <4>3. Waits(i) => Waits(i)' \/ i = m
        BY <1>1, <1>9 DEF Waits
      <4>4. i = m => Answered(arrived[i])'
        BY <1>1, <2>1, <2>4, <2>5 DEF Answered, e
      <4>. QED
        BY <4>1, <4>2, <4>3, <4>4
    <3>. QED
      BY <1>1, <3>1 DEF NoneForgotten
  <2>10. ReportsArrived'
    <3>1. \A k \in 1 .. n + 1 : more[k].packet \in 1 .. Len(arrived) /\ more[k].event = arrived[more[k].packet]
      BY <2>2, <2>4, <2>5 DEF DigitInv, ReportsArrived, n, e
    <3>. QED
      BY <1>1, <2>1, <2>5, <3>1 DEF ReportsArrived
  <2>11. LastIsLatest'
    <3>1. ASSUME NEW v \in Workers2
          PROVE  IF last'[v] = 0 THEN \A k \in 1 .. n + 1 : more[k].by # v
                 ELSE \E k \in 1 .. n + 1 : /\ more[k].by = v /\ more[k].event = last'[v]
                                            /\ \A h \in k + 1 .. n + 1 : more[h].by # v
      <4>1. CASE v = w
        <5>1. last'[v] = e /\ \A h \in n + 1 + 1 .. n + 1 : FALSE
          BY <1>2, <1>2a, <2>1, <4>1
        <5>. QED
          BY <2>2, <2>4, <2>5, <4>1, <5>1
      <4>2. CASE v # w
        <5>1. last'[v] = last[v] /\ more[n + 1].by # v
          BY <1>2, <2>1, <2>4, <2>5, <4>2
        <5>2. CASE last[v] = 0
          BY <2>5, <5>1, <5>2 DEF DigitInv, LastIsLatest, n
        <5>3. CASE last[v] # 0
          <6>1. PICK k \in 1 .. n : /\ reported[k].by = v /\ reported[k].event = last[v]
                                    /\ \A h \in k + 1 .. n : reported[h].by # v
            BY <5>3 DEF DigitInv, LastIsLatest, n
          <6>2. \A h \in k + 1 .. n + 1 : h = n + 1 \/ (h \in k + 1 .. n /\ h \in 1 .. n)
            BY <1>2a, <6>1
          <6>3. \A h \in k + 1 .. n + 1 : more[h].by # v
            BY <2>5, <5>1, <6>1, <6>2
          <6>. QED
            BY <2>5, <5>1, <5>3, <6>1, <6>3
        <5>. QED
          BY <5>2, <5>3
      <4>. QED
        BY <4>1, <4>2
    <3>. QED
      BY <2>1, <2>5, <3>1 DEF LastIsLatest
  <2>12. InOrder'
    <3>1. ASSUME NEW i \in 1 .. n + 1, NEW k \in 1 .. n + 1, i < k
          PROVE  more[i].packet < more[k].packet
      <4>1. i \in 1 .. n
        BY <1>2a, <3>1
      <4>2. CASE k \in 1 .. n
        BY <2>5, <3>1, <4>1, <4>2 DEF DigitInv, InOrder, n
      <4>3. CASE k = n + 1
        BY <1>5, <1>12, <2>4, <2>5, <4>1, <4>3
      <4>. QED
        BY <2>5, <4>2, <4>3
    <3>. QED
      BY <2>1, <2>5, <3>1 DEF InOrder
  <2>13. OncePerDigit'
    <3>1. ASSUME NEW i \in 1 .. n + 1, NEW k \in 1 .. n + 1, i < k, more[i].event = more[k].event
          PROVE  \E h \in i + 1 .. k : more[h].event # more[i].event \/ more[h].by # more[i].by
      <4>1. i \in 1 .. n
        BY <1>2a, <3>1
      <4>2. CASE k \in 1 .. n
        <5>1. PICK h \in i + 1 .. k : \/ reported[h].event # reported[i].event
                                      \/ reported[h].by # reported[i].by
          BY <2>5, <3>1, <4>1, <4>2 DEF DigitInv, OncePerDigit, n
        <5>2. h \in 1 .. n
          BY <1>2a, <4>1, <4>2
        <5>. QED
          BY <2>5, <4>1, <5>1, <5>2
      <4>3. CASE k = n + 1 /\ reported[i].by # w
        <5>1. k \in i + 1 .. k
          BY <1>2a, <3>1
        <5>. QED
          BY <2>4, <2>5, <4>1, <4>3, <5>1
      <4>4. CASE k = n + 1 /\ reported[i].by = w
        <5>1. last[w] # 0
          BY <4>1, <4>4 DEF DigitInv, LastIsLatest, n
        <5>2. PICK h \in 1 .. n : /\ reported[h].by = w /\ reported[h].event = last[w]
                                  /\ \A g \in h + 1 .. n : reported[g].by # w
          BY <5>1 DEF DigitInv, LastIsLatest, n
        <5>3. reported[i].event = e
          BY <2>4, <2>5, <3>1, <4>1, <4>4
        <5>4. h # i /\ i \notin h + 1 .. n
          BY <1>12, <4>4, <5>2, <5>3
        <5>5. h \in i + 1 .. k
          BY <1>2a, <4>1, <4>4, <5>4
        <5>. QED
          BY <1>12, <2>5, <4>1, <5>2, <5>3, <5>5
      <4>. QED
        BY <2>5, <4>2, <4>3, <4>4
    <3>. QED
      BY <2>1, <2>5, <3>1 DEF OncePerDigit
  <2>. QED
    BY <1>10, <2>7, <2>8, <2>9, <2>10, <2>11, <2>12, <2>13 DEF PathInv, DigitInv
<1>. QED
  BY <1>11, <1>12

\* A packet that is sent takes the counter of its worker on by one.
LEMMA SendStep ==
  ASSUME RtTypes, PathInv, DigitInv, NumberInv, NEW w \in Workers2, SendRtp(w)
  PROVE  RtTypes' /\ PathInv' /\ DigitInv' /\ NumberInv'
<1>. DEFINE n == Len(sent)
            late == stage \in {"exporting", "accepting", "leaving"}
            r == [n |-> next[w], by |-> w, late |-> late]
            R == [n : 0 .. Modulus - 1, by : Workers2, late : BOOLEAN]
            more == Append(sent, r)
<1>. USE RtpAssumption
<1>1. /\ HasLeg(w) /\ sent' = more /\ next' = [next EXCEPT ![w] = Advance(next[w])]
      /\ UNCHANGED <<holding, control, early, inbox, lost, last, reported, stage, arrived>>
  BY DEF SendRtp, unlessPath
<1>2. /\ next \in [Workers2 -> 0 .. Modulus - 1] /\ sent \in Seq(R) /\ n \in Nat
      /\ \A i \in Int : Advance(i) \in 0 .. Modulus - 1
  BY DEF RtTypes, Advance
<1>3. r \in R /\ r.n = next[w] /\ r.late = late
  <2>1. late \in BOOLEAN
    OBVIOUS
  <2>. HIDE DEF late
  <2>. QED
    BY <1>2, <2>1
<1>. HIDE DEF r, R
<1>4. /\ more \in Seq(R) /\ Len(more) = n + 1 /\ more[n + 1] = r /\ n + 1 \in 1 .. n + 1
      /\ \A k \in 1 .. n : more[k] = sent[k] /\ k \in 1 .. n + 1
      /\ \A k \in 1 .. n + 1 : k \in 1 .. n \/ k = n + 1
  <2>1. sent \in Seq(R) /\ r \in R
    BY <1>2, <1>3
  <2>. QED
    BY <2>1, OneMore
<1>. HIDE DEF more, n
<1>5. next' \in [Workers2 -> 0 .. Modulus - 1] /\ next'[w] = Advance(next[w])
  BY <1>1, <1>2
<1>6. RtTypes'
  BY <1>1, <1>4, <1>5 DEF RtTypes, R
<1>7. PathInv'
  <2>1. stage \notin {"new", "placing"}
    BY <1>1 DEF HasLeg
  <2>2. StageBinds'
    BY <1>1, <2>1 DEF PathInv, StageBinds
  <2>. QED
    BY <1>1, <2>2, PathRests
<1>8. DigitInv'
  <2>1. \A i \in 1 .. Len(arrived) : i \in 1 .. Len(arrived') /\ arrived'[i] = arrived[i]
    BY <1>1
  <2>. QED
    BY <1>1, <2>1, DigitsRest
<1>9. Numbered'
  <2>1. SUFFICES ASSUME \A k \in 1 .. n + 1 : ~more[k].late
        PROVE  /\ stage \in {"placed", "ensuring", "exporting", "accepting", "leaving"} =>
                     next'[1] = Advance(more[n + 1].n)
               /\ stage \in {"exporting", "accepting", "leaving", "moved"} =>
                     next'[2] = Advance(more[n + 1].n)
    BY <1>1, <1>4 DEF Numbered, LastSent
  <2>2. ~late
    BY <1>3, <1>4, <2>1
  <2>3. next'[w] = Advance(more[n + 1].n)
    BY <1>3, <1>4, <1>5
  <2>4. IF w = 1 THEN stage \in {"placed", "ensuring"} ELSE stage = "moved"
    BY <1>1, <2>2 DEF HasLeg
  <2>. QED
    BY <2>3, <2>4 DEF Workers2
<1>10. NumbersGoOn'
  <2>1. ASSUME NEW i \in 1 .. n
        PROVE  more[i + 1].n = Advance(more[i].n) \/ \E h \in 1 .. i + 1 : more[h].late
    <3>1. i \in 1 .. n - 1 \/ i = n
      BY <1>2, <2>1
    <3>2. CASE i \in 1 .. n - 1
      <4>1. i + 1 \in 1 .. n /\ \A h \in 1 .. i + 1 : h \in 1 .. n
        BY <1>2, <3>2
      <4>2. sent[i + 1].n = Advance(sent[i].n) \/ \E h \in 1 .. i + 1 : sent[h].late
        BY <3>2 DEF NumberInv, NumbersGoOn, n
      <4>. QED
        BY <1>4, <2>1, <4>1, <4>2
    <3>3. CASE i = n
      <4>1. CASE \E k \in 1 .. n + 1 : more[k].late
        BY <3>3, <4>1
      <4>2. CASE ~ \E k \in 1 .. n + 1 : more[k].late
        <5>1. sent # <<>> /\ \A k \in 1 .. n : ~sent[k].late
          <6>1. sent # <<>>
            BY <2>1 DEF n
          <6>. QED
            BY <1>4, <4>2, <6>1
        <5>2. ~late
          BY <1>3, <1>4, <4>2
        <5>3. IF w = 1 THEN stage \in {"placed", "ensuring"} ELSE stage = "moved"
          BY <1>1, <5>2 DEF HasLeg
        <5>4. next[w] = Advance(sent[n].n)
          BY <5>1, <5>3 DEF NumberInv, Numbered, LastSent, n, Workers2
        <5>. QED
          BY <1>3, <1>4, <2>1, <3>3, <5>4
      <4>. QED
        BY <4>1, <4>2
    <3>. QED
      BY <3>1, <3>2, <3>3
  <2>2. \A i \in 1 .. n + 1 - 1 : i \in 1 .. n
    BY <1>2
  <2>. QED
    BY <1>1, <1>4, <2>1, <2>2 DEF NumbersGoOn
<1>. QED
  BY <1>6, <1>7, <1>8, <1>9, <1>10 DEF NumberInv

\* The source exports its numbers; what it sends from now on is late.
LEMMA MoveBeginsStep ==
  ASSUME RtTypes, PathInv, DigitInv, NumberInv, MoveBegins
  PROVE  RtTypes' /\ PathInv' /\ DigitInv' /\ NumberInv'
<1>1. /\ stage = "placed" /\ stage' = "exporting" /\ next' = [next EXCEPT ![2] = next[1]]
      /\ UNCHANGED <<holding, control, early, inbox, lost, last, reported, sent, arrived>>
  BY DEF MoveBegins, unlessPath
<1>2. next' \in [Workers2 -> 0 .. Modulus - 1] /\ next'[1] = next[1] /\ next'[2] = next[1]
  BY <1>1 DEF RtTypes, Workers2
<1>3. RtTypes'
  BY <1>1, <1>2 DEF RtTypes, Stages
<1>4. StageBinds'
  BY <1>1 DEF PathInv, StageBinds
<1>5. PathInv'
  BY <1>1, <1>4, PathRests
<1>6. DigitInv'
  <2>1. \A i \in 1 .. Len(arrived) : i \in 1 .. Len(arrived') /\ arrived'[i] = arrived[i]
    BY <1>1
  <2>. QED
    BY <1>1, <2>1, DigitsRest
<1>7. Numbered' /\ NumbersGoOn'
  BY <1>1, <1>2 DEF NumberInv, Numbered, NumbersGoOn, LastSent
<1>. QED
  BY <1>3, <1>5, <1>6, <1>7 DEF NumberInv

\* Steps under the lock of the leg which deliver nothing, and those of the
\* socket: the attachment holds back, or is bound anew.
LEMMA QuietSteps ==
  ASSUME RtTypes, PathInv, DigitInv, NumberInv,
         \/ PlaceBegins \/ Suspended \/ Rebound \/ CloseRtp \/ Bound
         \/ \E r \in {"offered", "renegotiated"} : ConfigureRtp(r)
  PROVE  RtTypes' /\ PathInv' /\ DigitInv' /\ NumberInv'
<1>1. UNCHANGED <<early, inbox, lost, last, next, reported, sent, arrived>>
  BY DEF PlaceBegins, Suspended, Rebound, CloseRtp, Bound, ConfigureRtp, unlessPath, unlessRtpWorker
<1>2. \/ stage' = stage /\ UNCHANGED control /\ (UNCHANGED holding \/ holding' = TRUE)
      \/ /\ holding' = TRUE /\ UNCHANGED control
         /\ \/ <<stage, stage'>> \in {<<"new", "placing">>, <<"placed", "ensuring">>,
                                      <<"exporting", "accepting">>}
            \/ stage \in {"new", "placed", "moved"} /\ stage' = "gone"
      \/ stage = "accepting" /\ stage' = "leaving" /\ control' = 2 /\ UNCHANGED holding
  <2>1. CASE PlaceBegins
    BY <2>1 DEF PlaceBegins
  <2>2. CASE Suspended
    BY <2>2 DEF Suspended
  <2>3. CASE Rebound
    BY <2>3 DEF Rebound
  <2>4. CASE CloseRtp
    BY <2>4 DEF CloseRtp
  <2>5. CASE Bound \/ \E r \in {"offered", "renegotiated"} : ConfigureRtp(r)
    BY <2>5 DEF Bound, ConfigureRtp, unlessPath
  <2>. QED
    BY <2>1, <2>2, <2>3, <2>4, <2>5
<1>3. stage' \in Stages /\ control' \in {0} \cup Workers2 /\ holding' \in BOOLEAN
  BY <1>2 DEF RtTypes, Stages, Workers2
<1>4. RtTypes'
  BY <1>1, <1>3 DEF RtTypes
<1>5. StageBinds'
  BY <1>1, <1>2 DEF PathInv, StageBinds
<1>6. PathInv'
  BY <1>1, <1>5, PathRests
<1>7. DigitInv'
  <2>1. \A i \in 1 .. Len(arrived) : i \in 1 .. Len(arrived') /\ arrived'[i] = arrived[i]
    BY <1>1
  <2>. QED
    BY <1>1, <2>1, DigitsRest
<1>8. NumberInv'
  BY <1>1, <1>2, NumbersRest DEF PathInv
<1>. QED
  BY <1>4, <1>6, <1>7, <1>8

\* The placing or the move of the leg is over.
LEMMA DeliverySteps ==
  ASSUME RtTypes, PathInv, DigitInv, NumberInv, PlaceEnds \/ PlaceFails \/ MoveEnds \/ MoveFails
  PROVE  RtTypes' /\ PathInv' /\ DigitInv' /\ NumberInv'
<1>1. UNCHANGED <<last, next, reported, sent, arrived>>
  BY DEF PlaceEnds, PlaceFails, MoveEnds, MoveFails, unlessRtpWorker
<1>2. \E w \in {0} \cup Workers2 :
        /\ Resume(w) /\ stage' \in Stages
        /\ w = 0 => stage' = "new" /\ sent = <<>> /\ inbox[2] = <<>>
        /\ w = 1 => stage' = "placed" /\ inbox[2] = <<>>
        /\ w = 2 => stage' = "moved" /\ inbox[1] = <<>>
  <2>. USE DEF RtTypes, PathInv, StageBinds, Stages, Workers2
  <2>1. CASE PlaceEnds
    <3>1. Resume(1) /\ stage' = "placed" /\ inbox[2] = <<>>
      BY <2>1 DEF PlaceEnds
    <3>. QED
      BY <3>1
  <2>2. CASE PlaceFails
    <3>1. /\ Resume(control) /\ inbox[2] = <<>>
          /\ \/ stage' = "new" /\ control = 0 /\ sent = <<>>
             \/ stage' = "placed" /\ control = 1
      BY <2>2 DEF PlaceFails
    <3>. QED
      BY <3>1
  <2>3. CASE MoveEnds
    <3>1. Resume(2) /\ stage' = "moved" /\ inbox[1] = <<>>
      BY <2>3 DEF MoveEnds, Drained
    <3>. QED
      BY <3>1
  <2>4. CASE MoveFails
    <3>1. Resume(1) /\ stage' = "placed" /\ inbox[2] = <<>>
      BY <2>4 DEF MoveFails
    <3>. QED
      BY <3>1
  <2>. QED
    BY <2>1, <2>2, <2>3, <2>4
<1>3. RtTypes' /\ PathInv'
  BY <1>1, <1>2, ResumeStep
<1>4. DigitInv'
  <2>1. \A i \in 1 .. Len(arrived) : i \in 1 .. Len(arrived') /\ arrived'[i] = arrived[i]
    BY <1>1
  <2>. QED
    BY <1>1, <2>1, DigitsRest
<1>5. NumberInv'
  <2>1. \/ stage \in {"new", "placing"}
        \/ stage' = "placed" /\ stage \notin {"moved", "gone"}
        \/ <<stage, stage'>> = <<"leaving", "moved">>
    BY DEF PlaceEnds, PlaceFails, MoveEnds, MoveFails
  <2>. QED
    BY <1>1, <2>1, NumbersRest DEF PathInv
<1>. QED
  BY <1>3, <1>4, <1>5

LEMMA RtStepHolds == RtInv /\ [RtNext]_rtVars => RtInv'
<1>. SUFFICES ASSUME RtInv, [RtNext]_rtVars PROVE RtInv'
  OBVIOUS
<1>. USE DEF RtInv
<1>. DEFINE Kept == RtTypes' /\ PathInv' /\ DigitInv' /\ NumberInv'
<1>2. ASSUME UNCHANGED rtVars
      PROVE  RtInv'
  <2>1. RtTypes' /\ SocketInv'
    BY <1>2 DEF rtVars, RtTypes, SocketInv, SocketTypes, RemoteIsLatest, SocketIsAccounted
  <2>2. StageBinds'
    BY <1>2 DEF rtVars, PathInv, StageBinds
  <2>3. PacketsInOrder'
    BY <1>2 DEF rtVars, PathInv, PacketsInOrder
  <2>4. NoneForgotten'
    BY <1>2 DEF rtVars, PathInv, NoneForgotten, Waits, Answered
  <2>5. DigitInv'
    BY <1>2 DEF rtVars, DigitInv, ReportsArrived, LastIsLatest, InOrder, OncePerDigit
  <2>6. NumberInv'
    BY <1>2 DEF rtVars, NumberInv, Numbered, LastSent, NumbersGoOn
  <2>. QED
    BY <2>1, <2>2, <2>3, <2>4, <2>5, <2>6 DEF PathInv
<1>3. ASSUME \/ PlaceBegins \/ Suspended \/ Rebound \/ CloseRtp \/ Bound
             \/ \E r \in {"offered", "renegotiated"} : ConfigureRtp(r)
      PROVE  Kept
  BY <1>3, QuietSteps
<1>4. ASSUME PlaceEnds \/ PlaceFails \/ MoveEnds \/ MoveFails
      PROVE  Kept
  BY <1>4, DeliverySteps
<1>5. ASSUME MoveBegins
      PROVE  Kept
  BY <1>5, MoveBeginsStep
<1>6. ASSUME NEW m \in Nat, Queue(m), UNCHANGED <<holding, control, stage, last, next, reported, sent>>,
             \/ m = Closed /\ UNCHANGED arrived
             \/ \E e \in 1 .. MaxEvents : arrived' = Append(arrived, e) /\ m = Len(arrived) + 1
      PROVE  Kept
  <2>1. /\ RtTypes' /\ PathInv'
        /\ \A i \in 1 .. Len(arrived) : i \in 1 .. Len(arrived') /\ arrived'[i] = arrived[i]
    BY <1>6, QueueStep DEF DigitInv
  <2>2. DigitInv'
    BY <1>6, <2>1, DigitsRest
  <2>3. NumberInv'
    BY <1>6, NumbersRest DEF PathInv
  <2>. QED
    BY <2>1, <2>2, <2>3
<1>7. ASSUME NEW e \in 1 .. MaxEvents, NEW from \in {"offered", "latched"}, PacketArrives(e, from)
      PROVE  Kept
  <2>1. Len(arrived) + 1 \in Nat
    BY DEF RtTypes
  <2>2. /\ Queue(Len(arrived) + 1) /\ arrived' = Append(arrived, e)
        /\ UNCHANGED <<holding, control, stage, last, next, reported, sent>>
    BY <1>7 DEF PacketArrives, unlessRtpWorker
  <2>. QED
    BY <1>6, <2>1, <2>2
<1>8. ASSUME SocketDies
      PROVE  Kept
  <2>1. /\ UNCHANGED <<holding, control, stage, last, next, reported, sent, arrived>>
        /\ UNCHANGED <<early, inbox, lost>> \/ Queue(Closed)
    BY <1>8 DEF SocketDies, unlessRtpWorker
  <2>2. CASE Queue(Closed)
    BY <1>6, <2>1, <2>2 DEF Closed
  <2>3. CASE UNCHANGED <<early, inbox, lost>>
    <3>1. RtTypes' /\ StageBinds'
      BY <2>1, <2>3 DEF RtTypes, PathInv, StageBinds
    <3>2. PathInv'
      BY <2>1, <2>3, <3>1, PathRests
    <3>3. \A i \in 1 .. Len(arrived) : i \in 1 .. Len(arrived') /\ arrived'[i] = arrived[i]
      BY <2>1
    <3>4. DigitInv' /\ NumberInv'
      BY <2>1, <3>3, DigitsRest, NumbersRest DEF PathInv
    <3>. QED
      BY <3>1, <3>2, <3>4
  <2>. QED
    BY <2>1, <2>2, <2>3
<1>9. ASSUME NEW w \in Workers2, WorkerHears(w)
      PROVE  Kept
  <2>1. UNCHANGED <<next, sent, stage>>
    BY <1>9 DEF WorkerHears
  <2>. QED
    BY <1>9, <2>1, HearsStep, NumbersRest DEF PathInv
<1>10. ASSUME NEW w \in Workers2, SendRtp(w)
       PROVE  Kept
  BY <1>10, SendStep
<1>11. RtNext => Kept
  BY <1>3, <1>4, <1>5, <1>7, <1>8, <1>9, <1>10 DEF RtNext
<1>. QED
  BY <1>2, <1>11, SocketStep

\* A leg's RTP keeps its promises across every placing, move and loss: a digit
\* that arrived is reported, on its way, or known to be dropped; digits come
\* out in order and once; sequence numbers go on; packets go where the peer was
\* last heard; a socket that closed is reported.
THEOREM RtpIsSafe == RtSpec => []RtpSafe
<1>1. RtInit => RtInv
  BY RtInitHolds
<1>2. RtInv /\ [RtNext]_rtVars => RtInv'
  BY RtStepHolds
<1>3. RtInv => RtpSafe
  <2>. SUFFICES ASSUME RtInv PROVE RtpSafe
    OBVIOUS
  <2>1. RtTypeOK
    BY DEF RtInv, RtTypes, SocketInv, SocketTypes, RtTypeOK
  <2>2. DigitsAreHeard
    <3>1. early # <<>> => holding \/ control = 0
      BY DEF RtInv, PathInv, StageBinds
    <3>2. ASSUME NEW m \in 1 .. Len(arrived)
          PROVE  \/ m \in ToSet(early) \cup ToSet(inbox[1]) \cup ToSet(inbox[2]) \cup lost
                 \/ \E k \in 1 .. Len(reported) : reported[k].event = arrived[m]
      BY DEF RtInv, PathInv, NoneForgotten, Waits, Answered
    <3>. QED
      BY <3>1, <3>2 DEF DigitsAreHeard
  <2>. QED
    BY <2>1, <2>2 DEF RtInv, DigitInv, NumberInv, SocketInv, RtpSafe
<1>. QED
  BY <1>1, <1>2, <1>3, PTL DEF RtSpec

-----------------------------------------------------------------------------
(* The websocket of a voice agent's leg.                                     *)

Sockets == [state : {"connecting", "aborting", "open", "closing", "closed"},
            handshake : {"pending", "ready", "failed"}, up : BOOLEAN, url : Urls]
Attachments == [socket : Nat, connecting : Nat, promise : Nat]
Configures == [step : {"idle", "dropping", "connecting"}, on : Nat, url : Urls \cup {0},
               fits : BOOLEAN]

\* Every variable has its type.
WsTypes ==
    /\ socks \in Seq(Sockets) /\ at \in Attachments /\ url \in Urls \cup {0}
    /\ deferred \in BOOLEAN /\ wsClosing \in BOOLEAN /\ wsTold \in BOOLEAN
    /\ config \in Configures /\ sends \in [Senders -> Nat]
    /\ close \in [step : {"no", "waiting", "done"}, on : Nat]
    /\ mishaps \subseteq {"overlap", "stale"}

\* What is remembered is there: the socket is open, the one that connects does,
\* and the promise is not settled.
Pointers(ss, a) ==
    /\ a.socket # 0 => /\ a.socket \in 1 .. Len(ss)
                       /\ ss[a.socket].state = "open" /\ ss[a.socket].up
    /\ a.connecting # 0 => a.connecting \in 1 .. Len(ss) /\ ss[a.connecting].state = "connecting"
    /\ a.promise # 0 => a.promise \in 1 .. Len(ss) /\ ss[a.promise].handshake = "pending"
    /\ \A n \in 1 .. Len(ss) : /\ ss[n].state = "open" => ss[n].up
                               /\ ss[n].state = "connecting" => ss[n].handshake = "pending"

\* And nothing else lives: one socket at a time, whose connect the promise is.
OneLive(ss, a) ==
    /\ \A n \in 1 .. Len(ss) : Live(ss, n) => n \in {a.socket, a.connecting}
    /\ a.connecting # 0 => a.socket = 0 /\ a.promise = a.connecting
    /\ a.promise # 0 => a.promise \in {a.socket, a.connecting}

\* What is remembered is a socket to the agent that is configured.
Reaches(ss, a, u) ==
    /\ a.socket # 0 => ss[a.socket].url = u
    /\ a.connecting # 0 => ss[a.connecting].url = u

\* While no send overlapped a teardown and no late event struck, the configure
\* under way owns what it waits for, and a leg that is closed has nothing.
Owned(ss, a, u, c, over) ==
    /\ Reaches(ss, a, u)
    /\ c.step = "dropping" \/ over => a.socket = 0 /\ a.connecting = 0 /\ a.promise = 0
    /\ c.step = "connecting" => c.url = u
    /\ c.fits

\* Who waits, waits for a connect that is not settled, or a socket not closed.
SendsWait(ss, w) ==
    \A s \in Senders : w[s] # 0 => w[s] \in 1 .. Len(ss) /\ ss[w[s]].handshake = "pending"
ConfigWaits(ss, c, u) ==
    /\ c.step # "idle" => c.on \in 1 .. Len(ss) /\ c.url \in Urls
    /\ c.step = "connecting" => ss[c.on].handshake = "pending"
    /\ c.step = "dropping" => ss[c.on].state # "closed"
    /\ u = 0 => Len(ss) = 0
CloseWaits(ss, c, over) ==
    /\ c.step = "waiting" => c.on \in 1 .. Len(ss) /\ ss[c.on].state # "closed"
    /\ c.step # "waiting" => c.on = 0
    /\ c.step # "no" => over

\* A session that is lost is reported.
LossTold(ss, told) ==
    \A n \in 1 .. Len(ss) : ss[n].up /\ ss[n].state = "closed" => told

WsInv ==
    /\ WsTypes /\ Pointers(socks, at)
    /\ "stale" \notin mishaps => OneLive(socks, at)
    /\ mishaps = {} => Owned(socks, at, url, config, wsClosing)
    /\ SendsWait(socks, sends) /\ ConfigWaits(socks, config, url)
    /\ CloseWaits(socks, close, wsClosing) /\ LossTold(socks, wsTold \/ wsClosing)

\* A socket of the leg is changed where it stands.
LEMMA Changed ==
    ASSUME NEW ss \in Seq(Sockets), NEW n \in 1 .. Len(ss), NEW r \in Sockets
    PROVE  /\ [ss EXCEPT ![n] = r] \in Seq(Sockets)
           /\ Len([ss EXCEPT ![n] = r]) = Len(ss)
           /\ [ss EXCEPT ![n] = r][n] = r
           /\ \A m \in 1 .. Len(ss) : m # n => [ss EXCEPT ![n] = r][m] = ss[m]
  BY ExceptSeq

LEMMA OfSockets ==
    ASSUME NEW ss \in Seq(Sockets)
    PROVE  /\ DOMAIN ss = 1 .. Len(ss) /\ Len(ss) \in Nat
           /\ \A n \in 1 .. Len(ss) : ss[n] \in Sockets
  BY LenProperties

LEMMA WsInitHolds == WsInit => WsInv
<1> SUFFICES ASSUME WsInit PROVE WsInv
  OBVIOUS
<1>1. socks \in Seq(Sockets) /\ Len(socks) = 0
  BY EmptySeq DEF WsInit
<1>2. WsTypes
  BY <1>1 DEF WsInit, WsTypes, NoSocket, AtRest, Attachments, Configures
<1>. QED
  BY <1>1, <1>2 DEF WsInit, WsInv, Pointers, OneLive, Owned, Reaches, SendsWait, ConfigWaits,
     CloseWaits, LossTold, NoSocket, AtRest

\* What ensureSocket does to the pointers and to the sockets when it opens one.
Pointed(a, n) == [a EXCEPT !.connecting = n, !.promise = n]
NewSocket(u) == [state |-> "connecting", handshake |-> "pending", up |-> FALSE, url |-> u]

\* ensureSocket keeps a socket, joins a connect, or opens a socket to the agent
\* that is named, which is then the only one there is.
Joins(ss, a, e, u) ==
    /\ e.socks = ss /\ e.at = a
    /\ e.waits = IF a.socket # 0 THEN 0 ELSE a.promise
    /\ a.socket # 0 \/ a.promise # 0 \/ u = 0
Opened(ss, a, ss2, a2, w, u) ==
    /\ a.socket = 0 /\ a.promise = 0 /\ u \in Urls
    /\ w = Len(ss) + 1 /\ Len(ss2) = w
    /\ \A n \in 1 .. Len(ss) : ss2[n] = ss[n]
    /\ ss2[w] = NewSocket(u)
    /\ a2.socket = 0 /\ a2.connecting = w /\ a2.promise = w

LEMMA Ensures ==
    ASSUME NEW ss \in Seq(Sockets), NEW a \in Attachments, NEW u \in Urls \cup {0},
           NEW e, e = EnsuredSocket(ss, a, u), Pointers(ss, a)
    PROVE  /\ e.socks \in Seq(Sockets) /\ e.at \in Attachments /\ e.waits \in Nat
           /\ Joins(ss, a, e, u) \/ Opened(ss, a, e.socks, e.at, e.waits, u)
           /\ Pointers(e.socks, e.at)
           /\ OneLive(ss, a) => OneLive(e.socks, e.at)
           /\ e.waits # 0 => /\ e.waits \in 1 .. Len(e.socks)
                             /\ e.socks[e.waits].handshake = "pending"
<1>1. Len(ss) \in Nat /\ DOMAIN ss = 1 .. Len(ss)
  BY OfSockets
<1>2. CASE a.socket # 0 \/ a.promise # 0 \/ u = 0
  <2>1. e = [socks |-> ss, at |-> a, waits |-> IF a.socket # 0 THEN 0 ELSE a.promise]
    BY <1>2 DEF EnsuredSocket
  <2>. QED
    BY <1>2, <2>1 DEF Joins, Attachments, Pointers
<1>3. CASE ~(a.socket # 0 \/ a.promise # 0 \/ u = 0)
  <2>1. PICK n, b, ss2 : /\ n = Len(ss) + 1 /\ b = Pointed(a, n) /\ ss2 = Append(ss, NewSocket(u))
    OBVIOUS
  <2> DEFINE o == [socks |-> ss2, at |-> b, waits |-> n]
  <2>2. e = o
    BY <1>3, <2>1 DEF EnsuredSocket, Connects, Pointed, NewSocket
  <2>3. u \in Urls /\ a.socket = 0 /\ a.promise = 0
    BY <1>3
  <2>4. /\ ss2 \in Seq(Sockets) /\ b \in Attachments
        /\ Opened(ss, a, ss2, b, n, u)
        /\ Pointers(ss2, b)
        /\ OneLive(ss, a) => OneLive(ss2, b)
    <3>1. Len(ss) \in Nat /\ DOMAIN ss = 1 .. Len(ss) /\ n \in Nat
      BY <1>1, <2>1
    <3>2. NewSocket(u) \in Sockets
      BY <2>3 DEF Sockets, NewSocket
    <3>3. /\ ss2 \in Seq(Sockets) /\ Len(ss2) = n /\ ss2[n] = NewSocket(u)
          /\ \A m \in 1 .. Len(ss) : ss2[m] = ss[m]
      BY <2>1, <3>2, <3>1, AppendProperties
    <3>4. b \in Attachments /\ b.socket = 0 /\ b.connecting = n /\ b.promise = n
      <4>1. b \in Attachments /\ b.socket = a.socket /\ b.connecting = n /\ b.promise = n
        BY <2>1, <3>1 DEF Attachments, Pointed
      <4>. QED
        BY <2>3, <4>1
    <3>5. n \in 1 .. n /\ (\A m \in 1 .. n : m = n \/ m \in 1 .. Len(ss)) /\ n # 0
      BY <2>1, <3>1
    <3>6. Opened(ss, a, ss2, b, n, u)
      BY <2>1, <2>3, <3>3, <3>4 DEF Opened
    <3>7. Pointers(ss2, b)
      BY <3>3, <3>4, <3>5 DEF Pointers, NewSocket
    <3>8. OneLive(ss, a) => OneLive(ss2, b)
      <4> SUFFICES ASSUME OneLive(ss, a) PROVE OneLive(ss2, b)
        OBVIOUS
      <4>1. a.connecting = 0
        BY <2>3 DEF OneLive
      <4>2. \A m \in 1 .. Len(ss) : ~Live(ss, m)
        BY <2>3, <3>1, <4>1 DEF OneLive
      <4>3. \A m \in 1 .. n : Live(ss2, m) => m = n
        BY <3>3, <3>5, <4>2 DEF Live
      <4>. QED
        BY <3>3, <3>4, <4>3 DEF OneLive
    <3>. QED
      BY <3>3, <3>4, <3>6, <3>7, <3>8
  <2>5. e.socks = ss2 /\ e.at = b /\ e.waits = n /\ n \in Nat
    BY <1>1, <2>1, <2>2
  <2>6. n \in 1 .. Len(ss2) /\ ss2[n].handshake = "pending"
    BY <1>1, <2>4 DEF Opened, NewSocket
  <2>. QED
    BY <2>4, <2>5, <2>6
<1>. QED
  BY <1>2, <1>3

\* A socket of the leg is changed where it stands.
Becomes(ss, ss2, n, s, h, p) ==
    /\ ss2 \in Seq(Sockets) /\ Len(ss2) = Len(ss)
    /\ ss2[n].state = s /\ ss2[n].handshake = h /\ ss2[n].up = p /\ ss2[n].url = ss[n].url
    /\ \A m \in 1 .. Len(ss) : m # n => ss2[m] = ss[m]

LEMMA Restated ==
    ASSUME NEW ss \in Seq(Sockets), NEW n \in 1 .. Len(ss),
           NEW s \in {"aborting", "open", "closing", "closed"},
           NEW ss2, ss2 = [ss EXCEPT ![n].state = s]
    PROVE  Becomes(ss, ss2, n, s, ss[n].handshake, ss[n].up)
<1>1. ss[n] \in Sockets
  BY OfSockets
<1>2. PICK r : r = [ss[n] EXCEPT !.state = s]
  OBVIOUS
<1>3. /\ r \in Sockets /\ r.state = s
      /\ r.handshake = ss[n].handshake /\ r.up = ss[n].up /\ r.url = ss[n].url
  BY <1>1, <1>2 DEF Sockets
<1>4. ss2 = [ss EXCEPT ![n] = r]
  BY <1>2
<1>. QED
  BY <1>3, <1>4, ExceptSeq DEF Becomes

LEMMA Ended ==
    ASSUME NEW ss \in Seq(Sockets), NEW n \in 1 .. Len(ss),
           NEW s \in {"aborting", "open", "closing", "closed"},
           NEW h \in {"pending", "ready", "failed"},
           NEW ss2, \/ ss2 = [ss EXCEPT ![n].state = s, ![n].handshake = h]
                    \/ ss2 = [ss EXCEPT ![n].handshake = h, ![n].state = s]
    PROVE  Becomes(ss, ss2, n, s, h, ss[n].up)
<1>1. ss[n] \in Sockets
  BY OfSockets
<1>2. PICK r : r = [[ss[n] EXCEPT !.state = s] EXCEPT !.handshake = h]
  OBVIOUS
<1>3. /\ r \in Sockets /\ r.state = s
      /\ r.handshake = h /\ r.up = ss[n].up /\ r.url = ss[n].url
  BY <1>1, <1>2 DEF Sockets
<1>4. ss2 = [ss EXCEPT ![n] = r]
  <2>1. CASE ss2 = [ss EXCEPT ![n].state = s, ![n].handshake = h]
    BY <1>2, <2>1
  <2>2. CASE ss2 = [ss EXCEPT ![n].handshake = h, ![n].state = s]
    BY <1>2, <2>2, <1>1 DEF Sockets
  <2>. QED
    BY <2>1, <2>2
<1>. QED
  BY <1>3, <1>4, ExceptSeq DEF Becomes

\* A configure or a send that waited for the connect of the socket n goes on.
LEMMA SendsGoOn ==
    ASSUME NEW n \in 1 .. Len(socks), NEW ss, NEW s, NEW h, NEW p,
           WsTypes, SendsWait(socks, sends), Becomes(socks, ss, n, s, h, p),
           NEW w, \/ w = SendsAfter(n)
                  \/ w = sends /\ h = socks[n].handshake
    PROVE  w \in [Senders -> Nat] /\ SendsWait(ss, w)
  BY DEF WsTypes, SendsWait, SendsAfter, Becomes

LEMMA ConfigGoesOn ==
    ASSUME NEW n \in 1 .. Len(socks), NEW ss, NEW s, NEW h, NEW p, NEW a \in Attachments,
           WsTypes, ConfigWaits(socks, config, url), Becomes(socks, ss, n, s, h, p),
           s # "closed" \/ ~(config.step = "dropping" /\ config.on = n),
           NEW c, \/ c = ConfigAfter(n, ss, a)
                  \/ c = config /\ h = socks[n].handshake
    PROVE  c \in Configures /\ ConfigWaits(ss, c, url)
<1>1. c = config \/ c = ConfigAfter(n, ss, a)
  OBVIOUS
<1>2. ConfigAfter(n, ss, a) # config => /\ config.step = "connecting" /\ config.on = n
                                        /\ ConfigAfter(n, ss, a).step = "idle"
                                        /\ ConfigAfter(n, ss, a) \in Configures
  BY DEF ConfigAfter, AtRest, Configures
<1>3. c \in Configures
  BY <1>1, <1>2 DEF WsTypes
<1>4. CASE c = config
  <2>1. config.step = "connecting" /\ config.on = n => h = socks[n].handshake
    BY <1>4 DEF ConfigAfter, AtRest
  <2>. QED
    BY <1>3, <1>4, <2>1 DEF ConfigWaits, Becomes
<1>5. CASE c # config
  BY <1>1, <1>2, <1>3, <1>5 DEF ConfigWaits, Becomes
<1>. QED
  BY <1>4, <1>5

\* The configure that is over is connected to what it named, or failed.
LEMMA ConfigFits ==
    ASSUME NEW n, NEW ss, NEW a, NEW c, c = config \/ c = ConfigAfter(n, ss, a)
    PROVE  \/ c = config
           \/ /\ c.step = "idle" /\ config.step = "connecting"
              /\ \/ ss[n].handshake = "failed"
                 \/ a.socket # 0 /\ ss[a.socket].url = config.url
                 => c.fits
  BY DEF ConfigAfter, AtRest

LEMMA OpensStep ==
    ASSUME WsInv, NEW n \in SocketIds, Opens(n)
    PROVE  WsInv'
<1>0. n \in 1 .. Len(socks) /\ Len(socks) \in Nat /\ socks[n] \in Sockets
  BY OfSockets DEF WsInv, WsTypes, SocketIds
<1>1. PICK ready \in BOOLEAN :
         LET a == [at EXCEPT !.socket = n, !.connecting = 0]
             ss == [socks EXCEPT ![n].state = "open", ![n].up = TRUE,
                                 ![n].handshake = IF ready THEN "ready" ELSE @] IN
         /\ socks' = ss
         /\ IF ready THEN /\ at' = Settled(n, a) /\ sends' = SendsAfter(n)
                          /\ config' = ConfigAfter(n, ss, Settled(n, a))
            ELSE at' = a /\ UNCHANGED <<sends, config>>
  BY DEF Opens
<1> DEFINE h == IF ready THEN "ready" ELSE socks[n].handshake
<1>2. Becomes(socks, socks', n, "open", h, TRUE)
  <2>1. PICK r : r = [[[socks[n] EXCEPT !.state = "open"] EXCEPT !.up = TRUE] EXCEPT !.handshake = h]
    OBVIOUS
  <2>2. /\ r \in Sockets /\ r.state = "open"
        /\ r.handshake = h /\ r.up /\ r.url = socks[n].url
    BY <1>0, <2>1 DEF Sockets
  <2>3. socks' = [socks EXCEPT ![n] = r]
    BY <1>1, <2>1
  <2>. QED
    BY <1>0, <2>2, <2>3, ExceptSeq DEF Becomes, WsInv, WsTypes
<1>3. at' \in Attachments /\ at'.socket = n /\ at'.connecting = 0
      /\ at'.promise = (IF ready THEN 0 ELSE at.promise)
  <2>1. PICK a : a = [at EXCEPT !.socket = n, !.connecting = 0]
    OBVIOUS
  <2>2. at \in Attachments /\ n \in Nat
    BY <1>0 DEF WsInv, WsTypes
  <2>3. a \in Attachments /\ a.socket = n /\ a.connecting = 0 /\ a.promise = at.promise
    BY <2>1, <2>2 DEF Attachments
  <2>4. at' = IF ready THEN [a EXCEPT !.promise = 0] ELSE a
    BY <1>1, <2>1 DEF Settled
  <2>. QED
    BY <2>3, <2>4 DEF Attachments
<1>4. /\ sends' = SendsAfter(n) \/ (sends' = sends /\ h = socks[n].handshake)
      /\ config' = ConfigAfter(n, socks', at') \/ (config' = config /\ h = socks[n].handshake)
  BY <1>1
<1> HIDE DEF h
<1>5. UNCHANGED <<url, deferred, wsClosing, wsTold, close, mishaps>>
      /\ socks[n].state = "connecting"
  BY DEF Opens
<1>6. sends' \in [Senders -> Nat] /\ SendsWait(socks', sends')
  BY <1>0, <1>2, <1>4, SendsGoOn DEF WsInv
<1>7. /\ config' \in Configures /\ ConfigWaits(socks', config', url')
      /\ \/ config' = config
         \/ /\ config'.step = "idle" /\ config.step = "connecting"
            /\ socks'[at'.socket].url = config.url => config'.fits
  <2>1. config' \in Configures /\ ConfigWaits(socks', config', url)
    BY <1>0, <1>2, <1>3, <1>4, ConfigGoesOn DEF WsInv
  <2>2. \/ config' = config
        \/ /\ config'.step = "idle" /\ config.step = "connecting"
           /\ \/ socks'[n].handshake = "failed"
              \/ at'.socket # 0 /\ socks'[at'.socket].url = config.url
              => config'.fits
    BY <1>4, ConfigFits
  <2>. QED
    BY <1>0, <1>3, <1>5, <2>1, <2>2
<1>8. WsTypes'
  BY <1>2, <1>3, <1>5, <1>6, <1>7 DEF WsInv, WsTypes, Becomes
<1>9. Pointers(socks', at')
  BY <1>0, <1>2, <1>3, <1>5 DEF WsInv, Pointers, Becomes, h
<1>10. "stale" \notin mishaps => at.connecting = n /\ at.socket = 0 /\ at.promise = n
  BY <1>0, <1>5 DEF WsInv, Pointers, OneLive, Live
<1>11. "stale" \notin mishaps' => OneLive(socks', at')
  BY <1>0, <1>2, <1>3, <1>5, <1>10 DEF WsInv, OneLive, Live, Becomes
<1>12. mishaps' = {} => Owned(socks', at', url', config', wsClosing')
  BY <1>0, <1>2, <1>3, <1>5, <1>7, <1>10 DEF WsInv, Owned, Reaches, Becomes
<1>13. CloseWaits(socks', close', wsClosing') /\ LossTold(socks', (wsTold \/ wsClosing)')
  BY <1>0, <1>2, <1>5 DEF WsInv, CloseWaits, LossTold, Becomes
<1>. QED
  BY <1>6, <1>7, <1>8, <1>9, <1>11, <1>12, <1>13 DEF WsInv

\* The handshake of an open socket ends: with a ready event or an error.
LEMMA AnsweredStep ==
    ASSUME WsInv, NEW n \in SocketIds, Ready(n) \/ Refuses(n)
    PROVE  WsInv'
<1>0. /\ n \in 1 .. Len(socks) /\ Len(socks) \in Nat /\ socks[n] \in Sockets
      /\ at \in Attachments
  BY OfSockets DEF WsInv, WsTypes, SocketIds
<1>1. PICK s, h : /\ Becomes(socks, socks', n, s, h, socks[n].up)
                  /\ \/ s = "open" /\ h = "ready" /\ at' = [at EXCEPT !.promise = 0]
                     \/ s = "closing" /\ h = "failed" /\ at' = NoSocket
                  /\ sends' = SendsAfter(n) /\ config' = ConfigAfter(n, socks', at')
  <2>1. CASE Ready(n)
    <3>1. PICK r : r = [socks[n] EXCEPT !.handshake = "ready"]
      OBVIOUS
    <3>2. /\ r \in Sockets /\ r.state = "open"
          /\ r.handshake = "ready" /\ r.up = socks[n].up /\ r.url = socks[n].url
      BY <1>0, <2>1, <3>1 DEF Sockets, Ready, Pending
    <3>3. socks' = [socks EXCEPT ![n] = r]
      BY <2>1, <3>1 DEF Ready
    <3>4. Becomes(socks, socks', n, "open", "ready", socks[n].up)
      BY <1>0, <3>2, <3>3, ExceptSeq DEF Becomes, WsInv, WsTypes
    <3>5. /\ at' = [at EXCEPT !.promise = 0]
          /\ sends' = SendsAfter(n) /\ config' = ConfigAfter(n, socks', at')
      BY <2>1 DEF Ready, Settled
    <3>. QED
      BY <3>4, <3>5
  <2>2. CASE Refuses(n)
    <3>1. Becomes(socks, socks', n, "closing", "failed", socks[n].up)
      BY <1>0, <2>2, Ended DEF Refuses, WsInv, WsTypes
    <3>2. /\ at' = NoSocket
          /\ sends' = SendsAfter(n) /\ config' = ConfigAfter(n, socks', at')
      BY <2>2 DEF Refuses
    <3>. QED
      BY <3>1, <3>2
  <2>. QED
    BY <2>1, <2>2
<1>2. /\ at' \in Attachments /\ at'.promise = 0
      /\ \/ s = "open" /\ h = "ready" /\ at'.socket = at.socket /\ at'.connecting = at.connecting
         \/ s = "closing" /\ h = "failed" /\ at'.socket = 0 /\ at'.connecting = 0
  BY <1>0, <1>1 DEF Attachments, NoSocket
<1>3. /\ socks[n].state = "open" /\ socks[n].handshake = "pending"
      /\ UNCHANGED <<url, deferred, wsClosing, wsTold, close, mishaps>>
  BY DEF Ready, Refuses, Pending
<1>4. sends' \in [Senders -> Nat] /\ SendsWait(socks', sends')
  BY <1>0, <1>1, SendsGoOn DEF WsInv
<1>5. config' \in Configures /\ ConfigWaits(socks', config', url)
  BY <1>0, <1>1, <1>2, ConfigGoesOn DEF WsInv
<1>6. \/ config' = config
      \/ /\ config'.step = "idle" /\ config.step = "connecting"
         /\ \/ socks'[n].handshake = "failed"
            \/ at'.socket # 0 /\ socks'[at'.socket].url = config.url
            => config'.fits
  BY <1>1, ConfigFits
<1>7. WsTypes'
  BY <1>1, <1>2, <1>3, <1>4, <1>5 DEF WsInv, WsTypes, Becomes
<1>8. Pointers(socks', at')
  BY <1>0, <1>1, <1>2, <1>3 DEF WsInv, Pointers, Becomes
<1>9. "stale" \notin mishaps => at.socket = n /\ at.connecting = 0
  BY <1>0, <1>3 DEF WsInv, Pointers, OneLive, Live
<1>10. "stale" \notin mishaps' => OneLive(socks', at')
  BY <1>0, <1>1, <1>2, <1>3, <1>9 DEF WsInv, OneLive, Live, Becomes
<1>11. mishaps' = {} => Owned(socks', at', url', config', wsClosing')
  BY <1>0, <1>1, <1>2, <1>3, <1>6, <1>9 DEF WsInv, Owned, Reaches, Becomes
<1>12. CloseWaits(socks', close', wsClosing') /\ LossTold(socks', (wsTold \/ wsClosing)')
  BY <1>0, <1>1, <1>2, <1>3 DEF WsInv, CloseWaits, LossTold, Becomes
<1>. QED
  BY <1>3, <1>4, <1>5, <1>7, <1>8, <1>10, <1>11, <1>12 DEF WsInv

\* A session reports an error; a socket that fails is forgotten, and the session told.
LEMMA AgentErrorsStep ==
    ASSUME WsInv, NEW n \in SocketIds, AgentErrors(n)
    PROVE  WsInv'
<1>1. UNCHANGED <<socks, at, url, deferred, wsClosing, config, sends, close, mishaps>>
      /\ wsTold' = (wsTold \/ ~wsClosing)
  BY DEF AgentErrors, Reports
<1>. QED
  BY <1>1 DEF WsInv, WsTypes, LossTold

LEMMA FailsStep ==
    ASSUME WsInv, NEW n \in SocketIds, Fails(n)
    PROVE  WsInv'
<1>0. /\ n \in 1 .. Len(socks) /\ Len(socks) \in Nat /\ socks[n] \in Sockets
      /\ at \in Attachments
  BY OfSockets DEF WsInv, WsTypes, SocketIds
<1>1. Becomes(socks, socks', n, "closing", socks[n].handshake, socks[n].up)
  BY <1>0, Restated DEF Fails, WsInv, WsTypes
<1>2. /\ socks[n].state = "open" /\ socks[n].handshake = "ready" /\ socks[n].up
      /\ UNCHANGED <<url, deferred, wsClosing, config, sends, close>>
      /\ wsTold' = (wsTold \/ ~wsClosing) /\ wsTold' \in BOOLEAN
  BY <1>0 DEF Fails, Reports, WsInv, WsTypes, Pointers
<1>3. /\ at' \in Attachments /\ at'.socket = 0
      /\ at'.connecting = at.connecting /\ at'.promise = at.promise
  <2>1. at' = [at EXCEPT !.socket = 0]
    BY <1>2 DEF Fails, Forgotten
  <2>. QED
    BY <1>0, <2>1 DEF Attachments
<1>4. mishaps \subseteq mishaps' /\ mishaps' \subseteq {"overlap", "stale"}
  BY DEF Fails, ForgetsAnother, WsInv, WsTypes
<1>5. sends' \in [Senders -> Nat] /\ SendsWait(socks', sends')
  BY <1>0, <1>1, <1>2, SendsGoOn DEF WsInv
<1>6. config' \in Configures /\ ConfigWaits(socks', config', url)
  BY <1>0, <1>1, <1>2, <1>3, ConfigGoesOn DEF WsInv
<1>7. WsTypes'
  BY <1>1, <1>2, <1>3, <1>4, <1>5, <1>6 DEF WsInv, WsTypes, Becomes
<1>8. Pointers(socks', at')
  BY <1>0, <1>1, <1>2, <1>3 DEF WsInv, Pointers, Becomes
<1>9. "stale" \notin mishaps => at.socket = n /\ at.connecting = 0 /\ at.promise = 0
  BY <1>0, <1>2 DEF WsInv, Pointers, OneLive, Live
<1>10. "stale" \notin mishaps' => OneLive(socks', at')
  BY <1>0, <1>1, <1>2, <1>3, <1>4, <1>9 DEF WsInv, OneLive, Live, Becomes
<1>11. mishaps' = {} => Owned(socks', at', url', config', wsClosing')
  BY <1>0, <1>1, <1>2, <1>3, <1>4, <1>9 DEF WsInv, Owned, Reaches, Becomes
<1>12. CloseWaits(socks', close', wsClosing') /\ LossTold(socks', (wsTold \/ wsClosing)')
  BY <1>0, <1>1, <1>2 DEF WsInv, CloseWaits, LossTold, Becomes
<1>. QED
  BY <1>2, <1>5, <1>6, <1>7, <1>8, <1>10, <1>11, <1>12 DEF WsInv

\* With a socket more, who waited still waits for the same.
LEMMA StillWaits ==
    ASSUME NEW ss \in Seq(Sockets), NEW ss2 \in Seq(Sockets), NEW a, NEW e, NEW u,
           e.socks = ss2, Joins(ss, a, e, u) \/ Opened(ss, a, ss2, e.at, e.waits, u),
           NEW w \in [Senders -> Nat], SendsWait(ss, w),
           NEW c, NEW over, CloseWaits(ss, c, over), NEW told, LossTold(ss, told)
    PROVE  SendsWait(ss2, w) /\ CloseWaits(ss2, c, over) /\ LossTold(ss2, told)
<1>1. Len(ss) \in Nat
  BY OfSockets
<1>2. CASE ss2 = ss
  BY <1>2
<1>3. CASE Opened(ss, a, ss2, e.at, e.waits, u)
  <2>1. \A m \in 1 .. Len(ss) : m \in 1 .. Len(ss2) /\ ss2[m] = ss[m]
    BY <1>1, <1>3 DEF Opened
  <2>2. \A m \in 1 .. Len(ss2) : m \in 1 .. Len(ss) \/ (m = e.waits /\ ~ss2[m].up)
    BY <1>1, <1>3 DEF Opened, NewSocket
  <2>. QED
    BY <2>1, <2>2 DEF SendsWait, CloseWaits, LossTold
<1>. QED
  BY <1>2, <1>3 DEF Joins

\* A configure that goes on: what it ends with, or waits for.
LEMMA ConfigureGoesOn ==
    ASSUME NEW ss \in Seq(Sockets), NEW a \in Attachments, NEW u \in Urls,
           NEW e, e = EnsuredSocket(ss, a, u), Pointers(ss, a),
           NEW c, c = Configured(e, u)
    PROVE  /\ c \in Configures /\ ConfigWaits(e.socks, c, u)
           /\ Reaches(ss, a, u) => Reaches(e.socks, e.at, u) /\ c.fits
           /\ c.step # "dropping" /\ (c.step = "connecting" => c.url = u)
<1>1. /\ e.socks \in Seq(Sockets) /\ e.at \in Attachments /\ e.waits \in Nat
      /\ Joins(ss, a, e, u) \/ Opened(ss, a, e.socks, e.at, e.waits, u)
      /\ e.waits # 0 => e.waits \in 1 .. Len(e.socks) /\ e.socks[e.waits].handshake = "pending"
  BY Ensures
<1>2. u # 0
  BY WsAssumption
<1>3. Reaches(ss, a, u) => Reaches(e.socks, e.at, u)
  BY <1>1, OfSockets DEF Reaches, Joins, Opened, NewSocket
<1>4. CASE e.waits # 0
  BY <1>1, <1>2, <1>3, <1>4 DEF Configured, Configures, ConfigWaits
<1>5. CASE e.waits = 0
  <2>1. e.at.socket # 0 /\ e.at = a /\ e.socks = ss
    BY <1>1, <1>2, <1>5, OfSockets DEF Joins, Opened
  <2>2. Reaches(ss, a, u) => c.fits
    BY <1>5, <2>1 DEF Configured, AtRest, Reaches
  <2>3. c \in Configures /\ c.step = "idle"
    BY <1>5 DEF Configured, AtRest, Configures
  <2>. QED
    BY <1>2, <1>3, <2>2, <2>3 DEF ConfigWaits
<1>. QED
  BY <1>4, <1>5

\* The close of a socket, before the configure that awaited it goes on.
Leaves(n, ss, a) ==
    /\ Becomes(socks, ss, n, "closed",
               IF socks[n].handshake = "pending" THEN "failed" ELSE socks[n].handshake, socks[n].up)
    /\ a \in Attachments
    /\ a.socket = (IF socks[n].up THEN 0 ELSE at.socket)
    /\ a.connecting = (IF socks[n].handshake = "pending" THEN 0 ELSE at.connecting)
    /\ a.promise = (IF socks[n].handshake = "pending" THEN 0 ELSE at.promise)

LEMMA LeavesSome ==
    ASSUME WsInv, NEW n \in SocketIds, Departed(n)
    PROVE  \E ss, a :
             /\ Leaves(n, ss, a)
             /\ sends' = IF socks[n].handshake = "pending" THEN SendsAfter(n) ELSE sends
             /\ LET waits == config.step = "dropping" /\ config.on = n IN
                /\ waits /\ ~deferred =>
                     LET e == EnsuredSocket(ss, a, config.url) IN
                     socks' = e.socks /\ at' = e.at /\ config' = Configured(e, config.url)
                /\ ~(waits /\ ~deferred) =>
                     /\ socks' = ss /\ at' = a
                     /\ config' = IF waits THEN AtRest
                                  ELSE IF socks[n].handshake = "pending"
                                       THEN ConfigAfter(n, ss, a) ELSE config
<1>0. n \in 1 .. Len(socks) /\ socks[n] \in Sockets /\ socks \in Seq(Sockets) /\ at \in Attachments
  BY OfSockets DEF WsInv, WsTypes, SocketIds
<1> DEFINE pending == socks[n].handshake = "pending"
           ss == [socks EXCEPT ![n].state = "closed",
                               ![n].handshake = IF pending THEN "failed" ELSE @]
           forgotten == Forgotten(n, at)
           a == IF pending THEN [Settled(n, forgotten) EXCEPT !.connecting = 0] ELSE forgotten
<1>1. Becomes(socks, ss, n, "closed", IF pending THEN "failed" ELSE socks[n].handshake, socks[n].up)
  <2>1. PICK h : h = IF pending THEN "failed" ELSE socks[n].handshake
    OBVIOUS
  <2>2. h \in {"pending", "ready", "failed"}
    BY <1>0, <2>1 DEF Sockets
  <2>3. ss = [socks EXCEPT ![n].state = "closed", ![n].handshake = h]
    BY <1>0, <2>1 DEF Sockets
  <2>4. PICK s2 : s2 = [socks EXCEPT ![n].state = "closed", ![n].handshake = h]
    OBVIOUS
  <2>5. Becomes(socks, s2, n, "closed", h, socks[n].up)
    BY <1>0, <2>2, <2>4, Ended
  <2>. QED
    BY <2>1, <2>3, <2>4, <2>5
<1>2. /\ a \in Attachments
      /\ a.socket = (IF socks[n].up THEN 0 ELSE at.socket)
      /\ a.connecting = (IF pending THEN 0 ELSE at.connecting)
      /\ a.promise = (IF pending THEN 0 ELSE at.promise)
  <2>1. PICK f : f = Forgotten(n, at)
    OBVIOUS
  <2>2. f \in Attachments /\ f.socket = (IF socks[n].up THEN 0 ELSE at.socket)
        /\ f.connecting = at.connecting /\ f.promise = at.promise
    BY <1>0, <2>1 DEF Forgotten, Attachments
  <2>3. PICK g : g = [f EXCEPT !.promise = 0]
    OBVIOUS
  <2>4. g \in Attachments /\ g.socket = f.socket /\ g.connecting = f.connecting /\ g.promise = 0
    BY <2>2, <2>3 DEF Attachments
  <2>5. a = IF pending THEN [g EXCEPT !.connecting = 0] ELSE f
    BY <2>1, <2>3 DEF Settled
  <2>. QED
    BY <2>2, <2>4, <2>5 DEF Attachments
<1>3. Leaves(n, ss, a)
  BY <1>1, <1>2 DEF Leaves
<1> WITNESS ss, a
<1>. QED
  BY <1>3 DEF Departed

LEMMA DepartedStep ==
    ASSUME WsInv, NEW n \in SocketIds, Departed(n)
    PROVE  WsInv'
<1> DEFINE waits == config.step = "dropping" /\ config.on = n
           pending == socks[n].handshake = "pending"
<1>0. /\ n \in 1 .. Len(socks) /\ Len(socks) \in Nat /\ socks[n] \in Sockets
      /\ socks \in Seq(Sockets) /\ at \in Attachments /\ config \in Configures
  BY OfSockets DEF WsInv, WsTypes, SocketIds
<1>1. PICK ss, a :
         /\ Leaves(n, ss, a)
         /\ sends' = IF pending THEN SendsAfter(n) ELSE sends
         /\ waits /\ ~deferred =>
              LET e == EnsuredSocket(ss, a, config.url) IN
              socks' = e.socks /\ at' = e.at /\ config' = Configured(e, config.url)
         /\ ~(waits /\ ~deferred) =>
              /\ socks' = ss /\ at' = a
              /\ config' = IF waits THEN AtRest
                           ELSE IF pending THEN ConfigAfter(n, ss, a) ELSE config
  BY LeavesSome
<1>2. /\ url' = IF waits THEN config.url ELSE url
      /\ mishaps' = mishaps \cup ForgetsAnother(n) \cup
           (IF pending /\ at.promise \notin {0, n} THEN {"stale"} ELSE {}) \cup
           (IF waits /\ ~deferred /\ wsClosing THEN {"overlap"} ELSE {})
      /\ wsTold' = (wsTold \/ (socks[n].up /\ ~wsClosing))
      /\ close' = IF close.on = n THEN [step |-> "done", on |-> 0] ELSE close
      /\ UNCHANGED <<deferred, wsClosing>> /\ socks[n].state # "closed"
  BY DEF Departed
<1>3. /\ mishaps \subseteq mishaps' /\ mishaps' \subseteq {"overlap", "stale"}
      /\ "stale" \notin mishaps' => /\ socks[n].up => at.socket \in {0, n}
                                    /\ pending => at.promise \in {0, n}
      /\ mishaps' = {} => ~(waits /\ ~deferred /\ wsClosing)
  BY <1>2 DEF ForgetsAnother, WsInv, WsTypes
<1>4. wsTold' \in BOOLEAN
  BY <1>0, <1>2 DEF WsInv, WsTypes, Sockets
<1> DEFINE h == IF pending THEN "failed" ELSE socks[n].handshake
<1>5. /\ Becomes(socks, ss, n, "closed", h, socks[n].up) /\ a \in Attachments
      /\ a.socket = (IF socks[n].up THEN 0 ELSE at.socket)
      /\ a.connecting = (IF pending THEN 0 ELSE at.connecting)
      /\ a.promise = (IF pending THEN 0 ELSE at.promise)
  BY <1>1 DEF Leaves
<1>6. sends' \in [Senders -> Nat] /\ SendsWait(ss, sends')
  <2>1. sends' = SendsAfter(n) \/ (sends' = sends /\ h = socks[n].handshake)
    BY <1>1
  <2> HIDE DEF h
  <2>. QED
    BY <1>0, <1>5, <2>1, SendsGoOn DEF WsInv
<1>7. Pointers(ss, a)
  BY <1>0, <1>5 DEF WsInv, Pointers, Becomes
<1>8. "stale" \notin mishaps' => OneLive(ss, a)
  BY <1>0, <1>3, <1>5 DEF WsInv, Pointers, OneLive, Live, Becomes
<1>9. CloseWaits(ss, close', wsClosing)
  BY <1>0, <1>2, <1>5 DEF WsInv, CloseWaits, Becomes
<1>10. LossTold(ss, wsTold' \/ wsClosing)
  BY <1>0, <1>2, <1>5 DEF WsInv, LossTold, Becomes
<1>11. close' \in [step : {"no", "waiting", "done"}, on : Nat]
  BY <1>2 DEF WsInv, WsTypes
<1>12. CASE waits /\ ~deferred
  <2> DEFINE e == EnsuredSocket(ss, a, config.url)
  <2>1. config.url \in Urls /\ url' = config.url
    BY <1>2, <1>12 DEF WsInv, ConfigWaits
  <2>2. socks' = e.socks /\ at' = e.at /\ config' = Configured(e, config.url)
    BY <1>1, <1>12
  <2>3. PICK o : o = e
    OBVIOUS
  <2>4. ss \in Seq(Sockets)
    BY <1>5 DEF Becomes
  <2>5. /\ o.socks \in Seq(Sockets) /\ o.at \in Attachments /\ o.waits \in Nat
        /\ Joins(ss, a, o, config.url) \/ Opened(ss, a, o.socks, o.at, o.waits, config.url)
        /\ Pointers(o.socks, o.at)
        /\ OneLive(ss, a) => OneLive(o.socks, o.at)
    BY <1>5, <1>7, <2>1, <2>3, <2>4, Ensures
  <2>6. /\ config' \in Configures /\ ConfigWaits(o.socks, config', config.url)
        /\ Reaches(ss, a, config.url) => Reaches(o.socks, o.at, config.url) /\ config'.fits
        /\ config'.step # "dropping" /\ (config'.step = "connecting" => config'.url = config.url)
    BY <1>5, <1>7, <2>1, <2>2, <2>3, <2>4, ConfigureGoesOn
  <2>7. socks' = o.socks /\ at' = o.at
    BY <2>2, <2>3
  <2> HIDE DEF e
  <2>8. SendsWait(socks', sends') /\ CloseWaits(socks', close', wsClosing)
        /\ LossTold(socks', wsTold' \/ wsClosing)
    BY <1>6, <1>9, <1>10, <2>4, <2>5, <2>7, StillWaits
  <2>9. WsTypes'
    BY <1>2, <1>3, <1>4, <1>6, <1>11, <2>1, <2>5, <2>6, <2>7 DEF WsInv, WsTypes
  <2>10. mishaps' = {} => Owned(socks', at', url', config', wsClosing')
    BY <1>2, <1>3, <1>5, <1>12, <2>1, <2>6, <2>7 DEF WsInv, Owned, Reaches
  <2>. QED
    BY <1>2, <1>8, <2>1, <2>5, <2>6, <2>7, <2>8, <2>9, <2>10 DEF WsInv
<1>13. CASE ~(waits /\ ~deferred)
  <2>1. /\ socks' = ss /\ at' = a
        /\ config' = IF waits THEN AtRest ELSE IF pending THEN ConfigAfter(n, ss, a) ELSE config
    BY <1>1, <1>13
  <2>2. config' \in Configures /\ ConfigWaits(ss, config', url')
    <3>1. CASE waits
      <4>1. config' = AtRest /\ url' = config.url /\ config.url \in Urls
        BY <1>2, <2>1, <3>1 DEF WsInv, ConfigWaits
      <4>. QED
        BY <4>1, WsAssumption DEF AtRest, Configures, ConfigWaits
    <3>2. CASE ~waits
      <4>1. config' = ConfigAfter(n, ss, a) \/ (config' = config /\ h = socks[n].handshake)
        BY <2>1, <3>2
      <4>2. url' = url
        BY <1>2, <3>2
      <4> HIDE DEF h
      <4>. QED
        BY <1>0, <1>5, <3>2, <4>1, <4>2, ConfigGoesOn DEF WsInv
    <3>. QED
      BY <3>1, <3>2
  <2>3. \/ config' = config
        \/ config'.step = "idle" /\ (config.step = "dropping" \/ h = "failed" => config'.fits)
    <3>1. CASE waits
      BY <2>1, <3>1 DEF AtRest
    <3>2. CASE ~waits /\ pending
      BY <1>5, <2>1, <3>2, ConfigFits DEF Becomes
    <3>3. CASE ~waits /\ ~pending
      BY <2>1, <3>3
    <3>. QED
      BY <3>1, <3>2, <3>3
  <2>4. config' # config => config.step = "dropping" \/ h = "failed"
    BY <2>1
  <2>5. url' \in Urls \cup {0}
    BY <1>2 DEF WsInv, WsTypes, ConfigWaits
  <2>6. WsTypes'
    BY <1>2, <1>3, <1>4, <1>5, <1>6, <1>11, <2>1, <2>2, <2>5 DEF WsInv, WsTypes, Becomes
  <2>7. mishaps' = {} => Owned(socks', at', url', config', wsClosing')
    BY <1>0, <1>2, <1>3, <1>5, <1>7, <2>1, <2>3, <2>4
       DEF WsInv, Owned, Reaches, Becomes, Pointers
  <2>. QED
    BY <1>2, <1>6, <1>7, <1>8, <1>9, <1>10, <2>1, <2>2, <2>6, <2>7 DEF WsInv
<1>. QED
  BY <1>12, <1>13

\* What a send opens while the attachment is torn down is an overlap.
LEMMA SendJsonStep ==
    ASSUME WsInv, NEW s \in Senders, SendJson(s)
    PROVE  WsInv'
<1>1. PICK e : e = EnsuredSocket(socks, at, url)
  OBVIOUS
<1>2. /\ socks' = e.socks /\ at' = e.at /\ sends' = [sends EXCEPT ![s] = e.waits]
      /\ mishaps' = mishaps \cup
            IF Len(e.socks) > Len(socks) /\ (wsClosing \/ config.step = "dropping")
            THEN {"overlap"} ELSE {}
      /\ UNCHANGED <<url, deferred, wsClosing, wsTold, config, close>>
  BY <1>1 DEF SendJson
<1>3. /\ e.socks \in Seq(Sockets) /\ e.at \in Attachments /\ e.waits \in Nat
      /\ Joins(socks, at, e, url) \/ Opened(socks, at, e.socks, e.at, e.waits, url)
      /\ Pointers(e.socks, e.at)
      /\ OneLive(socks, at) => OneLive(e.socks, e.at)
      /\ e.waits # 0 => e.waits \in 1 .. Len(e.socks) /\ e.socks[e.waits].handshake = "pending"
  BY <1>1, Ensures DEF WsInv, WsTypes
<1>4. Len(socks) \in Nat
  BY OfSockets DEF WsInv, WsTypes
<1>5. SendsWait(e.socks, sends) /\ CloseWaits(socks', close', wsClosing')
      /\ LossTold(socks', (wsTold \/ wsClosing)')
  BY <1>2, <1>3, StillWaits DEF WsInv, WsTypes
<1>6. sends' \in [Senders -> Nat] /\ SendsWait(socks', sends')
  BY <1>2, <1>3, <1>5 DEF WsInv, WsTypes, SendsWait
<1>7. ConfigWaits(socks', config', url')
  <2>1. CASE Joins(socks, at, e, url)
    BY <1>2, <2>1 DEF WsInv, Joins
  <2>2. CASE Opened(socks, at, e.socks, e.at, e.waits, url)
    <3>1. \A m \in 1 .. Len(socks) : m \in 1 .. Len(e.socks) /\ e.socks[m] = socks[m]
      BY <1>4, <2>2 DEF Opened
    <3>2. url' # 0
      BY <1>2, <2>2, WsAssumption DEF Opened
    <3>. QED
      BY <1>2, <3>1, <3>2 DEF WsInv, ConfigWaits
  <2>. QED
    BY <1>3, <2>1, <2>2
<1>8. mishaps \subseteq mishaps' /\ mishaps' \subseteq {"overlap", "stale"}
  BY <1>2 DEF WsInv, WsTypes
<1>9. WsTypes'
  BY <1>2, <1>3, <1>6, <1>8 DEF WsInv, WsTypes
<1>10. mishaps' = {} => Owned(socks', at', url', config', wsClosing')
  <2>1. CASE Joins(socks, at, e, url)
    BY <1>2, <1>8, <2>1 DEF WsInv, Joins
  <2>2. CASE Opened(socks, at, e.socks, e.at, e.waits, url)
    <3>1. mishaps' = {} => ~wsClosing /\ config.step # "dropping" /\ mishaps = {}
      BY <1>2, <1>4, <2>2 DEF Opened
    <3>2. Reaches(e.socks, e.at, url)
      BY <2>2 DEF Reaches, Opened, NewSocket
    <3>3. mishaps = {} => (config.step = "connecting" => config.url = url) /\ config.fits
      BY DEF WsInv, Owned
    <3>. QED
      BY <1>2, <3>1, <3>2, <3>3 DEF Owned
  <2>. QED
    BY <1>3, <2>1, <2>2
<1>. QED
  BY <1>2, <1>3, <1>5, <1>6, <1>7, <1>8, <1>9, <1>10 DEF WsInv

\* closeSocketOnly: the socket that is dropped lives no more.
LEMMA DropsSocket ==
    ASSUME WsInv
    PROVE  /\ WithoutDropped \in Seq(Sockets) /\ Len(WithoutDropped) = Len(socks)
           /\ NoSocket \in Attachments /\ Pointers(WithoutDropped, NoSocket)
           /\ OneLive(socks, at) => OneLive(WithoutDropped, NoSocket)
           /\ SendsWait(WithoutDropped, sends) /\ CloseWaits(WithoutDropped, close, wsClosing)
           /\ LossTold(WithoutDropped, wsTold \/ wsClosing)
           /\ ConfigWaits(WithoutDropped, config, url)
           /\ Dropped # 0 => Dropped \in 1 .. Len(socks) /\ WithoutDropped[Dropped].state # "closed"
<1>0. /\ Len(socks) \in Nat /\ DOMAIN socks = 1 .. Len(socks) /\ socks \in Seq(Sockets)
      /\ \A n \in 1 .. Len(socks) : socks[n] \in Sockets
  BY OfSockets DEF WsInv, WsTypes
<1>1. Dropped # 0 => /\ Dropped \in 1 .. Len(socks)
                     /\ socks[Dropped].state \in {"open", "connecting"}
  BY DEF WsInv, Pointers, Dropped
<1> DEFINE Ending(n) == [socks[n] EXCEPT !.state = IF @ = "connecting" THEN "aborting" ELSE "closing"]
           Entry(n) == IF n = Dropped /\ socks[n].state # "closed" THEN Ending(n) ELSE socks[n]
<1>2. \A n \in 1 .. Len(socks) :
         /\ Entry(n) \in Sockets
         /\ Entry(n).handshake = socks[n].handshake /\ Entry(n).up = socks[n].up
         /\ n # Dropped => Entry(n) = socks[n]
         /\ n = Dropped => Entry(n).state \in {"aborting", "closing"}
  BY <1>0, <1>1 DEF Sockets
<1>3. WithoutDropped = [n \in 1 .. Len(socks) |-> Entry(n)]
  BY <1>0 DEF WithoutDropped, SocketIds
<1> HIDE DEF Entry, Ending
<1>4. WithoutDropped \in [1 .. Len(socks) -> Sockets]
  BY <1>2, <1>3
<1>5. WithoutDropped \in Seq(Sockets) /\ Len(WithoutDropped) = Len(socks)
  BY <1>0, <1>4, SeqDef, LenProperties
<1>6. \A n \in 1 .. Len(socks) :
         /\ WithoutDropped[n].handshake = socks[n].handshake /\ WithoutDropped[n].up = socks[n].up
         /\ n # Dropped => WithoutDropped[n] = socks[n]
         /\ n = Dropped => WithoutDropped[n].state \in {"aborting", "closing"}
  BY <1>2, <1>3
<1>7. NoSocket \in Attachments /\ NoSocket.socket = 0 /\ NoSocket.connecting = 0 /\ NoSocket.promise = 0
  BY DEF NoSocket, Attachments
<1>8. Pointers(WithoutDropped, NoSocket)
  BY <1>5, <1>6, <1>7 DEF WsInv, Pointers
<1>9. OneLive(socks, at) => OneLive(WithoutDropped, NoSocket)
  <2> SUFFICES ASSUME OneLive(socks, at)
               PROVE  OneLive(WithoutDropped, NoSocket)
    OBVIOUS
  <2>1. \A n \in 1 .. Len(socks) : Live(socks, n) => n = Dropped
    BY DEF OneLive, Dropped
  <2>. QED
    BY <1>5, <1>6, <1>7, <2>1 DEF OneLive, Live
<1>10. SendsWait(WithoutDropped, sends)
  BY <1>5, <1>6 DEF WsInv, SendsWait
<1>11. \A n \in 1 .. Len(socks) : socks[n].state # "closed" => WithoutDropped[n].state # "closed"
  BY <1>6
<1>12. \A n \in 1 .. Len(socks) : WithoutDropped[n].state = "closed" => socks[n].state = "closed"
  BY <1>6
<1>13. CloseWaits(WithoutDropped, close, wsClosing)
  BY <1>5, <1>11 DEF WsInv, CloseWaits
<1>14. LossTold(WithoutDropped, wsTold \/ wsClosing)
  BY <1>5, <1>6, <1>12 DEF WsInv, LossTold
<1>15. ConfigWaits(WithoutDropped, config, url)
  BY <1>5, <1>6, <1>11 DEF WsInv, ConfigWaits
<1>16. Dropped # 0 => Dropped \in 1 .. Len(socks) /\ WithoutDropped[Dropped].state # "closed"
  BY <1>1, <1>6
<1>. QED
  BY <1>5, <1>7, <1>8, <1>9, <1>10, <1>13, <1>14, <1>15, <1>16

LEMMA WsCloseStep ==
    ASSUME WsInv, WsClose
    PROVE  WsInv'
<1>1. /\ wsClosing' /\ wsClosing' \in BOOLEAN /\ socks' = WithoutDropped /\ at' = NoSocket /\ ~wsClosing
      /\ close' = IF Dropped = 0 THEN [step |-> "done", on |-> 0]
                  ELSE [step |-> "waiting", on |-> Dropped]
      /\ UNCHANGED <<url, deferred, wsTold, config, sends, mishaps>>
  BY DEF WsClose
<1>2. Dropped \in Nat
  BY DEF Dropped, WsInv, WsTypes, Attachments
<1>3. CloseWaits(socks', close', wsClosing') /\ close' \in [step : {"no", "waiting", "done"}, on : Nat]
  BY <1>1, <1>2, DropsSocket DEF CloseWaits
<1>4. LossTold(socks', (wsTold \/ wsClosing)')
  BY <1>1 DEF LossTold
<1>5. WsTypes'
  BY <1>1, <1>3, DropsSocket DEF WsInv, WsTypes
<1>6. mishaps' = {} => Owned(socks', at', url', config', wsClosing')
  <2>1. at'.socket = 0 /\ at'.connecting = 0 /\ at'.promise = 0
    BY <1>1 DEF NoSocket
  <2>2. mishaps = {} => (config.step = "connecting" => config.url = url) /\ config.fits
    BY DEF WsInv, Owned
  <2>. QED
    BY <1>1, <2>1, <2>2 DEF Owned, Reaches
<1>. QED
  BY <1>1, <1>3, <1>4, <1>5, <1>6, DropsSocket DEF WsInv

LEMMA ConfigureWsStep ==
    ASSUME WsInv, NEW u \in Urls, NEW d \in BOOLEAN, ConfigureWs(u, d)
    PROVE  WsInv'
<1> DEFINE drops == url \notin {0, u} /\ (at.socket # 0 \/ at.promise # 0) /\ Dropped # 0
<1>1. /\ config.step = "idle" /\ ~wsClosing /\ deferred' = d
      /\ UNCHANGED <<wsClosing, wsTold, sends, close, mishaps>>
  BY DEF ConfigureWs
<1>2. u # 0 /\ socks \in Seq(Sockets) /\ at \in Attachments /\ Len(socks) \in Nat
  BY WsAssumption, OfSockets DEF WsInv, WsTypes
<1>3. CASE drops
  <2>1. /\ socks' = WithoutDropped /\ at' = NoSocket /\ url' = url
        /\ config' = [step |-> "dropping", on |-> Dropped, url |-> u, fits |-> TRUE]
    BY <1>3 DEF ConfigureWs
  <2>2. Dropped \in 1 .. Len(socks) /\ WithoutDropped[Dropped].state # "closed"
        /\ Len(WithoutDropped) = Len(socks)
    BY <1>3, DropsSocket
  <2>3. config' \in Configures /\ ConfigWaits(socks', config', url')
    BY <1>2, <2>1, <2>2, DropsSocket DEF Configures, ConfigWaits
  <2>4. WsTypes'
    BY <1>1, <2>1, <2>3, DropsSocket DEF WsInv, WsTypes
  <2>5. mishaps' = {} => Owned(socks', at', url', config', wsClosing')
    <3>1. at'.socket = 0 /\ at'.connecting = 0 /\ at'.promise = 0
      BY <2>1 DEF NoSocket
    <3>. QED
      BY <2>1, <3>1 DEF Owned, Reaches
  <2>. QED
    BY <1>1, <2>1, <2>3, <2>4, <2>5, DropsSocket DEF WsInv
<1>4. CASE ~drops
  <2>1. PICK a : a = IF url \notin {0, u} /\ at.promise # 0 THEN NoSocket ELSE at
    OBVIOUS
  <2>2. PICK e : e = EnsuredSocket(socks, a, u)
    OBVIOUS
  <2>3. /\ url' = u
        /\ d => config' = AtRest /\ socks' = socks /\ at' = a
        /\ ~d => socks' = e.socks /\ at' = e.at /\ config' = Configured(e, u)
    BY <1>4, <2>1, <2>2 DEF ConfigureWs
  <2>4. a \in Attachments /\ Pointers(socks, a)
    BY <2>1 DEF WsInv, WsTypes, Pointers, NoSocket, Attachments
  <2>5. "stale" \notin mishaps => OneLive(socks, a)
    <3>1. CASE a = at
      BY <3>1 DEF WsInv
    <3>2. CASE a # at
      <4>1. url \notin {0, u} /\ at.promise # 0 /\ Dropped = 0
        BY <1>4, <2>1, <3>2
      <4>2. at.socket = 0 /\ at.connecting = 0
        BY <4>1 DEF Dropped
      <4>. QED
        BY <4>1, <4>2 DEF WsInv, OneLive
    <3>. QED
      BY <3>1, <3>2
  <2>6. mishaps = {} => Reaches(socks, a, u)
    <3>1. CASE a = at /\ url = u
      BY <3>1 DEF WsInv, Owned
    <3>2. CASE a = at /\ url = 0
      BY <1>2, <3>2 DEF WsInv, ConfigWaits, Pointers, Reaches
    <3>3. CASE a = at /\ url \notin {0, u}
      <4>1. at.socket = 0 /\ (at.promise = 0 \/ a = NoSocket)
        BY <1>4, <2>1, <3>3 DEF Dropped
      <4>. QED
        BY <3>3, <4>1 DEF WsInv, OneLive, Reaches, NoSocket
    <3>4. CASE a # at
      BY <2>1, <3>4 DEF NoSocket, Reaches
    <3>. QED
      BY <3>1, <3>2, <3>3, <3>4
  <2>7. CASE d
    <3>1. config' = AtRest /\ socks' = socks /\ at' = a
      BY <2>3, <2>7
    <3>2. config' \in Configures /\ ConfigWaits(socks', config', url')
      BY <1>2, <2>3, <3>1 DEF AtRest, Configures, ConfigWaits
    <3>3. WsTypes'
      BY <1>1, <2>3, <2>4, <3>1, <3>2 DEF WsInv, WsTypes
    <3>4. mishaps' = {} => Owned(socks', at', url', config', wsClosing')
      BY <1>1, <2>3, <2>6, <3>1 DEF Owned, AtRest
    <3>. QED
      BY <1>1, <2>4, <2>5, <3>1, <3>2, <3>3, <3>4 DEF WsInv
  <2>8. CASE ~d
    <3>1. socks' = e.socks /\ at' = e.at /\ config' = Configured(e, u)
      BY <2>3, <2>8
    <3>2. /\ e.socks \in Seq(Sockets) /\ e.at \in Attachments /\ e.waits \in Nat
          /\ Joins(socks, a, e, u) \/ Opened(socks, a, e.socks, e.at, e.waits, u)
          /\ Pointers(e.socks, e.at)
          /\ OneLive(socks, a) => OneLive(e.socks, e.at)
      BY <1>2, <2>2, <2>4, Ensures
    <3>3. /\ config' \in Configures /\ ConfigWaits(socks', config', u)
          /\ Reaches(socks, a, u) => Reaches(e.socks, e.at, u) /\ config'.fits
          /\ config'.step # "dropping" /\ (config'.step = "connecting" => config'.url = u)
      BY <1>2, <2>2, <2>4, <3>1, ConfigureGoesOn
    <3>4. SendsWait(socks', sends') /\ CloseWaits(socks', close', wsClosing')
          /\ LossTold(socks', (wsTold \/ wsClosing)')
      BY <1>1, <1>2, <3>1, <3>2, StillWaits DEF WsInv, WsTypes
    <3>5. WsTypes'
      BY <1>1, <2>3, <3>1, <3>2, <3>3 DEF WsInv, WsTypes
    <3>6. mishaps' = {} => Owned(socks', at', url', config', wsClosing')
      BY <1>1, <2>3, <2>6, <3>1, <3>3 DEF Owned
    <3>. QED
      BY <1>1, <2>3, <2>5, <3>1, <3>2, <3>3, <3>4, <3>5, <3>6 DEF WsInv
  <2>. QED
    BY <2>7, <2>8
<1>. QED
  BY <1>3, <1>4

LEMMA WsStepHolds == WsInv /\ [WsNext]_wsVars => WsInv'
<1> SUFFICES ASSUME WsInv, [WsNext]_wsVars PROVE WsInv'
  OBVIOUS
<1>1. CASE UNCHANGED wsVars
  BY <1>1 DEF wsVars, WsInv, WsTypes
<1>2. CASE WsNext
  BY <1>2, ConfigureWsStep, SendJsonStep, WsCloseStep, OpensStep, AnsweredStep, AgentErrorsStep,
     FailsStep, DepartedStep DEF WsNext
<1>. QED
  BY <1>1, <1>2

LEMMA WsIsWell == WsInv => WsSafe
<1>. SUFFICES ASSUME WsInv PROVE WsSafe
  OBVIOUS
<1>1. /\ socks \in Seq(Sockets) /\ SocketIds = 1 .. Len(socks) /\ Len(socks) \in Nat
      /\ \A n \in 1 .. Len(socks) : socks[n] \in Sockets
  BY OfSockets DEF WsInv, WsTypes, SocketIds
<1>2. WsTypeOK
  BY <1>1 DEF WsInv, WsTypes, WsTypeOK, Pointers, Sockets, Configures
<1>3. OneSocket
  BY <1>1 DEF WsInv, OneLive, OneSocket
<1>4. WaitersGoOn
  BY DEF WsInv, SendsWait, ConfigWaits, CloseWaits, WaitersGoOn
<1>5. ConfiguredIsConnected
  BY DEF WsInv, Owned, ConfiguredIsConnected
<1>6. LossIsTold
  <2>1. close.step = "done" /\ mishaps = {} => \A n \in SocketIds : ~Live(socks, n)
    BY <1>1 DEF WsInv, CloseWaits, Owned, OneLive
  <2>. QED
    BY <1>1, <2>1 DEF WsInv, LossTold, LossIsTold
<1>. QED
  BY <1>2, <1>3, <1>4, <1>5, <1>6 DEF WsSafe

\* A voice agent's leg, for any number of agents, of sends at once and of
\* sockets: it has one socket at a time and knows it, unless a late event of an
\* old one made it forget; nobody waits for what is over; a configure that
\* succeeds leaves the leg connected to the agent it named, and a close leaves no
\* socket, unless a send overlapped them; a session that is lost is reported.
THEOREM WsIsSafe == WsSpec => []WsSafe
<1>1. WsInit => WsInv
  BY WsInitHolds
<1>2. WsInv /\ [WsNext]_wsVars => WsInv'
  BY WsStepHolds
<1>3. WsInv => WsSafe
  BY WsIsWell
<1>. QED
  BY <1>1, <1>2, <1>3, PTL DEF WsSpec

-----------------------------------------------------------------------------
(* What the agent says, and the leg as a whole.                              *)

\* Whole frames are a multiple of a frame, and less than a frame is left.
LEMMA WholeFrames ==
    ASSUME NEW q \in Nat, NEW F \in Nat \ {0}
    PROVE  /\ (q \div F) * F \in 0 .. q /\ q < (q \div F) * F + F
           /\ (q \div F) * F > 0 => (q \div F) * F >= F
<1>1. PICK d \in Nat, m \in 0 .. F - 1 : q = F * d + m /\ d = q \div F
  BY SMT
<1>2. F * d = d * F /\ F * d \in Nat
  BY SMT
<1>3. d * F > 0 => d >= 1
  BY SMT
<1>4. d >= 1 => d * F >= F
  BY SMT
<1>. QED
  BY <1>1, <1>2, <1>3, <1>4

LEMMA Product ==
    ASSUME NEW b \in Nat \ {0}, NEW F \in Nat \ {0}
    PROVE  b * F \in Nat \ {0} /\ b * F >= F
  BY SMT

\* What the playout takes: whole frames, or on a flush all there is.
LEMMA TakenPart ==
    ASSUME NEW S, NEW q \in Seq(S), NEW r \in {1, 2}, NEW f \in BOOLEAN,
           NEW n, n = Taken(q, r, f)
    PROVE  /\ n \in 0 .. Len(q) /\ FrameBytes(r) \in Nat \ {0}
           /\ n \in 1 .. FrameBytes(r) - 1 => f /\ n = Len(q)
           /\ n = 0 => Len(q) < FrameBytes(r) /\ (f => Len(q) = 0)
<1>1. PICK F : F = FrameBytes(r)
  OBVIOUS
<1>2. F \in Nat \ {0}
  BY <1>1, WsAudioAssumption, Product DEF FrameBytes
<1>3. PICK b : b = BatchBytes(r)
  OBVIOUS
<1>4. b \in Nat \ {0} /\ b >= F
  BY <1>1, <1>2, <1>3, WsAudioAssumption, Product DEF BatchBytes
<1>5. Len(q) \in Nat
  OBVIOUS
<1>6. PICK w : w = (Len(q) \div F) * F
  OBVIOUS
<1>7. w \in 0 .. Len(q) /\ Len(q) < w + F /\ (w > 0 => w >= F)
  BY <1>2, <1>5, <1>6, WholeFrames
<1>8. n = IF w >= b THEN b ELSE IF w > 0 THEN w ELSE IF f THEN Len(q) ELSE 0
  BY <1>1, <1>3, <1>6 DEF Taken
<1>. QED
  BY <1>1, <1>2, <1>4, <1>5, <1>7, <1>8

\* Bytes that were said are in one place: dispatched, in order, queued behind
\* what was dispatched, or dropped.
Ordered(s) == \A i, k \in 1 .. Len(s) : i < k => s[i] < s[k]
WaTypes ==
    /\ spoken \in Nat /\ queued \in Seq(Nat) /\ voiced \in Seq(Nat) /\ rate \in 0 .. 2
    /\ flush \in BOOLEAN /\ timer \in BOOLEAN /\ overtaken \in BOOLEAN
Behind(s, t) == \A i \in 1 .. Len(s), k \in 1 .. Len(t) : s[i] < t[k]
Said(s, n, d) == \A i \in 1 .. Len(s) : s[i] \in 1 .. n /\ s[i] \notin d
In(s, b) == \E i \in 1 .. Len(s) : s[i] = b
Whole ==
    /\ Ordered(voiced) /\ Ordered(queued) /\ Behind(voiced, queued)
    /\ Said(voiced, spoken, dropped) /\ Said(queued, spoken, dropped)
    /\ dropped \subseteq 1 .. spoken
    /\ \A b \in 1 .. spoken : In(voiced, b) \/ In(queued, b) \/ b \in dropped

\* What is queued ends with the last byte said, and a flush is about that one.
Playout ==
    /\ Len(queued) # 0 => queued[Len(queued)] = spoken /\ rate # 0
    /\ timer => rate # 0
    /\ flush /\ Len(queued) # 0 => spoken \in flushes \/ overtaken
    /\ Len(queued) # 0 /\ (flush \/ Len(queued) >= FrameBytes(rate)) => timer
    /\ pads \subseteq flushes \/ overtaken

WaInv == WaTypes /\ Whole /\ Playout

LEMMA WaInitHolds == WaInit => WaInv
<1> SUFFICES ASSUME WaInit PROVE WaInv
  OBVIOUS
<1>1. queued \in Seq(Nat) /\ Len(queued) = 0 /\ voiced \in Seq(Nat) /\ Len(voiced) = 0
  BY EmptySeq DEF WaInit
<1>2. /\ spoken = 0 /\ rate = 0 /\ dropped = {} /\ pads = {}
      /\ ~flush /\ ~timer /\ ~overtaken /\ {flush, timer, overtaken} \subseteq BOOLEAN
  BY DEF WaInit
<1>3. WaTypes
  BY <1>1, <1>2 DEF WaTypes
<1>4. Whole
  BY <1>1, <1>2 DEF Whole, Ordered, Behind, Said
<1>5. Playout
  BY <1>1, <1>2 DEF Playout
<1>. QED
  BY <1>3, <1>4, <1>5 DEF WaInv

LEMMA FlushesStep == WaInv /\ Flushes => WaInv'
<1> SUFFICES ASSUME WaInv, Flushes PROVE WaInv'
  OBVIOUS
<1>1. UNCHANGED <<spoken, queued, rate, voiced, pads, dropped, overtaken>> /\ flush'
      /\ flushes' = flushes \cup {spoken} /\ flush' \in BOOLEAN
  BY DEF Flushes
<1>2. timer' = (timer \/ rate # 0)
  BY DEF Flushes, Drains
<1>3. WaTypes'
  BY <1>1, <1>2 DEF WaInv, WaTypes
<1>4. Whole'
  BY <1>1 DEF WaInv, Whole
<1>5. Playout'
  BY <1>1, <1>2 DEF WaInv, Playout, FrameBytes
<1>. QED
  BY <1>3, <1>4, <1>5 DEF WaInv

LEMMA InterruptsStep == WaInv /\ Interrupts => WaInv'
<1> SUFFICES ASSUME WaInv, Interrupts PROVE WaInv'
  OBVIOUS
<1>1. /\ Len(queued') = 0 /\ queued' \in Seq(Nat) /\ rate' = 0 /\ ~flush' /\ ~timer' /\ {flush', timer'} \subseteq BOOLEAN
      /\ UNCHANGED <<spoken, voiced, pads, flushes, overtaken>>
  BY EmptySeq DEF Interrupts, Reset
<1>2. dropped' = dropped \cup {queued[k] : k \in 1 .. Len(queued)}
  BY DEF Interrupts, Reset, ToSet, WaInv, WaTypes
<1>3. WaTypes'
  BY <1>1 DEF WaInv, WaTypes
<1>4. Whole'
  <2>1. 1 .. Len(queued') = {}
    BY <1>1
  <2>2. Ordered(queued') /\ Behind(voiced, queued') /\ Said(queued', spoken, dropped')
    BY <2>1 DEF Ordered, Behind, Said
  <2>3. Said(voiced, spoken, dropped')
    <3> SUFFICES ASSUME NEW i \in 1 .. Len(voiced)
                 PROVE  voiced[i] \in 1 .. spoken /\ voiced[i] \notin dropped'
      BY DEF Said
    <3>1. voiced[i] \in 1 .. spoken /\ voiced[i] \notin dropped
      BY DEF WaInv, Whole, Said
    <3>2. \A k \in 1 .. Len(queued) : voiced[i] # queued[k]
      BY <3>1 DEF WaInv, Whole, Behind, Said
    <3>. QED
      BY <1>2, <3>1, <3>2
  <2>4. \A b \in 1 .. spoken : In(voiced, b) \/ b \in dropped'
    BY <1>2 DEF WaInv, Whole, In
  <2>5. dropped' \subseteq 1 .. spoken
    BY <1>2 DEF WaInv, Whole, Said
  <2>6. voiced' = voiced /\ spoken' = spoken
    BY <1>1
  <2>. QED
    BY <2>2, <2>3, <2>4, <2>5, <2>6 DEF WaInv, Whole
<1>5. Playout'
  BY <1>1 DEF WaInv, Playout
<1>. QED
  BY <1>3, <1>4, <1>5 DEF WaInv

\* New bytes go behind everything, or start anew.
LEMMA SpeaksStep ==
    ASSUME WaInv, NEW n \in Chunks, NEW r \in {1, 2}, Speaks(n, r)
    PROVE  WaInv'
<1> DEFINE other == queued # <<>> /\ rate # r
           keeps == IF other THEN <<>> ELSE queued
           q == keeps \o [k \in 1 .. n |-> spoken + k]
           f == flush /\ ~other
<1>1. n \in Nat /\ spoken \in Nat /\ WaTypes /\ Len(queued) \in Nat
  BY WsAudioAssumption DEF WaInv, WaTypes
<1>2. /\ queued' = q /\ rate' = r /\ flush' = f /\ spoken' = spoken + n
      /\ timer' = IF other THEN f \/ Len(q) >= FrameBytes(r) ELSE Drains(q, r, f)
      /\ dropped' = IF other THEN dropped \cup ToSet(queued) ELSE dropped
      /\ overtaken' = (overtaken \/ f)
      /\ UNCHANGED <<voiced, pads, flushes>>
  BY DEF Speaks
<1>3. PICK m : m = Len(keeps)
  OBVIOUS
<1>4. /\ keeps \in Seq(Nat) /\ m \in Nat
      /\ other => m = 0
      /\ ~other => keeps = queued
  BY <1>1, <1>3, EmptySeq DEF WaTypes
<1>5. PICK bytes : bytes = [k \in 1 .. n |-> spoken + k]
  OBVIOUS
<1>6. bytes \in Seq(Nat) /\ Len(bytes) = n /\ \A k \in 1 .. n : bytes[k] = spoken + k
  <2>1. bytes \in [1 .. n -> Nat]
    BY <1>1, <1>5
  <2>. QED
    BY <1>1, <1>5, <2>1, SeqDef, LenProperties
<1>7. /\ queued' \in Seq(Nat) /\ Len(queued') = m + n
      /\ \A k \in 1 .. m : queued'[k] = keeps[k]
      /\ \A k \in m + 1 .. m + n : queued'[k] = spoken + (k - m)
  <2>1. queued' = keeps \o bytes
    BY <1>2, <1>5
  <2> HIDE DEF keeps
  <2>2. /\ keeps \o bytes \in Seq(Nat) /\ Len(keeps \o bytes) = m + n
        /\ \A k \in 1 .. m + n : (keeps \o bytes)[k] = IF k <= m THEN keeps[k] ELSE bytes[k - m]
    <3>1. keeps \in Seq(Nat) /\ bytes \in Seq(Nat) /\ Len(keeps) = m /\ Len(bytes) = n
      BY <1>3, <1>4, <1>6
    <3>. QED
      BY <3>1, ConcatProperties
  <2>3. \A k \in m + 1 .. m + n : /\ k \in 1 .. m + n /\ ~(k <= m)
                                 /\ k - m \in 1 .. n
    BY <1>1, <1>4
  <2>4. \A k \in 1 .. m : k \in 1 .. m + n /\ k <= m
    BY <1>1, <1>4
  <2>. QED
    BY <1>6, <2>1, <2>2, <2>3, <2>4
<1> DEFINE gone == IF other THEN dropped \cup {queued[k] : k \in 1 .. Len(queued)} ELSE dropped
<1>8. dropped' = gone
  <2>1. ToSet(queued) = {queued[k] : k \in 1 .. Len(queued)}
    BY <1>1 DEF ToSet, WaTypes
  <2>. QED
    BY <1>2, <2>1
<1>9. gone \subseteq 1 .. spoken
  BY DEF WaInv, Whole, Said
<1>10. \A k \in 1 .. m : keeps[k] = queued[k] /\ m = Len(queued) /\ ~other
  BY <1>1, <1>3, <1>4
<1>11. \A k \in 1 .. m + n : k \in 1 .. m \/ k \in m + 1 .. m + n
  BY <1>1, <1>4
<1> HIDE DEF keeps, q
<1>12. Whole'
  <2>1. Ordered(queued')
    <3> SUFFICES ASSUME NEW i \in 1 .. m + n, NEW k \in 1 .. m + n, i < k
                 PROVE  queued'[i] < queued'[k]
      BY <1>7 DEF Ordered
    <3>1. CASE k \in 1 .. m
      <4>1. i \in 1 .. m
        BY <1>4, <3>1
      <4>. QED
        BY <1>7, <1>10, <3>1, <4>1 DEF WaInv, Whole, Ordered
    <3>2. CASE i \in 1 .. m /\ k \in m + 1 .. m + n
      <4>1. queued'[k] = spoken + (k - m) /\ k - m \in 1 .. n
        BY <1>1, <1>4, <1>7, <3>2
      <4>2. queued'[i] \in 1 .. spoken
        BY <1>7, <1>10, <3>2 DEF WaInv, Whole, Said
      <4>. QED
        BY <1>1, <4>1, <4>2
    <3>3. CASE i \in m + 1 .. m + n /\ k \in m + 1 .. m + n
      BY <1>1, <1>4, <1>7, <3>3
    <3>. QED
      BY <1>11, <3>1, <3>2, <3>3
  <2>2. Behind(voiced, queued')
    <3> SUFFICES ASSUME NEW i \in 1 .. Len(voiced), NEW k \in 1 .. m + n
                 PROVE  voiced[i] < queued'[k]
      BY <1>7 DEF Behind
    <3>1. CASE k \in 1 .. m
      BY <1>7, <1>10, <3>1 DEF WaInv, Whole, Behind
    <3>2. CASE k \in m + 1 .. m + n
      <4>1. voiced[i] \in 1 .. spoken /\ queued'[k] = spoken + (k - m) /\ k - m \in 1 .. n
        BY <1>1, <1>4, <1>7, <3>2 DEF WaInv, Whole, Said
      <4>. QED
        BY <1>1, <4>1
    <3>. QED
      BY <1>11, <3>1, <3>2
  <2>3. Said(voiced, spoken', dropped')
    <3> SUFFICES ASSUME NEW i \in 1 .. Len(voiced)
                 PROVE  voiced[i] \in 1 .. spoken' /\ voiced[i] \notin dropped'
      BY DEF Said
    <3>1. voiced[i] \in 1 .. spoken /\ voiced[i] \notin dropped
      BY DEF WaInv, Whole, Said
    <3>2. \A k \in 1 .. Len(queued) : voiced[i] # queued[k]
      BY <3>1 DEF WaInv, Whole, Behind, Said
    <3>3. voiced[i] \in 1 .. spoken'
      BY <1>1, <1>2, <3>1
    <3>. QED
      BY <1>8, <3>1, <3>2, <3>3
  <2>4. Said(queued', spoken', dropped')
    <3> SUFFICES ASSUME NEW k \in 1 .. m + n
                 PROVE  queued'[k] \in 1 .. spoken' /\ queued'[k] \notin dropped'
      BY <1>7 DEF Said
    <3>1. CASE k \in 1 .. m
      BY <1>1, <1>2, <1>7, <1>8, <1>10, <3>1 DEF WaInv, Whole, Said
    <3>2. CASE k \in m + 1 .. m + n
      <4>1. queued'[k] = spoken + (k - m) /\ k - m \in 1 .. n /\ spoken' = spoken + n
        BY <1>1, <1>2, <1>4, <1>7, <3>2
      <4>. QED
        BY <1>1, <1>8, <1>9, <4>1
    <3>. QED
      BY <1>11, <3>1, <3>2
  <2>5. dropped' \subseteq 1 .. spoken'
    BY <1>1, <1>2, <1>8, <1>9
  <2>6. ASSUME NEW b \in 1 .. spoken'
        PROVE  In(voiced, b) \/ In(queued', b) \/ b \in dropped'
    <3>1. CASE b \in 1 .. spoken /\ other
      BY <1>8, <3>1 DEF WaInv, Whole, In
    <3>2. CASE b \in 1 .. spoken /\ ~other
      <4>1. In(queued, b) => In(queued', b)
        <5>1. m = Len(queued) /\ \A k \in 1 .. m : queued'[k] = queued[k]
          BY <1>3, <1>4, <1>7, <3>2
        <5>2. Len(queued') = m + n /\ \A k \in 1 .. m : k \in 1 .. m + n
          BY <1>1, <1>4, <1>7
        <5>. QED
          BY <5>1, <5>2 DEF In
      <4>. QED
        BY <1>8, <3>2, <4>1 DEF WaInv, Whole
    <3>3. CASE b \notin 1 .. spoken
      <4>1. m + (b - spoken) \in m + 1 .. m + n /\ m + (b - spoken) \in 1 .. m + n
        BY <1>1, <1>2, <1>4, <3>3
      <4>2. queued'[m + (b - spoken)] = b
        BY <1>1, <1>4, <1>7, <4>1
      <4>. QED
        BY <1>7, <4>1, <4>2 DEF In
    <3>. QED
      BY <3>1, <3>2, <3>3
  <2>7. Ordered(voiced) /\ voiced' = voiced
    BY <1>2 DEF WaInv, Whole
  <2>. QED
    BY <2>1, <2>2, <2>3, <2>4, <2>5, <2>6, <2>7 DEF Whole
<1>13. {flush', timer', overtaken'} \subseteq BOOLEAN
  BY <1>1, <1>2 DEF WaTypes, Drains
<1>14. WaTypes'
  BY <1>1, <1>2, <1>7, <1>13 DEF WaTypes
<1>15. Playout'
  <2>1. Len(queued') # 0 => queued'[Len(queued')] = spoken'
    <3>1. CASE n = 0
      <4>1. Len(queued') = m /\ spoken' = spoken
        BY <1>1, <1>2, <1>4, <1>7, <3>1
      <4>2. ASSUME m # 0
            PROVE  queued'[m] = spoken
        <5>1. ~other /\ keeps = queued
          BY <1>4, <4>2
        <5>2. m = Len(queued) /\ m \in 1 .. m
          BY <1>3, <1>4, <4>2, <5>1
        <5>3. queued[m] = spoken
          BY <4>2, <5>2 DEF WaInv, Playout
        <5>4. queued'[m] = keeps[m]
          BY <1>7, <5>2
        <5>. QED
          BY <5>1, <5>3, <5>4
      <4>. QED
        BY <4>1, <4>2
    <3>2. CASE n # 0
      <4>1. m + n \in m + 1 .. m + n /\ (m + n) - m = n
        BY <1>1, <1>4, <3>2
      <4>. QED
        BY <1>2, <1>7, <4>1
    <3>. QED
      BY <3>1, <3>2
  <2>2. rate' # 0
    BY <1>2
  <2>3. flush' => overtaken'
    BY <1>2
  <2>4. flush' \/ Len(queued') >= FrameBytes(rate') => timer'
    <3>1. CASE other
      BY <1>2, <3>1
    <3>2. CASE ~other
      <4>1. timer' = (timer \/ (r # 0 /\ (f \/ Len(q) >= FrameBytes(r))))
        BY <1>2, <3>2 DEF Drains
      <4>2. r # 0 /\ queued' = q /\ rate' = r /\ flush' = f
        BY <1>2
      <4> HIDE DEF f
      <4>. QED
        BY <4>1, <4>2
    <3>. QED
      BY <3>1, <3>2
  <2>5. pads' \subseteq flushes' \/ overtaken'
    BY <1>2 DEF WaInv, Playout
  <2>. QED
    BY <2>1, <2>2, <2>3, <2>4, <2>5 DEF Playout
<1>. QED
  BY <1>12, <1>14, <1>15 DEF WaInv

\* A turn of the playout: what it takes is dispatched, the rest stays queued.
LEMMA PlayoutStep == WaInv /\ PlayoutTimer => WaInv'
<1> SUFFICES ASSUME WaInv, PlayoutTimer PROVE WaInv'
  OBVIOUS
<1>1. PICK n : n = Taken(queued, rate, flush)
  OBVIOUS
<1>2. PICK rest : rest = SubSeq(queued, n + 1, Len(queued))
  OBVIOUS
<1>3. PICK part : part = SubSeq(queued, 1, n)
  OBVIOUS
<1>4. /\ queued' = rest /\ voiced' = voiced \o part
      /\ pads' = pads \cup (IF n \in 1 .. FrameBytes(rate) - 1 THEN {queued[n]} ELSE {})
      /\ timer' = (n > 0 /\ rest # <<>> /\ (flush \/ Len(rest) >= FrameBytes(rate)))
      /\ flush' = (flush /\ rest # <<>>)
      /\ UNCHANGED <<spoken, rate, dropped, flushes, overtaken>>
  BY <1>1, <1>2, <1>3 DEF PlayoutTimer
<1>5. rate \in {1, 2} /\ WaTypes /\ Whole /\ Playout
  BY DEF PlayoutTimer, WaInv, WaTypes, Playout
<1>6. /\ n \in 0 .. Len(queued) /\ Len(queued) \in Nat /\ FrameBytes(rate) \in Nat \ {0}
      /\ n \in 1 .. FrameBytes(rate) - 1 => flush /\ n = Len(queued)
      /\ n = 0 => Len(queued) < FrameBytes(rate) /\ (flush => Len(queued) = 0)
  <2>1. queued \in Seq(Nat) /\ flush \in BOOLEAN /\ Len(queued) \in Nat
    BY <1>5 DEF WaTypes
  <2>. QED
    BY <1>1, <1>5, <2>1, TakenPart
<1>7. /\ rest \in Seq(Nat) /\ Len(rest) = Len(queued) - n
      /\ \A k \in 1 .. Len(rest) : k + n \in 1 .. Len(queued) /\ rest[k] = queued[k + n]
  <2>1. /\ n + 1 \in Int /\ Len(queued) \in Int
        /\ \A i \in n + 1 .. Len(queued) : queued[i] \in Nat
    <3>1. queued \in Seq(Nat) /\ \A i \in n + 1 .. Len(queued) : i \in 1 .. Len(queued)
      BY <1>5, <1>6 DEF WaTypes
    <3>. QED
      BY <1>6, <3>1
  <2>2. /\ rest \in Seq(Nat)
        /\ Len(rest) = IF n + 1 <= Len(queued) THEN Len(queued) - (n + 1) + 1 ELSE 0
        /\ \A k \in 1 .. Len(queued) - (n + 1) + 1 : rest[k] = queued[n + 1 + k - 1]
    BY <1>2, <2>1, SubSeqProperties
  <2>3. Len(rest) = Len(queued) - n
    BY <1>6, <2>2
  <2>4. ASSUME NEW k \in 1 .. Len(rest)
        PROVE  k + n \in 1 .. Len(queued) /\ rest[k] = queued[k + n]
    <3>1. k \in 1 .. Len(queued) - (n + 1) + 1 /\ n + 1 + k - 1 = k + n
      BY <1>6, <2>3
    <3>2. k + n \in 1 .. Len(queued)
      BY <1>6, <2>3
    <3>. QED
      BY <2>2, <3>1, <3>2
  <2>. QED
    BY <2>2, <2>3, <2>4
<1>8. /\ part \in Seq(Nat) /\ Len(part) = n
      /\ \A k \in 1 .. n : k \in 1 .. Len(queued) /\ part[k] = queued[k]
  BY <1>3, <1>5, <1>6, SubSeqProperties DEF WaTypes
<1>9. /\ voiced' \in Seq(Nat) /\ Len(voiced') = Len(voiced) + n /\ Len(voiced) \in Nat
      /\ \A i \in 1 .. Len(voiced) : voiced'[i] = voiced[i]
      /\ \A k \in 1 .. n : voiced'[Len(voiced) + k] = queued[k]
  <2>1. /\ voiced \o part \in Seq(Nat) /\ Len(voiced \o part) = Len(voiced) + n /\ Len(voiced) \in Nat
        /\ \A i \in 1 .. Len(voiced) + n :
              (voiced \o part)[i] = IF i <= Len(voiced) THEN voiced[i] ELSE part[i - Len(voiced)]
    <3>1. voiced \in Seq(Nat) /\ Len(voiced) \in Nat
      BY <1>5 DEF WaTypes
    <3>. QED
      BY <1>8, <3>1, ConcatProperties
  <2>2. \A k \in 1 .. n : /\ Len(voiced) + k \in 1 .. Len(voiced) + n /\ ~(Len(voiced) + k <= Len(voiced))
                         /\ (Len(voiced) + k) - Len(voiced) = k
    BY <1>6, <2>1
  <2>3. \A i \in 1 .. Len(voiced) : i \in 1 .. Len(voiced) + n /\ i <= Len(voiced)
    BY <1>6, <2>1
  <2>. QED
    BY <1>4, <1>8, <2>1, <2>2, <2>3
<1>10. \A i \in 1 .. Len(voiced') :
          \/ i \in 1 .. Len(voiced) /\ voiced'[i] = voiced[i]
          \/ i - Len(voiced) \in 1 .. n /\ voiced'[i] = queued[i - Len(voiced)]
  <2> SUFFICES ASSUME NEW i \in 1 .. Len(voiced'), i \notin 1 .. Len(voiced)
               PROVE  i - Len(voiced) \in 1 .. n /\ voiced'[i] = queued[i - Len(voiced)]
    BY <1>9
  <2>1. i - Len(voiced) \in 1 .. n /\ Len(voiced) + (i - Len(voiced)) = i
    BY <1>6, <1>9
  <2>. QED
    BY <1>9, <2>1
<1>11. Whole'
  <2>1. Ordered(queued')
    <3> SUFFICES ASSUME NEW i \in 1 .. Len(rest), NEW k \in 1 .. Len(rest), i < k
                 PROVE  rest[i] < rest[k]
      BY <1>4 DEF Ordered
    <3>1. i + n < k + n
      BY <1>6
    <3>. QED
      BY <1>5, <1>7, <3>1 DEF Whole, Ordered
  <2>2. Ordered(voiced')
    <3> SUFFICES ASSUME NEW i \in 1 .. Len(voiced'), NEW k \in 1 .. Len(voiced'), i < k
                 PROVE  voiced'[i] < voiced'[k]
      BY DEF Ordered
    <3>1. CASE i \in 1 .. Len(voiced) /\ k \in 1 .. Len(voiced)
      BY <1>5, <1>9, <3>1 DEF Whole, Ordered
    <3>2. CASE i \in 1 .. Len(voiced) /\ k \notin 1 .. Len(voiced)
      <4>1. k - Len(voiced) \in 1 .. Len(queued) /\ voiced'[k] = queued[k - Len(voiced)]
        BY <1>8, <1>10, <3>2
      <4>. QED
        BY <1>5, <1>9, <3>2, <4>1 DEF Whole, Behind
    <3>3. CASE i \notin 1 .. Len(voiced)
      <4>1. k \notin 1 .. Len(voiced)
        BY <1>9, <3>3
      <4>2. /\ k - Len(voiced) \in 1 .. Len(queued) /\ voiced'[k] = queued[k - Len(voiced)]
            /\ i - Len(voiced) \in 1 .. Len(queued) /\ voiced'[i] = queued[i - Len(voiced)]
        BY <1>8, <1>10, <3>3, <4>1
      <4>3. i - Len(voiced) < k - Len(voiced)
        BY <1>9
      <4>. QED
        BY <1>5, <4>2, <4>3 DEF Whole, Ordered
    <3>. QED
      BY <3>1, <3>2, <3>3
  <2>3. Behind(voiced', queued')
    <3> SUFFICES ASSUME NEW i \in 1 .. Len(voiced'), NEW k \in 1 .. Len(rest)
                 PROVE  voiced'[i] < rest[k]
      BY <1>4 DEF Behind
    <3>1. k + n \in 1 .. Len(queued) /\ rest[k] = queued[k + n]
      BY <1>7
    <3>2. CASE i \in 1 .. Len(voiced)
      BY <1>5, <1>9, <3>1, <3>2 DEF Whole, Behind
    <3>3. CASE i \notin 1 .. Len(voiced)
      <4>1. i - Len(voiced) \in 1 .. n /\ voiced'[i] = queued[i - Len(voiced)]
        BY <1>10, <3>3
      <4>2. i - Len(voiced) \in 1 .. Len(queued) /\ i - Len(voiced) < k + n
        BY <1>6, <1>7, <1>8, <4>1
      <4>. QED
        BY <1>5, <3>1, <4>1, <4>2 DEF Whole, Ordered
    <3>. QED
      BY <3>2, <3>3
  <2>4. Said(voiced', spoken, dropped)
    BY <1>5, <1>8, <1>10 DEF Whole, Said
  <2>5. Said(queued', spoken, dropped)
    BY <1>4, <1>5, <1>7 DEF Whole, Said
  <2>6. ASSUME NEW b \in 1 .. spoken, b \notin dropped
        PROVE  In(voiced', b) \/ In(queued', b)
    <3>1. CASE In(voiced, b)
      <4>1. \A i \in 1 .. Len(voiced) : i \in 1 .. Len(voiced')
        BY <1>6, <1>9
      <4>. QED
        BY <1>9, <3>1, <4>1 DEF In
    <3>2. ASSUME NEW k \in 1 .. Len(queued), queued[k] = b
          PROVE  In(voiced', b) \/ In(queued', b)
      <4>1. CASE k \in 1 .. n
        <5>1. Len(voiced) + k \in 1 .. Len(voiced')
          BY <1>6, <1>9, <4>1
        <5>. QED
          BY <1>9, <3>2, <4>1, <5>1 DEF In
      <4>2. CASE k \notin 1 .. n
        <5>1. k - n \in 1 .. Len(rest) /\ (k - n) + n = k
          <6>1. k > n /\ k =< Len(queued)
            BY <1>6, <4>2
          <6>2. n \in Nat /\ Len(queued) \in Nat /\ k \in Nat /\ Len(rest) = Len(queued) - n
            BY <1>6, <1>7
          <6>3. \A x, y, z \in Nat : x > y /\ x =< z => x - y \in 1 .. (z - y) /\ (x - y) + y = x
            OBVIOUS
          <6>. QED
            BY <6>1, <6>2, <6>3
        <5>. QED
          BY <1>4, <1>7, <3>2, <5>1 DEF In
      <4>. QED
        BY <4>1, <4>2
    <3>. QED
      BY <1>5, <2>6, <3>1, <3>2 DEF Whole, In
  <2>7. dropped \subseteq 1 .. spoken /\ spoken' = spoken /\ dropped' = dropped
    BY <1>4, <1>5 DEF Whole
  <2>. QED
    BY <2>1, <2>2, <2>3, <2>4, <2>5, <2>6, <2>7 DEF Whole
<1>12. rest # <<>> <=> Len(rest) # 0
  BY <1>7, EmptySeq
<1>13. WaTypes'
  <2>1. {flush', timer'} \subseteq BOOLEAN
    BY <1>4
  <2>. QED
    BY <1>4, <1>5, <1>7, <1>9, <2>1 DEF WaTypes
<1>14. Playout'
  <2>1. Len(rest) # 0 => rest[Len(rest)] = spoken /\ Len(queued) # 0
    <3> SUFFICES ASSUME Len(rest) # 0
                 PROVE  rest[Len(rest)] = spoken /\ Len(queued) # 0
      OBVIOUS
    <3>1. Len(rest) \in 1 .. Len(rest) /\ Len(rest) + n = Len(queued) /\ Len(queued) # 0
      BY <1>6, <1>7
    <3>. QED
      BY <1>5, <1>7, <3>1 DEF Playout
  <2>2. flush' => flush /\ Len(rest) # 0
    BY <1>4, <1>12
  <2>3. ~(n > 0) => n = 0 /\ Len(rest) = Len(queued)
    BY <1>6, <1>7
  <2>4. Len(rest) # 0 /\ (flush' \/ Len(rest) >= FrameBytes(rate)) => timer'
    <3> SUFFICES ASSUME Len(rest) # 0, flush' \/ Len(rest) >= FrameBytes(rate)
                 PROVE  timer'
      OBVIOUS
    <3>1. flush \/ Len(rest) >= FrameBytes(rate)
      BY <2>2
    <3>2. n > 0
      BY <1>6, <2>3, <3>1
    <3>. QED
      BY <1>4, <1>12, <3>1, <3>2
  <2>5. pads' \subseteq flushes \/ overtaken
    <3>1. CASE n \in 1 .. FrameBytes(rate) - 1
      <4>1. queued[n] = spoken /\ (spoken \in flushes \/ overtaken)
        BY <1>5, <1>6, <3>1 DEF Playout
      <4>. QED
        BY <1>4, <1>5, <4>1 DEF Playout
    <3>2. CASE n \notin 1 .. FrameBytes(rate) - 1
      BY <1>4, <1>5, <3>2 DEF Playout
    <3>. QED
      BY <3>1, <3>2
  <2>6. rate # 0 /\ UNCHANGED <<spoken, rate, flushes, overtaken>> /\ queued' = rest
    BY <1>4, <1>5
  <2>7. flush' => (spoken \in flushes \/ overtaken)
    BY <1>5, <2>1, <2>2 DEF Playout
  <2>. QED
    BY <2>1, <2>4, <2>5, <2>6, <2>7 DEF Playout
<1>. QED
  BY <1>11, <1>13, <1>14 DEF WaInv

LEMMA WaStepHolds == WaInv /\ [WaNext]_waVars => WaInv'
<1> SUFFICES ASSUME WaInv, [WaNext]_waVars PROVE WaInv'
  OBVIOUS
<1>1. CASE UNCHANGED waVars
  BY <1>1 DEF waVars, WaInv, WaTypes, Whole, Playout
<1>2. CASE WaNext
  BY <1>2, SpeaksStep, FlushesStep, InterruptsStep, PlayoutStep DEF WaNext
<1>. QED
  BY <1>1, <1>2

LEMMA SpeechIsWell == WaInv => SpeechSafe
<1> SUFFICES ASSUME WaInv PROVE SpeechSafe
  OBVIOUS
<1>1. WaTypes /\ Whole /\ Playout
  BY DEF WaInv
<1>2. /\ voiced \in Seq(Nat) /\ queued \in Seq(Nat)
      /\ ToSet(voiced) = {voiced[i] : i \in 1 .. Len(voiced)}
      /\ ToSet(queued) = {queued[k] : k \in 1 .. Len(queued)}
  BY <1>1 DEF WaTypes, ToSet
<1>3. WaTypeOK
  <2>1. \A k \in 1 .. Len(queued) : queued[k] \in 1 .. spoken
    BY <1>1 DEF Whole, Said
  <2>2. queued \in [1 .. Len(queued) -> 1 .. spoken] /\ Len(queued) \in Nat
    BY <1>2, <2>1, LenProperties
  <2>3. queued \in Seq(1 .. spoken)
    BY <2>2, SeqDef
  <2>. QED
    BY <1>1, <2>3 DEF WaTypes, Whole, WaTypeOK
<1>4. SpeechIsWhole
  <2>1. PICK all : all = voiced \o queued
    OBVIOUS
  <2>2. /\ Len(voiced) \in Nat /\ Len(queued) \in Nat /\ Len(all) = Len(voiced) + Len(queued)
        /\ \A i \in 1 .. Len(voiced) + Len(queued) :
              all[i] = IF i <= Len(voiced) THEN voiced[i] ELSE queued[i - Len(voiced)]
    BY <1>2, <2>1, ConcatProperties
  <2>3. \A i \in 1 .. Len(all) :
           \/ i \in 1 .. Len(voiced) /\ all[i] = voiced[i]
           \/ /\ i \notin 1 .. Len(voiced) /\ i - Len(voiced) \in 1 .. Len(queued)
              /\ all[i] = queued[i - Len(voiced)]
    BY <2>2
  <2>4. ASSUME NEW i \in 1 .. Len(all), NEW k \in 1 .. Len(all), i < k
        PROVE  all[i] < all[k]
    <3>1. CASE i \in 1 .. Len(voiced) /\ k \in 1 .. Len(voiced)
      BY <1>1, <2>3, <2>4, <3>1 DEF Whole, Ordered
    <3>2. CASE i \in 1 .. Len(voiced) /\ k \notin 1 .. Len(voiced)
      BY <1>1, <2>3, <3>2 DEF Whole, Behind
    <3>3. CASE i \notin 1 .. Len(voiced)
      <4>1. k \notin 1 .. Len(voiced) /\ i - Len(voiced) < k - Len(voiced)
        BY <2>2, <2>4, <3>3
      <4>. QED
        BY <1>1, <2>3, <3>3, <4>1 DEF Whole, Ordered
    <3>. QED
      BY <3>1, <3>2, <3>3
  <2>5. 1 .. spoken = ToSet(voiced) \cup ToSet(queued) \cup dropped
    <3>1. ToSet(voiced) \cup ToSet(queued) \cup dropped \subseteq 1 .. spoken
      BY <1>1, <1>2 DEF Whole, Said
    <3>2. 1 .. spoken \subseteq ToSet(voiced) \cup ToSet(queued) \cup dropped
      BY <1>1, <1>2 DEF Whole, In
    <3>. QED
      BY <3>1, <3>2
  <2>6. ToSet(voiced) \cap dropped = {}
    BY <1>1, <1>2 DEF Whole, Said
  <2>. QED
    BY <2>1, <2>4, <2>5, <2>6 DEF SpeechIsWhole
<1>5. PaddedAtTheEnd
  BY <1>1 DEF Playout, PaddedAtTheEnd
<1>6. PlayoutGoesOn
  <2>1. queued # <<>> => Len(queued) # 0
    BY <1>2, EmptySeq
  <2>. QED
    BY <1>1, <2>1 DEF Playout, PlayoutGoesOn
<1>. QED
  BY <1>3, <1>4, <1>5, <1>6 DEF SpeechSafe

\* What a voice agent says, for any sizes of chunks, frames and batches: every
\* byte is heard once and in order, waits behind what was heard, or was dropped
\* on purpose; silence is put in only where the agent stopped, unless it went on
\* before its flush was carried out; what can be played never waits untimed.
THEOREM SpeechIsSafe == WaSpec => []SpeechSafe
<1>1. WaInv /\ [WaNext]_waVars => WaInv'
  BY WaStepHolds
<1>. QED
  BY <1>1, WaInitHolds, SpeechIsWell, PTL DEF WaSpec

\* Both halves of a voice agent's transport keep their promises in every
\* interleaving of the daemon's attachment with the worker's playout.
THEOREM VoiceAgentIsSafe == VaSpec => []VoiceAgentSafe
<1>1. VaInit => WsInv /\ WaInv
  BY WsInitHolds, WaInitHolds DEF VaInit
<1>2. WsInv /\ WaInv /\ [VaNext]_vaVars => (WsInv /\ WaInv)'
  <2> SUFFICES ASSUME WsInv, WaInv, [VaNext]_vaVars PROVE WsInv' /\ WaInv'
    OBVIOUS
  <2>1. [WsNext]_wsVars /\ [WaNext]_waVars
    BY DEF VaNext, vaVars
  <2>. QED
    BY <2>1, WsStepHolds, WaStepHolds
<1>3. WsInv /\ WaInv => VoiceAgentSafe
  BY WsIsWell, SpeechIsWell DEF VoiceAgentSafe
<1>. QED
  BY <1>1, <1>2, <1>3, PTL DEF VaSpec
=============================================================================
