--------------------------- MODULE TriggerStreams ---------------------------
(* A trigger's stream between n8n and the daemon: the runtime keeps one       *)
(* managed stream per trigger and opens it again when it breaks, the daemon   *)
(* keeps one stream per trigger and serves the trigger while it has one.      *)
(*   runtime/trigger-stream-registry.ts, runtime/pbx-runtime.ts               *)
(*   control/controller-client.ts (openStream), controller-trigger-stream.ts  *)
(*   daemon/sip-pbx-daemon.ts (registerTriggerStream, handleStreamStart)      *)
(*   nodes/SipPbxTrigger.node.ts: a failed activation closes every stream     *)
(* An activation is a run of a trigger node: the workflow's own, or a manual  *)
(* one while it is live.  Faults: the daemon dies or drops the sockets, n8n   *)
(* dies, opening a signalling endpoint fails.                                 *)
EXTENDS Integers, FiniteSets

CONSTANTS Acts,     \* activations, pairs <<trigger, n>> of one workflow's runtime
          MaxFaults \* daemon and n8n faults in a behaviour

ASSUME ActsAssumption == IsFiniteSet(Acts) /\ <<>> \notin Acts /\ MaxFaults \in Nat

VARIABLES
    act,      \* by activation: where the node stands, its managed stream, its connection
    managed,  \* registry of the runtime: by trigger, the activation whose stream is kept
    active,   \* daemon: by trigger, the activation whose stream is registered
    serving,  \* daemon: triggers whose signalling is active
    late,     \* daemon: triggers with an activation awaited whose stream is gone
    orphans,  \* history: triggers an activation without a stream has left served
    faults,
    tsFlaws   \* what happened that the code has no answer to

tsVars == <<act, managed, active, serving, late, orphans, faults, tsFlaws>>

None == <<>>
Triggers == {a[1] : a \in Acts}
TsFlaws == {"overwritten", "takenDown"}

TsTypeOK ==
    /\ act \in [Acts -> [pc : {"idle", "opening", "open", "failed", "closing", "closed"},
                         st : {"none", "live", "waiting", "reopening", "closed"},
                         conn : {"none", "sent", "starting", "ready", "up", "ending"}]]
    /\ managed \in [Triggers -> Acts \cup {None}]
    /\ active \in [Triggers -> Acts \cup {None}]
    /\ serving \subseteq Triggers
    /\ late \subseteq Triggers /\ orphans \subseteq Triggers
    /\ faults \in 0..MaxFaults
    /\ tsFlaws \subseteq TsFlaws

Blank == [pc |-> "idle", st |-> "none", conn |-> "none"]

TsInit ==
    /\ act = [a \in Acts |-> Blank]
    /\ managed = [k \in Triggers |-> None]
    /\ active = [k \in Triggers |-> None]
    /\ serving = {}
    /\ late = {} /\ orphans = {}
    /\ faults = 0
    /\ tsFlaws = {}

(* ----------------------------- the runtime ------------------------------- *)

\* ManagedTriggerStream.close: no more reconnecting; the socket ends, the daemon hears it later.
Closed(r) == [r EXCEPT !.st = "closed", !.conn = IF r.st = "live" THEN "ending" ELSE r.conn]

\* What a set of streams looks like closed.
ClosedAll(r, S) == [a \in Acts |-> IF a \in S THEN Closed(r[a]) ELSE r[a]]

Kept == {managed[k] : k \in Triggers} \ {None}

\* The opener rejects.  On the first open the node's activation fails, and every stream of the
\* runtime is closed with it; on a reconnect the next attempt follows.
RejectedForGood(r, a) ==
    /\ act' = [ClosedAll(r, IF r[a].pc = "opening" THEN Kept ELSE {}) EXCEPT
                 ![a].pc = IF @ = "opening" THEN "failed" ELSE @, ![a].conn = "none"]
    /\ managed' = IF r[a].pc = "opening" THEN [k \in Triggers |-> None] ELSE managed
    /\ UNCHANGED tsFlaws

Rejected(r, a) ==
    IF r[a].pc = "opening"
    THEN /\ act' = ClosedAll([r EXCEPT ![a].pc = "failed", ![a].conn = "none"], Kept)
         /\ managed' = [k \in Triggers |-> None]
         /\ tsFlaws' = IF \E b \in Kept : r[b].pc = "open" THEN tsFlaws \cup {"takenDown"} ELSE tsFlaws
    ELSE /\ act' = [r EXCEPT ![a].conn = "none", ![a].st = IF @ = "closed" THEN @ ELSE "waiting"]
         /\ UNCHANGED <<managed, tsFlaws>>

\* TriggerStreamRegistry.open: one managed stream per trigger, looked up before the await.
Open(a) ==
    /\ act[a].pc = "idle"
    /\ IF managed[a[1]] # None
       THEN Rejected([act EXCEPT ![a].pc = "opening"], a)
       ELSE /\ act' = [act EXCEPT ![a].pc = "opening", ![a].conn = "sent"]
            /\ UNCHANGED <<managed, tsFlaws>>
    /\ UNCHANGED <<active, serving, late, orphans, faults>>

\* The handshake arrives: open stores the managed stream, over another's if there is one.
Opened(a) ==
    /\ act[a].pc = "opening" /\ act[a].conn = "ready"
    /\ act' = [act EXCEPT ![a] = [@ EXCEPT !.pc = "open", !.st = "live", !.conn = "up"]]
    /\ managed' = [managed EXCEPT ![a[1]] = a]
    /\ tsFlaws' = IF managed[a[1]] # None THEN tsFlaws \cup {"overwritten"} ELSE tsFlaws
    /\ UNCHANGED <<active, serving, late, orphans, faults>>

\* runReconnect: after the delay the opener runs again.
Reopen(a) ==
    /\ act[a].st = "waiting"
    /\ act' = [act EXCEPT ![a].st = "reopening", ![a].conn = "sent"]
    /\ UNCHANGED <<managed, active, serving, late, orphans, faults, tsFlaws>>

AttachAnyway(a) ==
    /\ act[a].st \in {"reopening", "closed"} /\ act[a].conn = "ready"
    /\ act' = [act EXCEPT ![a].st = "live", ![a].conn = "up"]
    /\ UNCHANGED <<managed, active, serving, late, orphans, faults, tsFlaws>>

\* attach: a stream that comes after close is closed.
Attach(a) ==
    /\ act[a].st \in {"reopening", "closed"} /\ act[a].conn = "ready"
    /\ act' = [act EXCEPT ![a].st = IF @ = "closed" THEN "closed" ELSE "live",
                          ![a].conn = IF act[a].st = "closed" THEN "ending" ELSE "up"]
    /\ UNCHANGED <<managed, active, serving, late, orphans, faults, tsFlaws>>

\* closeFunction of the node: closeAndWait closes the stream kept under the trigger.
Close(a) ==
    LET b == managed[a[1]] IN
    /\ act[a].pc = "open"
    /\ managed' = [managed EXCEPT ![a[1]] = None]
    /\ act' = ClosedAll([act EXCEPT ![a].pc = "closing"], {b} \ {None})
    /\ UNCHANGED <<active, serving, late, orphans, faults, tsFlaws>>

CloseEnds(a) ==
    /\ act[a].pc = "closing" /\ act[a].conn # "ending"
    /\ act' = [act EXCEPT ![a].pc = "closed"]
    /\ UNCHANGED <<managed, active, serving, late, orphans, faults, tsFlaws>>

\* n8n runs the node again later.
Again(a) ==
    /\ act[a].pc \in {"closed", "failed"} /\ act[a].conn = "none"
    /\ act' = [act EXCEPT ![a] = Blank]
    /\ UNCHANGED <<managed, active, serving, late, orphans, faults, tsFlaws>>

(* ------------------------------ the daemon ------------------------------- *)

\* handleStreamStart: one stream per trigger; its signalling is activated before the answer.  A
\* host an orphaned trigger has on another endpoint is let go first.
Register(a) ==
    /\ act[a].conn = "sent"
    /\ IF active[a[1]] # None
       THEN Rejected(act, a) /\ UNCHANGED <<active, serving>>
       ELSE /\ act' = [act EXCEPT ![a].conn = "starting"]
            /\ active' = [active EXCEPT ![a[1]] = a]
            /\ serving' \in {serving, serving \ {a[1]}}
            /\ UNCHANGED <<managed, tsFlaws>>
    /\ UNCHANGED <<late, orphans, faults>>

\* The host of the trigger is there: calls are taken, while its REGISTER is yet to be sent.
HostMade(a) ==
    /\ act[a].conn = "starting" /\ a[1] \notin serving
    /\ serving' = serving \cup {a[1]}
    /\ UNCHANGED <<act, managed, active, late, orphans, faults, tsFlaws>>

\* activateTrigger is over: the close handlers are attached and the handshake is written.
Activated(a) ==
    /\ act[a].conn = "starting"
    /\ act' = [act EXCEPT ![a].conn = "ready"]
    /\ serving' = serving \cup {a[1]}
    /\ orphans' = orphans \ {a[1]}
    /\ UNCHANGED <<managed, active, late, faults, tsFlaws>>

\* The host is made for a stream that closed meanwhile: its handlers come too late, or the
\* activation throws, and the trigger is served with nobody to hear of its calls.
ActivatedLate(k) ==
    /\ k \in late
    /\ late' = late \ {k}
    /\ \/ serving' = serving \cup {k} /\ orphans' = orphans \cup {k}
       \/ UNCHANGED <<serving, orphans>>
    /\ UNCHANGED <<act, managed, active, faults, tsFlaws>>

\* activateTrigger throws: the error frame is written and the socket ended, before the close
\* handlers are attached.  If the host was made, it stays.
ActivationFails(a) ==
    /\ act[a].conn = "starting" /\ faults < MaxFaults
    /\ faults' = faults + 1
    /\ active' = [active EXCEPT ![a[1]] = None]
    /\ orphans' = orphans \cup (serving \cap {a[1]})
    /\ Rejected(act, a)
    /\ UNCHANGED <<serving, late>>

\* An event is written to a stream whose handshake is still to come: the client takes it for the
\* answer, finds no key in it, and gives the connection up.
EventComesFirst(a) ==
    /\ act[a].conn = "starting" /\ a[1] \in serving
    /\ active' = [active EXCEPT ![a[1]] = None]
    /\ late' = late \cup {a[1]}
    /\ orphans' = orphans \cup {a[1]}
    /\ Rejected(act, a)
    /\ UNCHANGED <<serving, faults>>

\* The daemon hears of the end: the stream leaves the index, and the trigger is deactivated
\* unless another stream of it is active.
StreamCloses(a) ==
    LET gone == IF active[a[1]] \in {a, None} THEN {a[1]} ELSE {} IN
    /\ act[a].conn = "ending"
    /\ active' = IF active[a[1]] = a THEN [active EXCEPT ![a[1]] = None] ELSE active
    /\ serving' = serving \ gone /\ orphans' = orphans \ gone
    /\ act' = [act EXCEPT ![a].conn = "none"]
    /\ UNCHANGED <<managed, late, faults, tsFlaws>>

\* The daemon stops or dies: every connection breaks.  An opening one rejects, which closes the
\* streams that are kept; otherwise an open stream waits to reconnect.
DaemonGone ==
    LET openers == {a \in Acts : act[a].pc = "opening"}
        broken == [a \in Acts |-> [act[a] EXCEPT !.conn = "none",
                     !.pc = IF a \in openers THEN "failed" ELSE @,
                     !.st = IF @ \in {"live", "reopening"} THEN "waiting" ELSE @]] IN
    /\ faults < MaxFaults
    /\ faults' = faults + 1
    /\ IF openers = {}
       THEN act' = broken /\ UNCHANGED <<managed, tsFlaws>>
       ELSE /\ act' = ClosedAll(broken, Kept)
            /\ managed' = [k \in Triggers |-> None]
            /\ tsFlaws' = IF \E b \in Kept : act[b].pc = "open" THEN tsFlaws \cup {"takenDown"} ELSE tsFlaws
    /\ active' = [k \in Triggers |-> None]
    /\ serving' = {} /\ late' = {} /\ orphans' = {}

\* n8n dies: the daemon hears the sockets close, but not for the activations it still awaits.
RuntimeGone ==
    LET heard == {a[1] : a \in {b \in Acts : act[b].conn \in {"ready", "up", "ending"}}}
        begun == {a[1] : a \in {b \in Acts : act[b].conn = "starting"}} IN
    /\ faults < MaxFaults
    /\ faults' = faults + 1
    /\ act' = [a \in Acts |-> Blank]
    /\ managed' = [k \in Triggers |-> None]
    /\ active' = [k \in Triggers |-> None]
    /\ serving' = serving \ heard
    /\ orphans' = (orphans \cup (serving \cap begun)) \ heard
    /\ late' = late \cup begun
    /\ UNCHANGED tsFlaws

TsNext ==
    \/ \E a \in Acts :
          \/ Open(a) \/ Opened(a) \/ Reopen(a) \/ Attach(a) \/ Close(a) \/ CloseEnds(a) \/ Again(a)
          \/ Register(a) \/ HostMade(a) \/ Activated(a) \/ ActivationFails(a) \/ EventComesFirst(a)
          \/ StreamCloses(a)
    \/ \E k \in Triggers : ActivatedLate(k)
    \/ DaemonGone \/ RuntimeGone

TsSpec == TsInit /\ [][TsNext]_tsVars

(* ------------------------------ properties ------------------------------- *)

\* A stream of the runtime that is live or reconnecting is the one kept under its trigger, so that
\* closing the trigger closes it: only an open that overwrote another's leaves one behind.
NoLeakedStream ==
    "overwritten" \notin tsFlaws =>
        \A a \in Acts : act[a].st \in {"live", "waiting", "reopening"} => managed[a[1]] = a

\* The daemon serves a trigger exactly as long as it has a stream for it: a call is never taken
\* for a trigger nobody listens to, except from an activation that failed or lost its stream after
\* the host was made until the trigger's next stream.
ServedForAStream == \A k \in serving : active[k] # None \/ k \in orphans

\* An established stream is the one the daemon publishes to, and its trigger is served.
LiveIsServed ==
    \A a \in Acts : act[a].conn \in {"ready", "up"} => active[a[1]] = a /\ a[1] \in serving

\* A live activation stays open until its own closeFunction: only a failed activation of the
\* workflow, a manual run of a live trigger among them, takes it down.
StaysOpen ==
    tsFlaws \cap {"takenDown", "overwritten"} = {} =>
        \A a \in Acts : act[a].pc = "open" => act[a].st # "closed"

StreamsSafe == TsTypeOK /\ NoLeakedStream /\ ServedForAStream /\ LiveIsServed /\ StaysOpen

\* A broken stream is open again once the faults are over, or the trigger is closed, unless at
\* every attempt an event comes before the handshake.
StreamReturns ==
    \A a \in Acts :
        \/ []<>(act[a].st \notin {"waiting", "reopening"} \/ "overwritten" \in tsFlaws)
        \/ []<><<EventComesFirst(a)>>_tsVars
=============================================================================
