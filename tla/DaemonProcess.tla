--------------------------- MODULE DaemonProcess ---------------------------
(* The life of the daemon processes behind one socket path, as the client    *)
(* processes see it: ControllerClient connects, starts a daemon when nobody  *)
(* answers and polls for its socket; the daemon serves commands and trigger  *)
(* streams and stops when its last stream is gone and no task is left, or    *)
(* when a client tells it to.                                                *)
(*   control/controller-client.ts     connect, ensureDaemonStarted, spawn    *)
(*   daemon/controller-server.ts      start, stop, one request per socket    *)
(*   daemon/sip-pbx-daemon.ts         start, stop, idle shutdown             *)
(* Faults: a daemon crashes, a child is slow to listen or exits early.       *)
EXTENDS Integers, FiniteSets

CONSTANTS Procs,     \* client processes (n8n main, n8n workers)
          MaxDaemons \* daemon processes ever spawned

ASSUME ProcsAssumption == IsFiniteSet(Procs) /\ MaxDaemons \in Nat \ {0}

VARIABLES
    daemon,  \* by number: its phase, idle timer, open tasks, had: a stream was here or a leg ended
    path,    \* the daemon behind the socket file, 0 when there is no file
    client,  \* by process: where its call stands, with which daemon, a stream or a command
    dpFlaws  \* what happened that the code has no answer to

dpVars == <<daemon, path, client, dpFlaws>>

Daemons == 1..MaxDaemons
DpFlaws == {"slow", "crash", "idle", "split", "told"}

DpTypeOK ==
    /\ daemon \in [Daemons -> [st : {"none", "starting", "up", "stopping", "gone"},
                               timer : BOOLEAN, task : BOOLEAN, had : BOOLEAN]]
    /\ path \in {0} \cup Daemons
    /\ client \in [Procs -> [pc : {"idle", "connect", "polling", "sent", "serving", "streaming", "late", "failed"},
                             to : {0} \cup Daemons, stream : BOOLEAN]]
    /\ dpFlaws \subseteq DpFlaws

DpInit ==
    /\ daemon = [d \in Daemons |-> [st |-> "none", timer |-> FALSE, task |-> FALSE, had |-> FALSE]]
    /\ path = 0
    /\ client = [c \in Procs |-> [pc |-> "idle", to |-> 0, stream |-> FALSE]]
    /\ dpFlaws = {}

Listening(d) == d # 0 /\ daemon[d].st \in {"up", "stopping"}

\* The processes whose socket leads to a daemon.
ConnectedTo(d) == {c \in Procs : client[c].to = d /\ client[c].pc \in {"sent", "serving", "streaming", "late"}}

Streams(d) == {c \in Procs : client[c].to = d /\ client[c].pc \in {"streaming", "late"}}

SetPc(c, pc) == client' = [client EXCEPT ![c].pc = pc]

(* ------------------------------ the client ------------------------------- *)

\* call and openStream start with connect().
Begin(c, stream) ==
    /\ client[c].pc \in {"idle", "failed"}
    /\ client' = [client EXCEPT ![c] = [pc |-> "connect", to |-> 0, stream |-> stream]]
    /\ UNCHANGED <<daemon, path, dpFlaws>>

\* connectOnce succeeds: the request or the start frame is written.
Connects(c) ==
    /\ client[c].pc \in {"connect", "polling"}
    /\ Listening(path)
    /\ client' = [client EXCEPT ![c].pc = "sent", ![c].to = path]
    /\ UNCHANGED <<daemon, path, dpFlaws>>

\* ENOENT, or a file nobody listens behind: each process starts a daemon of its own.
Spawns(c) ==
    /\ client[c].pc = "connect"
    /\ ~Listening(path)
    /\ \E d \in Daemons :
          /\ daemon[d].st = "none"
          /\ \A e \in Daemons : daemon[e].st = "none" => d <= e
          /\ daemon' = [daemon EXCEPT ![d].st = "starting"]
    /\ SetPc(c, "polling")
    /\ UNCHANGED <<path, dpFlaws>>

\* The child exited, or the deadline of three seconds passed.
SpawnFails(c) ==
    /\ client[c].pc = "polling"
    /\ ~Listening(path)
    /\ SetPc(c, "failed")
    /\ dpFlaws' = dpFlaws \cup {"slow"}
    /\ UNCHANGED <<daemon, path>>

(* ------------------------------ the daemon ------------------------------- *)

\* start: the socket file is removed, whoever listens behind it.
Start(d) ==
    /\ daemon[d].st = "starting"
    /\ daemon' = [daemon EXCEPT ![d].st = "up"]
    /\ path' = d
    /\ dpFlaws' = IF Listening(path) THEN dpFlaws \cup {"split"} ELSE dpFlaws
    /\ UNCHANGED client

\* The child cannot listen and exits.
ChildExits(d) ==
    /\ daemon[d].st = "starting"
    /\ daemon' = [daemon EXCEPT ![d].st = "gone"]
    /\ UNCHANGED <<path, client, dpFlaws>>

\* registerTriggerStream clears the idle timer; a daemon that is stopping registers too (late).
Serve(c) ==
    LET d == client[c].to IN
    /\ client[c].pc = "sent"
    /\ IF client[c].stream
       THEN /\ SetPc(c, IF daemon[d].st = "up" THEN "streaming" ELSE "late")
            /\ daemon' = [daemon EXCEPT ![d].timer = FALSE, ![d].had = TRUE]
       ELSE SetPc(c, "serving") /\ UNCHANGED daemon
    /\ UNCHANGED <<path, dpFlaws>>

\* A command is answered; some leave a call or a dial behind, with a daemon that stops as well.
Answer(c) ==
    LET d == client[c].to IN
    /\ client[c].pc = "serving"
    /\ client' = [client EXCEPT ![c].pc = "idle", ![c].to = 0]
    /\ \/ UNCHANGED <<daemon, dpFlaws>>
       \/ /\ daemon' = [daemon EXCEPT ![d].task = TRUE]
          /\ dpFlaws' = IF daemon[d].st = "stopping" THEN dpFlaws \cup {"idle"} ELSE dpFlaws
    /\ UNCHANGED path

\* hasActiveTasks: streams, media, legs and dials; a command in flight is none of them.
HasActiveTasks(d) == Streams(d) # {} \/ daemon[d].task

\* stopDaemon is answered, and the daemon stops at once, whatever it does: its streams are closed.
\* One that stops already has nothing to add.
StopDaemon(c) ==
    LET d == client[c].to IN
    /\ client[c].pc = "serving" /\ daemon[d].st = "up"
    /\ daemon' = [daemon EXCEPT ![d].st = "stopping", ![d].timer = FALSE]
    /\ client' = [q \in Procs |-> IF q \in Streams(d) \cup {c}
                                  THEN [client[q] EXCEPT !.pc = IF q = c THEN "idle" ELSE "failed", !.to = 0]
                                  ELSE client[q]]
    /\ dpFlaws' = IF HasActiveTasks(d) THEN dpFlaws \cup {"told"} ELSE dpFlaws
    /\ UNCHANGED path

\* A leg, a dial or a medium ends, perhaps the last; the end of a leg arms the idle timer of a
\* daemon without streams.
TaskEnds(d) ==
    /\ daemon[d].task
    /\ \E left, ofLeg \in BOOLEAN :
          daemon' = [daemon EXCEPT ![d].task = left, ![d].had = @ \/ ofLeg,
                       ![d].timer = @ \/ (ofLeg /\ daemon[d].st = "up" /\ Streams(d) = {})]
    /\ UNCHANGED <<path, client, dpFlaws>>

\* removeTriggerStream: scheduleIdleShutdown looks at the streams that are left.
StreamEnds(c) ==
    LET d == client[c].to IN
    /\ client[c].pc \in {"streaming", "late"}
    /\ client' = [client EXCEPT ![c].pc = "idle", ![c].to = 0]
    /\ daemon' = [daemon EXCEPT ![d].timer =
                     @ \/ (daemon[d].st = "up" /\ Streams(d) = {c})]
    /\ UNCHANGED <<path, dpFlaws>>

StopsOverTasks(d) ==
    /\ daemon[d].timer /\ daemon[d].st = "up"
    /\ daemon' = [daemon EXCEPT ![d].timer = FALSE,
                                ![d].st = IF Streams(d) # {} THEN "up" ELSE "stopping"]
    /\ UNCHANGED <<path, client, dpFlaws>>

FiresOnce(d) ==
    /\ daemon[d].timer /\ daemon[d].st = "up"
    /\ daemon' = [daemon EXCEPT ![d].timer = FALSE,
                                ![d].st = IF HasActiveTasks(d) THEN "up" ELSE "stopping"]
    /\ UNCHANGED <<path, client, dpFlaws>>

\* The timer goes off: stop, look again in 250 ms, or leave it to the stream that came.
IdleFires(d) ==
    /\ daemon[d].timer /\ daemon[d].st = "up"
    /\ daemon' = [daemon EXCEPT ![d].timer = HasActiveTasks(d) /\ Streams(d) = {},
                                ![d].st = IF HasActiveTasks(d) THEN "up" ELSE "stopping"]
    /\ UNCHANGED <<path, client, dpFlaws>>

\* The server stops: every socket is destroyed and the file removed, whoever's it is.
StopServer(d) ==
    /\ daemon[d].st = "stopping"
    /\ daemon' = [daemon EXCEPT ![d] = [st |-> "gone", timer |-> FALSE, task |-> FALSE, had |-> @.had]]
    /\ path' = 0
    /\ client' = [c \in Procs |-> IF c \in ConnectedTo(d)
                                  THEN [client[c] EXCEPT !.pc = "failed", !.to = 0]
                                  ELSE client[c]]
    /\ dpFlaws' = dpFlaws \cup (IF ConnectedTo(d) # {} THEN {"idle"} ELSE {})
                          \cup (IF path \notin {0, d} THEN {"split"} ELSE {})

\* The process dies: the file stays, and connecting to it is refused.
Crash(d) ==
    /\ Listening(d)
    /\ daemon' = [daemon EXCEPT ![d] = [st |-> "gone", timer |-> FALSE, task |-> FALSE, had |-> @.had]]
    /\ client' = [c \in Procs |-> IF c \in ConnectedTo(d)
                                  THEN [client[c] EXCEPT !.pc = "failed", !.to = 0]
                                  ELSE client[c]]
    /\ dpFlaws' = dpFlaws \cup {"crash"}
    /\ UNCHANGED path

DpNext ==
    \/ \E c \in Procs :
          \/ \E stream \in BOOLEAN : Begin(c, stream)
          \/ Connects(c) \/ Spawns(c) \/ SpawnFails(c) \/ Serve(c) \/ Answer(c) \/ StopDaemon(c)
          \/ StreamEnds(c)
    \/ \E d \in Daemons : Start(d) \/ ChildExits(d) \/ TaskEnds(d) \/ IdleFires(d) \/ StopServer(d) \/ Crash(d)

DpSpec == DpInit /\ [][DpNext]_dpVars

(* ------------------------------ properties ------------------------------- *)

\* A process that has a trigger stream has it with the daemon every new call reaches: the daemon
\* does not go idle under a stream, and no two daemons share the calls of a workflow, unless one
\* crashed or two processes started one at the same time.  Being told to stop is no exception: the
\* streams go with the daemon.
StreamsReachThePath ==
    dpFlaws \cap {"crash", "split"} = {} =>
        \A c \in Procs : client[c].pc = "streaming" => path = client[c].to /\ daemon[path].st = "up"

\* A call or a stream fails only when a daemon was slow to start, crashed, was told to stop, or
\* stopped with the call in flight.
FailuresExplained ==
    dpFlaws = {} => \A c \in Procs : client[c].pc # "failed"

\* A daemon stops no call, dial or medium but those of a command that was in flight then, unless it
\* was told to.
TasksOutliveIdle ==
    dpFlaws \cap {"idle", "told"} = {} => \A d \in Daemons : daemon[d].st = "stopping" => ~daemon[d].task

\* A daemon the socket path has lost was replaced by a second one: nobody can stop or call it.
NoLostDaemon ==
    dpFlaws \cap {"split"} = {} => \A d \in Daemons : Listening(d) => path = d

DaemonSafe == DpTypeOK /\ StreamsReachThePath /\ FailuresExplained /\ TasksOutliveIdle /\ NoLostDaemon

\* A daemon that served a stream, or had a leg that ended, goes away: once idle it stops or is used
\* again.
IdleStops ==
    \A d \in Daemons :
        []<>(daemon[d].st = "up" /\ daemon[d].had => Streams(d) # {} \/ daemon[d].task)
=============================================================================
