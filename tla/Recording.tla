------------------------------ MODULE Recording ------------------------------
(***************************************************************************)
(* The recordings of one leg (src/daemon/media/media-service.ts): media    *)
(* recordings started by actions and the global recording of the call, the *)
(* sections they run under the lock of the leg, the move of the leg to     *)
(* another media worker, and the clean-up when the leg ends.               *)
(*                                                                         *)
(* The lock is one of LegLocks, for one leg: line is the holder followed   *)
(* by the waiters.  A start-up registers in recordingStartupByLegId, then  *)
(* locks the leg to ensure its endpoint, and sends its command to the      *)
(* worker after it released the lock.  A stop locks the leg and waits, in  *)
(* its section, for the start-up that is registered at that moment.        *)
(*                                                                         *)
(* A command has its effect on the worker when it is sent (a worker takes  *)
(* them in order) and its reply comes later.  Workers do not crash here;   *)
(* a bridge shows as a move of the leg, and any section that touches no    *)
(* recording as a move that is refused.                                    *)
(***************************************************************************)
EXTENDS Naturals, Sequences, FiniteSets

CONSTANTS Recordings, \* how many recordings are ever asked for
          Worker,     \* media workers
          None

Rec == 1 .. Recordings

ASSUME RecordingAssumption == Recordings \in Nat /\ None \notin Rec \cup Worker

VARIABLES
    leg,       \* "live", "ended" (still registered), "gone"
    kind,      \* "media" or "global", "none" until it is asked for
    op,        \* the MediaOperation, or the entry of globalCallRecordings
    start,     \* the start-up of a recording
    target,    \* the worker of a start-up that left its section
    startup,   \* recordingStartupByLegId: one slot for the leg
    stop,      \* the stop of a recording
    waitsFor,  \* the start-up a stop waits for in its section
    line,      \* the lock of the leg: its holder and its waiters
    migration, \* the section that moves the leg to another worker
    home,      \* legAssignments: the worker of the leg
    rec,       \* what each worker records of the leg
    snap,      \* what the home worker's last snapshot says it records
    overtaken, \* history: start-ups whose worker had dropped the endpoint
    clean,     \* the clean-up of the leg
    cleanFor   \* the start-up, then the recordings the clean-up waits for

vars == <<leg, kind, op, start, target, startup, stop, waitsFor, line,
          migration, home, rec, snap, overtaken, clean, cleanFor>>

worker == <<home, rec, snap, overtaken>>
cleaning == <<leg, clean, cleanFor>>

InFlight == {"registered", "queued", "ensuring", "ensured", "sent", "refused"}
Jobs == ({"start", "stop"} \X Rec) \cup {<<"migrate", None>>, <<"clean", None>>}

TypeOK ==
    /\ leg \in {"live", "ended", "gone"}
    /\ kind \in [Rec -> {"none", "media", "global"}]
    /\ op \in [Rec -> {"none", "active", "stopping", "finished", "failed"}]
    /\ start \in [Rec -> {"none", "done", "failed"} \cup InFlight]
    /\ target \in [Rec -> Worker \cup {None}]
    /\ startup \in {r \in Rec : start[r] \in InFlight} \cup {None}
    /\ stop \in [Rec -> {"none", "own", "stop", "stopping", "finalize", "finalizing",
                         "prune", "over"}]
    /\ waitsFor \in [Rec -> Rec \cup {None}]
    /\ line \in Seq(Jobs)
    /\ migration \in {"none", "queued", "moving"}
    /\ home \in Worker \cup {None}
    /\ rec \in [Worker -> SUBSET Rec]
    /\ snap \subseteq Rec /\ overtaken \subseteq Rec
    /\ clean \in {"none", "signalling", "stable", "bridge", "global", "listing",
                  "media", "remove", "over", "aborted"}
    /\ cleanFor \subseteq Rec

Init ==
    /\ leg = "live"
    /\ kind = [r \in Rec |-> "none"] /\ op = [r \in Rec |-> "none"]
    /\ start = [r \in Rec |-> "none"] /\ target = [r \in Rec |-> None]
    /\ startup = None
    /\ stop = [r \in Rec |-> "none"] /\ waitsFor = [r \in Rec |-> None]
    /\ line = <<>> /\ migration = "none"
    /\ home = None /\ rec = [w \in Worker |-> {}] /\ snap = {} /\ overtaken = {}
    /\ clean = "none" /\ cleanFor = {}

-----------------------------------------------------------------------------
Turn(job) == line # <<>> /\ Head(line) = job
Join(job) == line' = Append(line, job)
Leave == line' = Tail(line)

OfKind(k) == {r \in Rec : kind[r] = k}
Unfinished(k) == {r \in OfKind(k) : op[r] \in {"active", "stopping"}}

\* The worker's endpoint of the leg is removed, with what it records.
EndpointRemoved ==
    /\ home' = None /\ snap' = {} /\ UNCHANGED overtaken
    /\ rec' = [w \in Worker |-> IF w = home THEN {} ELSE rec[w]]

-----------------------------------------------------------------------------
(* Starting.                                                               *)

Asked(r, k) ==
    /\ leg # "gone" /\ kind[r] = "none"
    /\ \A q \in 1 .. (r - 1) : kind[q] # "none"
    /\ kind' = [kind EXCEPT ![r] = k]
    /\ op' = [op EXCEPT ![r] = "active"]
    /\ start' = [start EXCEPT ![r] = "registered"]
    /\ startup' = r
    /\ UNCHANGED <<target, stop, waitsFor, line, migration, worker, cleaning>>

\* recordAudio: what is recorded already is known from the last snapshot.
RecordAudio(r) ==
    /\ snap \cap OfKind("media") = {}
    /\ Asked(r, "media")

StartGlobal(r) ==
    /\ Unfinished("global") = {}
    /\ Asked(r, "global")

\* ensureWorkerForLeg is called once no migration is under way.  Start-ups
\* wait for it in the order they came: the latest is never first.
StartJoins(r) ==
    /\ start[r] = "registered" /\ migration # "moving"
    /\ startup = r => \A q \in Rec \ {r} : start[q] # "registered"
    /\ start' = [start EXCEPT ![r] = "queued"]
    /\ Join(<<"start", r>>)
    /\ UNCHANGED <<kind, op, target, startup, stop, waitsFor, migration, worker, cleaning>>

SlotFreed(r) == startup' = IF startup = r THEN None ELSE startup

\* The start-up is rejected; rest is the line it leaves.  A media recording
\* that nobody stops yet is rolled back, that is, stopped.  A global one is
\* forgotten, and so is a finalization that waits for its start-up.
StartFails(r, rest) ==
    /\ start' = [start EXCEPT ![r] = "failed"]
    /\ target' = [target EXCEPT ![r] = None]
    /\ SlotFreed(r)
    /\ \/ /\ kind[r] = "media" /\ op[r] = "active"
          /\ op' = [op EXCEPT ![r] = "stopping"]
          /\ stop' = [stop EXCEPT ![r] = "stop"]
          /\ line' = Append(rest, <<"stop", r>>)
       \/ /\ kind[r] = "media" /\ op[r] # "active"
          /\ line' = rest
          /\ UNCHANGED <<op, stop>>
       \/ /\ kind[r] = "global"
          /\ op' = [op EXCEPT ![r] = "failed"]
          /\ stop' = [stop EXCEPT ![r] = "over"]
          /\ line' = rest
    /\ UNCHANGED <<kind, waitsFor, migration, cleaning>>

EnsureBegins(r) ==
    /\ Turn(<<"start", r>>) /\ start[r] = "queued" /\ leg = "live"
    /\ start' = [start EXCEPT ![r] = "ensuring"]
    /\ UNCHANGED <<kind, op, target, startup, stop, waitsFor, line, migration, worker, cleaning>>

\* Mutant: the error leaves the section without releasing the lock.
EnsureRefusedKeepsLock(r) ==
    /\ Turn(<<"start", r>>) /\ start[r] = "queued" /\ leg # "live"
    /\ StartFails(r, line)
    /\ UNCHANGED worker

\* The leg ended, or left its registry, while the start-up was in line.
EnsureRefused(r) ==
    /\ Turn(<<"start", r>>) /\ start[r] = "queued" /\ leg # "live"
    /\ StartFails(r, Tail(line))
    /\ UNCHANGED worker

Ensured(r) ==
    /\ start[r] = "ensuring" /\ leg # "gone"
    /\ start' = [start EXCEPT ![r] = "ensured"]
    /\ \E w \in Worker :
          /\ home = None \/ w = home
          /\ home' = w
          /\ target' = [target EXCEPT ![r] = w]
    /\ Leave
    /\ UNCHANGED <<kind, op, startup, stop, waitsFor, migration, rec, snap, overtaken, cleaning>>

\* No transport, or the worker failed to make the endpoint; or it made it for
\* a leg that is no longer registered, and the details cannot be published.
EnsureFails(r) ==
    /\ start[r] = "ensuring"
    /\ home' \in {home} \cup IF leg = "gone" /\ home = None THEN Worker ELSE {}
    /\ StartFails(r, Tail(line))
    /\ UNCHANGED <<rec, snap, overtaken>>

\* The worker has one recording of each kind for a leg: the last one it was
\* told of.  If it has dropped the endpoint, it makes it again.
SendStart(r) ==
    /\ start[r] = "ensured"
    /\ start' = [start EXCEPT ![r] = "sent"]
    /\ rec' = [rec EXCEPT ![target[r]] = (@ \ OfKind(kind[r])) \cup {r}]
    /\ overtaken' = IF target[r] = home THEN overtaken ELSE overtaken \cup {r}
    /\ UNCHANGED <<kind, op, target, startup, stop, waitsFor, line, migration, home, snap, cleaning>>

\* The worker is going to answer with an error.
SendRefused(r) ==
    /\ start[r] = "ensured"
    /\ start' = [start EXCEPT ![r] = "refused"]
    /\ UNCHANGED <<kind, op, target, startup, stop, waitsFor, line, migration, worker, cleaning>>

StartRefused(r) ==
    /\ start[r] = "refused"
    /\ StartFails(r, line)
    /\ UNCHANGED worker

\* The reply holds what the worker recorded after the command.
Learned(r) ==
    snap' = IF target[r] = home
            THEN (snap \ OfKind(kind[r])) \cup (rec[home] \cap OfKind(kind[r]))
            ELSE snap

StartReplied(r) ==
    /\ start[r] = "sent" /\ leg # "gone"
    /\ start' = [start EXCEPT ![r] = "done"]
    /\ target' = [target EXCEPT ![r] = None]
    /\ SlotFreed(r)
    /\ Learned(r)
    /\ UNCHANGED <<kind, op, stop, waitsFor, line, migration, home, rec, overtaken, cleaning>>

\* publishSnapshot requires the leg.
ReplyTooLate(r) ==
    /\ start[r] = "sent" /\ leg = "gone"
    /\ Learned(r)
    /\ StartFails(r, line)
    /\ UNCHANGED <<home, rec, overtaken>>

-----------------------------------------------------------------------------
(* Stopping: stopRecording, finalizeRecording and pruneLegIfIdle, three    *)
(* sections one after the other.                                           *)

\* A global recording first waits for its own start-up, outside the lock.
StopBegins(r) ==
    /\ op[r] = "active"
    /\ op' = [op EXCEPT ![r] = "stopping"]
    /\ \/ /\ kind[r] = "media"
          /\ stop' = [stop EXCEPT ![r] = "stop"]
          /\ Join(<<"stop", r>>)
       \/ /\ kind[r] = "global"
          /\ stop' = [stop EXCEPT ![r] = "own"]
          /\ UNCHANGED line
    /\ UNCHANGED <<kind, start, target, startup, waitsFor, migration, worker, cleaning>>

Stop(r) == StopBegins(r)

OwnStarted(r) ==
    /\ stop[r] = "own" /\ start[r] = "done"
    /\ stop' = [stop EXCEPT ![r] = "stop"]
    /\ Join(<<"stop", r>>)
    /\ UNCHANGED <<kind, op, start, target, startup, waitsFor, migration, worker, cleaning>>

\* A section of a stop begins: from now on it waits for the start-up that is
\* registered, whichever recording that is of, and holds the lock meanwhile.
Section(r, from, to) ==
    /\ Turn(<<"stop", r>>) /\ stop[r] = from
    /\ stop' = [stop EXCEPT ![r] = to]

\* Mutant: a stop does not wait for a start-up.
EnterAtOnce(r) ==
    /\ \/ Section(r, "stop", "stopping")
       \/ Section(r, "finalize", "finalizing")
    /\ UNCHANGED <<kind, op, start, target, startup, waitsFor, line, migration, worker, cleaning>>

EnterStop(r) ==
    /\ \/ Section(r, "stop", "stopping")
       \/ Section(r, "finalize", "finalizing")
    /\ waitsFor' = [waitsFor EXCEPT ![r] = startup]
    /\ UNCHANGED <<kind, op, start, target, startup, line, migration, worker, cleaning>>

\* The start-up that a section waited for succeeded.
Waited(r) ==
    /\ waitsFor[r] # None => start[waitsFor[r]] = "done"
    /\ waitsFor' = [waitsFor EXCEPT ![r] = None]

\* publishSnapshot requires the leg.
StopRecording(r) ==
    /\ Waited(r)
    /\ rec' = IF home = None THEN rec ELSE [rec EXCEPT ![home] = @ \ {r}]
    /\ snap' = snap \ {r}
    /\ \/ /\ leg # "gone" \/ home = None
          /\ Section(r, "stopping", "finalize")
          /\ line' = Append(Tail(line), <<"stop", r>>)
          /\ UNCHANGED op
       \/ /\ leg = "gone" /\ home # None
          /\ Section(r, "stopping", "over")
          /\ Leave
          /\ op' = [op EXCEPT ![r] = "failed"]
    /\ UNCHANGED <<kind, start, target, startup, migration, home, overtaken, cleaning>>

\* The section is left, and removeIfIdle waits for its turn.
FinalizeRecording(r) ==
    /\ Waited(r)
    /\ Section(r, "finalizing", "prune")
    /\ line' = Append(Tail(line), <<"stop", r>>)
    /\ UNCHANGED <<kind, op, start, target, startup, migration, worker, cleaning>>

\* A failed start-up, of this recording or of another, rejects the stop that
\* waited for it.
StopRejected(r) ==
    /\ waitsFor[r] # None /\ start[waitsFor[r]] = "failed"
    /\ waitsFor' = [waitsFor EXCEPT ![r] = None]
    /\ Section(r, "stopping", "over") \/ Section(r, "finalizing", "over")
    /\ op' = [op EXCEPT ![r] = "failed"]
    /\ Leave
    /\ UNCHANGED <<kind, start, target, startup, migration, worker, cleaning>>

\* removeIfIdle: the endpoint of a leg that ended goes with its last medium.
\* A playback or a bridge may keep it; the media details need the leg.
Prune(r) ==
    /\ Section(r, "prune", "over")
    /\ \/ /\ leg # "live" /\ home # None /\ snap = {}
          /\ EndpointRemoved
          /\ op' = [op EXCEPT ![r] = IF leg = "gone" THEN "failed" ELSE "finished"]
       \/ /\ op' = [op EXCEPT ![r] = "finished"]
          /\ UNCHANGED worker
    /\ Leave
    /\ UNCHANGED <<kind, start, target, startup, waitsFor, migration, cleaning>>

-----------------------------------------------------------------------------
(* Moving the leg (migrateLeg).                                            *)

MigrateAsks ==
    /\ migration = "none" /\ leg # "gone"
    /\ migration' = "queued"
    /\ Join(<<"migrate", None>>)
    /\ UNCHANGED <<kind, op, start, target, startup, stop, waitsFor, worker, cleaning>>

\* What the leg records is known from the last snapshot.  A start-up woken by
\* the end of the last move has joined the line before the next one begins.
MigrateBegins ==
    /\ Turn(<<"migrate", None>>) /\ migration = "queued"
    /\ \A r \in Rec : start[r] # "registered"
    /\ \/ /\ leg = "live" /\ home # None /\ snap = {}
          /\ migration' = "moving"
          /\ UNCHANGED line
       \/ /\ migration' = "none"
          /\ Leave
    /\ UNCHANGED <<kind, op, start, target, startup, stop, waitsFor, worker, cleaning>>

\* A failed move leaves the leg where it was.
MigrateEnds ==
    /\ migration = "moving"
    /\ migration' = "none"
    /\ \/ /\ home' \in Worker \ {home}
          /\ rec' = [rec EXCEPT ![home] = {}] /\ snap' = {}
          /\ UNCHANGED overtaken
       \/ UNCHANGED worker
    /\ Leave
    /\ UNCHANGED <<kind, op, start, target, startup, stop, waitsFor, cleaning>>

-----------------------------------------------------------------------------
(* The end of the leg (handleLegEnded).                                    *)

Cleans(from, to) == clean = from /\ clean' = to

unmoved == <<kind, op, start, target, startup, stop, waitsFor, migration>>

LegEnds ==
    /\ leg = "live"
    /\ leg' = "ended"
    /\ Cleans("none", "signalling")
    /\ UNCHANGED <<unmoved, line, worker, cleanFor>>

\* waitUntilLegStable
CleanBegins ==
    /\ Cleans("signalling", "stable") /\ migration # "moving"
    /\ cleanFor' = {startup} \ {None}
    /\ UNCHANGED <<unmoved, line, worker, leg>>

\* beginBridgeTermination locks the leg.
CleanStable ==
    /\ Cleans("stable", "bridge")
    /\ \A r \in cleanFor : start[r] = "done"
    /\ Join(<<"clean", None>>)
    /\ UNCHANGED <<unmoved, worker, leg, cleanFor>>

\* A rejected start-up rejects the clean-up; the leg goes all the same.
CleanAborted ==
    /\ Cleans("stable", "aborted")
    /\ \E r \in cleanFor : start[r] = "failed"
    /\ leg' = "gone"
    /\ UNCHANGED <<unmoved, line, worker, cleanFor>>

CleanUnbridged ==
    /\ Turn(<<"clean", None>>) /\ Cleans("bridge", "global")
    /\ Leave
    /\ UNCHANGED <<unmoved, worker, leg, cleanFor>>

\* The clean-up stops the global recording, then the media recordings.
CleanStops(r) ==
    /\ \/ clean = "global" /\ kind[r] = "global"
       \/ clean = "media" /\ r \in cleanFor
    /\ StopBegins(r)

CleanGlobalOver ==
    /\ Unfinished("global") = {}
    /\ Cleans("global", "listing")
    /\ UNCHANGED <<unmoved, line, worker, leg, cleanFor>>

\* For up to a second it waits for a snapshot that shows a recording.
CleanLists ==
    /\ Cleans("listing", "media")
    /\ cleanFor' = Unfinished("media")
    /\ UNCHANGED <<unmoved, line, worker, leg>>

CleanRemoveJoins ==
    /\ Cleans("media", "remove")
    /\ cleanFor \cap Unfinished("media") = {}
    /\ Join(<<"clean", None>>)
    /\ UNCHANGED <<unmoved, worker, leg, cleanFor>>

\* removeLeg
CleanRemove ==
    /\ Turn(<<"clean", None>>) /\ Cleans("remove", "over")
    /\ EndpointRemoved
    /\ leg' = "gone" /\ cleanFor' = {}
    /\ Leave
    /\ UNCHANGED unmoved

-----------------------------------------------------------------------------
StartSteps(r) ==
    \/ StartJoins(r) \/ EnsureBegins(r) \/ EnsureRefused(r) \/ Ensured(r) \/ EnsureFails(r)
    \/ StartRefused(r) \/ StartReplied(r) \/ ReplyTooLate(r)

StopSteps(r) ==
    OwnStarted(r) \/ EnterStop(r) \/ StopRecording(r) \/ FinalizeRecording(r) \/ StopRejected(r)

MigrateSteps == MigrateBegins \/ MigrateEnds

CleanSteps ==
    \/ CleanBegins \/ CleanStable \/ CleanAborted \/ CleanUnbridged
    \/ (\E r \in Rec : CleanStops(r))
    \/ CleanGlobalOver \/ CleanLists \/ CleanRemoveJoins \/ CleanRemove

\* A start-up sends its command in the turn of the event loop in which it left
\* its section, before any other answer or request is heard.  One step may come
\* first: the lock passes on sooner than the promises of ensureWorkerForLeg
\* unwind, and removeIfIdle sends its command at once.
Next ==
    \/ \E r \in Rec : SendStart(r) \/ SendRefused(r) \/ Prune(r)
    \/ /\ \A r \in Rec : start[r] # "ensured"
       /\ \/ \E r \in Rec :
                RecordAudio(r) \/ StartGlobal(r) \/ StartSteps(r) \/ Stop(r) \/ StopSteps(r)
          \/ MigrateAsks \/ MigrateSteps \/ LegEnds \/ CleanSteps

\* What was asked for goes on: workers and transports answer, and timers and
\* promises fire.  Nobody has to ask for anything, or to hang up.
Fairness ==
    /\ \A r \in Rec :
          WF_vars(StartSteps(r)) /\ WF_vars(SendStart(r)) /\ WF_vars(StopSteps(r)) /\ WF_vars(Prune(r))
    /\ WF_vars(MigrateSteps) /\ WF_vars(CleanSteps)

Spec == Init /\ [][Next]_vars /\ Fairness

-----------------------------------------------------------------------------
(* Properties.                                                             *)

\* A recording that was reported as finished is recorded by no worker: its
\* file was closed.  One order of events escapes: the endpoint is removed in
\* front of the command of its start-up, and the worker makes it again.
FinishedIsSilent ==
    \A r \in Rec, w \in Worker : op[r] = "finished" /\ r \in rec[w] => r \in overtaken

\* Once the clean-up of a leg is over, no worker has an endpoint of it or
\* records it, whatever start-ups and stops were under way when it ended;
\* with the same exception.
EndedLegIsSilent ==
    clean = "over" => home = None /\ \A w \in Worker : rec[w] \subseteq overtaken

\* A stop holds the lock and waits for a start-up that waits for the lock.
Stuck ==
    \E r \in Rec :
       /\ Turn(<<"stop", r>>) /\ stop[r] \in {"stopping", "finalizing"}
       /\ waitsFor[r] # None
       /\ start[waitsFor[r]] \in {"registered", "queued"}

\* A stop returns, with the recording or with an error, except in the one
\* way of Stuck: no other interleaving of sections, moves, failures and the
\* end of the leg leaves the lock held or a step without a successor.
StopReturnsUnlessStuck ==
    \A r \in Rec : op[r] = "stopping" ~> op[r] \in {"finished", "failed"} \/ Stuck

\* A leg that ended leaves its registry, with the same exception.
LegLeavesUnlessStuck == leg = "ended" ~> leg = "gone" \/ Stuck

\* What the documentation promises of background media: "event-driven
\* orchestration where a later node stops or waits on the media explicitly"
\* (README.md:100), whatever else starts to be recorded meanwhile.
StopReturns ==
    \A r \in Rec : op[r] = "stopping" ~> op[r] \in {"finished", "failed"}

\* What was reported as finished, or belongs to a leg that is gone, is silent.
RecordingSafe == TypeOK /\ FinishedIsSilent /\ EndedLegIsSilent

\* Stops return and ended legs leave, except in the one way of Stuck.
EndsUnlessStuck == StopReturnsUnlessStuck /\ LegLeavesUnlessStuck
=============================================================================
