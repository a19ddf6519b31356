----------------------------- MODULE MediaWorker -----------------------------
(* A media worker thread and the control plane that commands it              *)
(* (media/worker/media-worker.ts): commands are answered one at a time, in   *)
(* order; the sound of a recording is encoded between them, a chunk per turn *)
(* of the event loop; the pump of a playback decodes beside them; the thread *)
(* may die, or be told to shut down.  One leg, one recording, one playback.  *)
(*                                                                           *)
(* The callers are tasks of the daemon that await each command: the recorder *)
(* starts, stops and finalizes, the player registers and unregisters, the    *)
(* remover ends the leg once no command of it is under way.                  *)
EXTENDS Integers, Sequences, FiniteSets, SequencesExt

CONSTANTS MaxChunks     \* bound on the chunks the leg gives the recording

ASSUME WorkerAssumption == MaxChunks \in Nat

VARIABLES
    thread,     \* the worker: up, told to shut down, or dead
    inbox,      \* commands posted and not begun
    running,    \* the command that awaits the encoder
    request,    \* what each task awaits or was answered last
    step,       \* the commands each task has sent
    workerLeg,  \* the worker's leg: absent, there, or removed
    gives,      \* the leg gives chunks to the recording
    session,    \* the recording session
    given,      \* chunks given to it
    file,       \* what finalizeRecording was answered
    pump,       \* the playback pump and what it reported
    mwFlaws     \* what went wrong

mwVars == <<thread, inbox, running, request, step, workerLeg, gives, session, given, file, pump,
            mwFlaws>>

Scripts == [recorder |-> <<"start", "stop", "finalize">>,
            player   |-> <<"play", "unplay">>,
            remover  |-> <<"remove">>,
            stopper  |-> <<"shutdown">>]
Tasks == DOMAIN Scripts

\* pendingChunks, draining with its scheduled turn, closing; what the encoder
\* took, and whether it was aborted.
NoSession == [on |-> FALSE, pending |-> 0, drain |-> "idle", closing |-> FALSE,
              encoded |-> 0, aborted |-> FALSE]
NoPump == [state |-> "none", cancelled |-> FALSE, told |-> "nothing"]

MwInit ==
    /\ thread = "up" /\ inbox = <<>> /\ running = "none"
    /\ request = [t \in Tasks |-> "none"] /\ step = [t \in Tasks |-> 0]
    /\ workerLeg = "absent" /\ gives = FALSE
    /\ session = NoSession /\ given = 0 /\ file = "none"
    /\ pump = NoPump /\ mwFlaws = {}

Flawed(why, case) == mwFlaws' = mwFlaws \cup (IF case THEN {why} ELSE {})

-----------------------------------------------------------------------------
(* The control plane.                                                        *)

\* sendCommand: the request waits in the map of pending ones.  A thread that
\* is gone does not answer, and nobody rejects what is posted to it.
Post(t) ==
    /\ request[t] # "pending" /\ step[t] < Len(Scripts[t])
    /\ t = "remover" => workerLeg = "there" /\ \A u \in {"recorder", "player"} : request[u] # "pending"
    /\ (t \in {"recorder", "player"} /\ step[t] = 0) =>
            step["remover"] = 0 /\ step["stopper"] = 0
    /\ t = "stopper" => thread = "up"
    /\ step' = [step EXCEPT ![t] = @ + 1]
    /\ request' = [request EXCEPT ![t] = "pending"]
    /\ IF thread = "dead" THEN UNCHANGED inbox
       ELSE inbox' = Append(inbox, <<t, Scripts[t][step[t] + 1]>>)
    /\ Flawed("unanswered", thread = "dead")
    /\ UNCHANGED <<thread, running, workerLeg, gives, session, given, file, pump>>

\* The command on top of the chain, run when no other is.
Runs(op) ==
    /\ thread # "dead" /\ running = "none" /\ inbox # <<>> /\ Head(inbox)[2] = op
    /\ inbox' = Tail(inbox)

AnswerHead(how) == request' = [request EXCEPT ![Head(inbox)[1]] = how]

\* A plausible mistake: nothing pending is rejected.
DiesSilently ==
    /\ thread # "dead" /\ thread' = "dead"
    /\ inbox' = <<>> /\ running' = "none"
    /\ workerLeg' = "absent" /\ gives' = FALSE /\ session' = NoSession /\ pump' = NoPump
    /\ UNCHANGED <<request, step, given, file, mwFlaws>>

\* An error event of the thread, or its exit with a code: what is pending is
\* rejected, once.
Dies ==
    /\ thread # "dead" /\ thread' = "dead"
    /\ inbox' = <<>> /\ running' = "none"
    /\ request' = [t \in Tasks |-> IF request[t] = "pending" THEN "failed" ELSE request[t]]
    /\ workerLeg' = "absent" /\ gives' = FALSE /\ session' = NoSession /\ pump' = NoPump
    /\ UNCHANGED <<step, given, file, mwFlaws>>

\* The thread is terminated after its shutdown: that exit rejects nobody.
Terminates ==
    /\ thread = "stopping" /\ request["stopper"] # "pending" /\ thread' = "dead"
    /\ inbox' = <<>> /\ running' = "none"
    /\ workerLeg' = "absent" /\ gives' = FALSE /\ session' = NoSession /\ pump' = NoPump
    /\ Flawed("unanswered", \E t \in Tasks : request[t] = "pending")
    /\ UNCHANGED <<request, step, given, file>>

-----------------------------------------------------------------------------
(* Recording.                                                                *)

\* abortRecordingSession releases what is queued.
Aborted(s) == [NoSession EXCEPT !.drain = s.drain, !.encoded = s.encoded, !.aborted = TRUE]

\* StartRecording and ActivateGlobalRecording; a leg the worker does not know
\* is made first, which may fail.
StartRecording(ok) ==
    /\ Runs("start")
    /\ workerLeg' = IF ok \/ workerLeg = "there" THEN "there" ELSE workerLeg
    /\ IF ok THEN session' = [NoSession EXCEPT !.on = TRUE] /\ gives' = TRUE /\ AnswerHead("ok")
       ELSE UNCHANGED <<session, gives>> /\ AnswerHead("failed")
    /\ UNCHANGED <<thread, running, step, given, file, pump, mwFlaws>>

\* handleRecordingChunk.
Chunk(s) ==
    IF s.on /\ ~s.closing
    THEN [s EXCEPT !.pending = @ + 1, !.drain = IF @ = "idle" THEN "due" ELSE @]
    ELSE s

GivesChunk ==
    /\ gives /\ thread # "dead" /\ given < MaxChunks
    /\ given' = given + 1 /\ session' = Chunk(session)
    /\ UNCHANGED <<thread, inbox, running, request, step, workerLeg, gives, file, pump, mwFlaws>>

\* StopRecording, and DeactivateGlobalRecording with a last chunk from the
\* leg's queues.
EndRecording(tail) ==
    /\ Runs("stop") /\ AnswerHead("ok")
    /\ tail => gives /\ given < MaxChunks
    /\ given' = given + (IF tail THEN 1 ELSE 0)
    /\ session' = IF tail THEN Chunk(session) ELSE session
    /\ gives' = FALSE
    /\ UNCHANGED <<thread, running, step, workerLeg, file, pump, mwFlaws>>

\* scheduleRecordingDrain takes one chunk; of a closing session it drops all.
DrainTakes ==
    /\ thread # "dead" /\ session.drain = "due"
    /\ session' = IF session.closing \/ session.pending = 0
                  THEN [session EXCEPT !.pending = 0, !.drain = "idle"]
                  ELSE [session EXCEPT !.pending = @ - 1, !.drain = "writing"]
    /\ Flawed("tail", session.closing /\ session.pending > 0)
    /\ UNCHANGED <<thread, inbox, running, request, step, workerLeg, gives, given, file, pump>>

\* The chunk is encoded; the next is due on a turn of its own.
ChunkEncoded ==
    /\ thread # "dead" /\ session.drain = "writing"
    /\ session' = [session EXCEPT
            !.encoded = @ + (IF session.aborted THEN 0 ELSE 1),
            !.drain = IF session.on /\ ~session.closing /\ session.pending > 0 THEN "due"
                      ELSE "idle"]
    /\ UNCHANGED <<thread, inbox, running, request, step, workerLeg, gives, given, file, pump,
                   mwFlaws>>

\* It is not: the session is aborted, also under a finalize that waits for it.
ChunkFails ==
    /\ thread # "dead" /\ session.drain = "writing" /\ session.on
    /\ session' = [Aborted(session) EXCEPT !.drain = "idle"]
    /\ Flawed("broken", TRUE)
    /\ UNCHANGED <<thread, inbox, running, request, step, workerLeg, gives, given, file, pump>>

\* FinalizeRecording closes the session and awaits writeChain, the write that
\* is under way.  A session that is gone is answered as if it were written.
FinalizeBegins ==
    /\ Runs("finalize")
    /\ IF session.on
       THEN /\ session' = [session EXCEPT !.closing = TRUE] /\ running' = "finalize"
            /\ UNCHANGED <<request, file, mwFlaws>>
       ELSE /\ AnswerHead("ok") /\ file' = "hollow"
            /\ Flawed("hollow", given > 0)
            /\ UNCHANGED <<session, running>>
    /\ UNCHANGED <<thread, step, workerLeg, gives, given, pump>>

\* Then the encoder is finalized, without what is still queued, which nobody
\* releases.  One that was aborted meanwhile may fail.
FinalizeWaits == session.drain = "writing"

FinalizeEnds(ok) ==
    /\ running = "finalize" /\ ~FinalizeWaits /\ thread # "dead"
    /\ ~ok => session.aborted
    /\ running' = "none" /\ file' = IF ok THEN "written" ELSE "failed"
    /\ request' = [request EXCEPT !["recorder"] = IF ok THEN "ok" ELSE "failed"]
    /\ Flawed("tail", session.pending > 0)
    /\ session' = [session EXCEPT !.on = FALSE]
    /\ UNCHANGED <<thread, inbox, step, workerLeg, gives, given, pump>>

-----------------------------------------------------------------------------
(* Playback.                                                                 *)

\* RegisterPlayback makes the leg if need be and starts the pump, unwatched.
RegisterPlayback(ok) ==
    /\ Runs("play")
    /\ IF ok THEN /\ workerLeg' = "there" /\ AnswerHead("ok")
                  /\ pump' = [NoPump EXCEPT !.state = "waiting"]
       ELSE AnswerHead("failed") /\ UNCHANGED <<workerLeg, pump>>
    /\ UNCHANGED <<thread, running, step, gives, session, given, file, mwFlaws>>

Cancelled(p) == IF p.state = "none" THEN p ELSE [p EXCEPT !.cancelled = TRUE]

UnregisterPlayback ==
    /\ Runs("unplay") /\ AnswerHead("ok") /\ pump' = Cancelled(pump)
    /\ UNCHANGED <<thread, running, step, workerLeg, gives, session, given, file, mwFlaws>>

\* waitForPlaybackSourceStartReady: until the remote RTP port is known, the
\* pump is cancelled or the leg is gone.
PumpReady ==
    /\ thread # "dead" /\ pump.state = "waiting"
    /\ pump' = [pump EXCEPT !.state = IF pump.cancelled \/ workerLeg # "there" THEN "done"
                                      ELSE "decoding"]
    /\ UNCHANGED <<thread, inbox, running, request, step, workerLeg, gives, session, given, file,
                   mwFlaws>>

\* The source ends, or fails: with an error that is reported also when the
\* pump was cancelled, closing the source being a way to make it fail.
PumpEnds(how) ==
    /\ thread # "dead" /\ pump.state = "decoding"
    /\ pump' = [pump EXCEPT !.state = "done",
                    !.told = IF how = "error" THEN "failed"
                             ELSE IF pump.cancelled THEN "nothing" ELSE "finished"]
    /\ UNCHANGED <<thread, inbox, running, request, step, workerLeg, gives, session, given, file,
                   mwFlaws>>

-----------------------------------------------------------------------------
(* The end.                                                                  *)

\* A plausible mistake: the session stays.
CleanupKeepsSession ==
    /\ pump' = Cancelled(pump) /\ workerLeg' = "removed" /\ gives' = FALSE /\ UNCHANGED session

Cleanup ==
    /\ session' = IF session.on THEN Aborted(session) ELSE session
    /\ pump' = Cancelled(pump)
    /\ workerLeg' = "removed" /\ gives' = FALSE

RemoveEndpoint ==
    /\ Runs("remove") /\ AnswerHead("ok") /\ Cleanup
    /\ UNCHANGED <<thread, running, step, given, file, mwFlaws>>

Shutdown ==
    /\ Runs("shutdown") /\ AnswerHead("ok") /\ Cleanup /\ thread' = "stopping"
    /\ UNCHANGED <<running, step, given, file, mwFlaws>>

Works ==
    \/ \E ok \in BOOLEAN : StartRecording(ok) \/ RegisterPlayback(ok) \/ FinalizeEnds(ok)
    \/ \E tail \in BOOLEAN : EndRecording(tail)
    \/ FinalizeBegins \/ UnregisterPlayback \/ RemoveEndpoint \/ Shutdown
    \/ DrainTakes \/ ChunkEncoded

MwNext ==
    \/ \E t \in Tasks : Post(t)
    \/ Dies \/ Terminates
    \/ GivesChunk \/ ChunkFails
    \/ PumpReady \/ \E how \in {"end", "error"} : PumpEnds(how)
    \/ Works

-----------------------------------------------------------------------------
(* Properties.                                                               *)

\* The fields have their types.
MwTypeOK ==
    /\ thread \in {"up", "stopping", "dead"} /\ running \in {"none", "finalize"}
    /\ request \in [Tasks -> {"none", "pending", "ok", "failed"}]
    /\ session.pending \in 0..MaxChunks /\ session.drain \in {"idle", "due", "writing"}
    /\ file \in {"none", "written", "failed", "hollow"}

\* A recording that was answered as written holds every chunk the leg gave it,
\* unless an encoder broke, its end was cut, or its leg was removed before.
FileIsWhole ==
    file \in {"written", "hollow"} /\ thread # "dead" => session.encoded = given \/ mwFlaws \cap {"tail", "broken", "hollow"} # {}

\* What a session has queued it will encode: a turn is due or under way.
QueuedIsDrained == session.on /\ ~session.closing /\ session.pending > 0 => session.drain # "idle"

\* A pump that ran out by itself said so.
PumpReports ==
    pump.state = "done" /\ ~pump.cancelled => pump.told # "nothing" \/ workerLeg # "there"

\* A leg that was removed leaves no session and no running pump behind.
RemovedIsClean == workerLeg = "removed" => ~session.on /\ (pump.state \in {"none", "done"} \/ pump.cancelled)

MediaWorkerSafe ==
    MwTypeOK /\ FileIsWhole /\ QueuedIsDrained /\ PumpReports /\ RemovedIsClean

\* Every command is answered or rejected, unless it was posted to a thread
\* that was gone, or overtaken by the end of one that shut down.
EveryCommandIsAnswered ==
    \A t \in Tasks : []<>(request[t] # "pending" \/ "unanswered" \in mwFlaws)

MwSpec == MwInit /\ [][MwNext]_mwVars /\ WF_mwVars(Works)
=============================================================================
