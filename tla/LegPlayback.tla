----------------------------- MODULE LegPlayback -----------------------------
(* The playback loop of a leg in the media worker (entities/leg.ts) and its  *)
(* mixer (entities/mixer.ts): every 20 ms a frame is mixed of the playbacks  *)
(* that ducking leaves audible and of the sound of the bridged leg, sent,    *)
(* and only then accounted for.  What is registered during the send is seen  *)
(* by a loop that may be about to stop.                                      *)
(*                                                                           *)
(* A unit of sound is half a frame for the bridge, and a frame for a         *)
(* playback.                                                                 *)
EXTENDS Integers, Sequences

CONSTANTS
    Plays,      \* media of this leg, in the order they start
    MaxBridged  \* bound on the frames of the bridged leg

ASSUME PlaybackAssumption == Plays \subseteq Nat /\ MaxBridged \in Nat

VARIABLES
    playbacks,  \* the registrations, by medium
    sources,    \* the mixer's sources
    bridged,    \* pendingBridgePlayback
    promises,   \* what sendBridgePcm promised for each of its frames
    looping,    \* playbackTicker is active
    job,        \* the callback of the ticker that awaits its send
    ended,      \* the media onPlaybackFinished was told of
    lpClosed,   \* close() ran
    lpFlaws     \* ways the loop stopped beside sound to play

lpVars == <<playbacks, sources, bridged, promises, looping, job, ended, lpClosed, lpFlaws>>

Nobody == [state |-> "new", prio |-> 0, duck |-> 1]
Gone == [Nobody EXCEPT !.state = "gone"]
NoSource == [kind |-> "none", left |-> 0, finished |-> FALSE, emitted |-> FALSE]
NoJob == [on |-> FALSE, snap |-> {}, touched |-> {}, consumed |-> {}]

LpInit ==
    /\ playbacks = [m \in Plays |-> Nobody]
    /\ sources = [m \in Plays |-> NoSource]
    /\ bridged = <<>> /\ promises = <<>>
    /\ looping = FALSE /\ job = NoJob
    /\ ended = {} /\ lpClosed = FALSE /\ lpFlaws = {}

-----------------------------------------------------------------------------
(* What a frame is mixed of.                                                 *)

Registered == {m \in Plays : playbacks[m].state = "on"}

\* getPlaybackRenderSnapshot: by priority, the later first.
Louder(m, n) ==
    \/ playbacks[m].prio > playbacks[n].prio
    \/ playbacks[m].prio = playbacks[n].prio /\ m > n

\* buildRawPlaybackGains with the factors 0 (mute) and 1: a playback is heard
\* unless a louder one mutes what is below it.
Audible(m) ==
    m \in Registered /\ \A n \in Registered \ {m} : Louder(n, m) => playbacks[n].duck = 1

\* mixFrame takes a frame of every audible source that has one.
Rendered == {m \in Plays : Audible(m) /\ sources[m].left > 0}
AfterMix == [m \in Plays |-> IF m \in Rendered THEN [sources[m] EXCEPT !.left = @ - 1]
                             ELSE sources[m]]

\* takePendingBridgePlaybackFrame and mixPendingBridgePlaybackIntoPlaybackFrame
\* take a frame's worth, two units, of two frames when the first is short.
UnitTaken(q) ==
    IF q = <<>> THEN q
    ELSE IF q[1].left = 1 THEN Tail(q) ELSE [q EXCEPT ![1].left = @ - 1]
AfterTake == UnitTaken(UnitTaken(bridged))

\* The frames that gave a unit, as they were before it.
Givers == {q[1] : q \in {bridged, UnitTaken(bridged)} \ {<<>>}}
Touched == {f.id : f \in Givers}
Exhausted == {f \in Givers : f.left = 1}

\* hasRemainingAudio of the playbacks in a snapshot.
Remaining(s, src) ==
    \E m \in s : src[m].kind # "none" /\ (src[m].left > 0 \/ ~src[m].finished)

\* takeFinishedSources: each is reported once.
Finished(s, src) ==
    {m \in s : src[m].kind # "none" /\ src[m].finished /\ src[m].left = 0 /\ ~src[m].emitted}

Reported(s, src) ==
    /\ ended' = ended \cup Finished(s, src)
    /\ sources' = [m \in Plays |-> IF m \in Finished(s, src)
                                   THEN [src[m] EXCEPT !.emitted = TRUE] ELSE src[m]]

-----------------------------------------------------------------------------
(* Commands and sound that arrive.                                           *)

\* ensurePlaybackLoop.
Ensured == looping' = TRUE

Register(m, kind, prio, duck) ==
    /\ ~lpClosed /\ playbacks[m].state = "new"
    /\ playbacks' = [playbacks EXCEPT ![m] = [state |-> "on", prio |-> prio, duck |-> duck]]
    /\ IF kind = "tone"
       THEN /\ sources' = [sources EXCEPT
                    ![m] = [kind |-> "tone", left |-> 1, finished |-> TRUE, emitted |-> FALSE]]
            /\ Ensured
       ELSE UNCHANGED <<sources, looping>>
    /\ UNCHANGED <<bridged, promises, job, ended, lpClosed, lpFlaws>>

\* A stream's next chunk, and its end; a tone has none.
IsStream(m) == sources[m].kind # "tone" /\ ~sources[m].finished

AppendChunk(m) ==
    /\ m \in Registered /\ IsStream(m) /\ sources[m].left < 2
    /\ sources' = [sources EXCEPT ![m].kind = "buffered", ![m].left = @ + 1]
    /\ Ensured
    /\ UNCHANGED <<playbacks, bridged, promises, job, ended, lpClosed, lpFlaws>>

FinishPlayback(m) ==
    /\ m \in Registered /\ sources[m].kind = "buffered" /\ IsStream(m)
    /\ sources' = [sources EXCEPT ![m].finished = TRUE]
    /\ Ensured
    /\ UNCHANGED <<playbacks, bridged, promises, job, ended, lpClosed, lpFlaws>>

Unregister(m) ==
    /\ m \in Registered
    /\ playbacks' = [playbacks EXCEPT ![m] = Gone]
    /\ sources' = [sources EXCEPT ![m] = NoSource]
    /\ UNCHANGED <<bridged, promises, looping, job, ended, lpClosed, lpFlaws>>

\* sendBridgePcm copies the frame and promises how it went.
SendBridgePcm(n) ==
    /\ ~lpClosed /\ Len(promises) < MaxBridged
    /\ bridged' = Append(bridged, [id |-> Len(promises) + 1, left |-> n, ok |-> TRUE])
    /\ promises' = Append(promises, "open")
    /\ Ensured
    /\ UNCHANGED <<playbacks, sources, job, ended, lpClosed, lpFlaws>>

-----------------------------------------------------------------------------
(* The loop.                                                                 *)

\* The callback goes on for the sound of its own snapshot.  Sound that came
\* during its send started no ticker, this one being active.
SoundOf(reg, src) ==
    \E m \in Plays : reg[m].state = "on" /\ src[m].kind # "none"
                     /\ (src[m].left > 0 \/ (src[m].finished /\ ~src[m].emitted))

Continues(s) ==
    LET on == bridged' # <<>> \/ Remaining(s, sources')
    IN  /\ looping' = (looping /\ on /\ ~lpClosed)
        /\ lpFlaws' = lpFlaws \cup (IF ~on /\ ~lpClosed /\ SoundOf(playbacks, sources')
                                    THEN {"overlooked"} ELSE {})

TickStarts ==
    /\ looping /\ ~job.on
    /\ bridged' = AfterTake
    /\ IF Rendered # {} \/ Touched # {}
       THEN /\ job' = [on |-> TRUE, snap |-> Registered, touched |-> Touched,
                       consumed |-> Exhausted]
            /\ sources' = AfterMix
            /\ UNCHANGED <<looping, ended, lpFlaws>>
       ELSE Reported(Registered, AfterMix) /\ Continues(Registered) /\ UNCHANGED job
    /\ UNCHANGED <<playbacks, promises, lpClosed>>

\* finalizeBridgeRenderFrame: a frame that was touched remembers a failure;
\* those used up have their promise kept.
Finalized(ok) ==
    /\ bridged' = [i \in DOMAIN bridged |->
            IF bridged[i].id \in job.touched THEN [bridged[i] EXCEPT !.ok = @ /\ ok]
            ELSE bridged[i]]
    /\ promises' = [i \in DOMAIN promises |->
            IF \E f \in job.consumed : f.id = i
            THEN (IF ok /\ (CHOOSE f \in job.consumed : f.id = i).ok THEN "sent" ELSE "failed")
            ELSE promises[i]]
    /\ job' = NoJob

TickEnds(ok) ==
    /\ job.on /\ Finalized(ok)
    /\ Reported(job.snap, sources)
    /\ Continues(job.snap)
    /\ UNCHANGED <<playbacks, lpClosed>>

\* The transport throws: the ticker logs it and stops, whatever is queued.
TickThrows ==
    /\ job.on /\ Finalized(FALSE)
    /\ looping' = FALSE
    /\ lpFlaws' = lpFlaws \cup (IF lpClosed THEN {} ELSE {"threw"})
    /\ UNCHANGED <<playbacks, sources, ended, lpClosed>>

\* A plausible mistake: the queue is emptied and no promise settled.
CloseKeepsQueue ==
    /\ ~lpClosed /\ lpClosed' = TRUE /\ looping' = FALSE
    /\ bridged' = <<>>
    /\ playbacks' = [m \in Plays |-> Gone]
    /\ sources' = [m \in Plays |-> NoSource]
    /\ UNCHANGED <<promises, job, ended, lpFlaws>>

Closes ==
    /\ ~lpClosed /\ lpClosed' = TRUE /\ looping' = FALSE
    /\ promises' = [i \in DOMAIN promises |->
            IF \E k \in DOMAIN bridged : bridged[k].id = i THEN "failed" ELSE promises[i]]
    /\ bridged' = <<>>
    /\ playbacks' = [m \in Plays |-> Gone]
    /\ sources' = [m \in Plays |-> NoSource]
    /\ UNCHANGED <<job, ended, lpFlaws>>

LpNext ==
    \/ \E m \in Plays :
         \/ \E kind \in {"tone", "stream"}, prio \in {0, 1}, duck \in {0, 1} :
                Register(m, kind, prio, duck)
         \/ AppendChunk(m) \/ FinishPlayback(m) \/ Unregister(m)
    \/ \E n \in {1, 3} : SendBridgePcm(n)
    \/ TickStarts \/ \E ok \in BOOLEAN : TickEnds(ok)
    \/ TickThrows \/ Closes

-----------------------------------------------------------------------------
(* Properties.                                                               *)

\* The fields have their types.
LpTypeOK ==
    /\ playbacks \in [Plays -> [state : {"new", "on", "gone"}, prio : {0, 1}, duck : {0, 1}]]
    /\ \A m \in Plays : sources[m].left \in 0..2
    /\ \A i \in DOMAIN bridged : bridged[i].left > 0
    /\ ended \subseteq Plays /\ looping \in BOOLEAN

\* A promise is open exactly while its frame is queued or being sent: none is
\* forgotten, none is kept twice.
PromisesAreHeld ==
    \A i \in DOMAIN promises :
        promises[i] = "open" <=>
            \/ \E k \in DOMAIN bridged : bridged[k].id = i
            \/ \E f \in job.consumed : f.id = i

\* Where there is sound to send, or the end of a playback to report, the loop
\* runs: unless it stopped on a snapshot older than the sound, or on an error.
SoundIsPlayed ==
    (SoundOf(playbacks, sources) \/ bridged # <<>>) => looping \/ lpFlaws # {}

\* A medium is reported finished only when all its sound was taken.
EndIsTheEnd == \A m \in ended \cap Registered : sources[m].left = 0 /\ sources[m].finished

PlaybackSafe == LpTypeOK /\ PromisesAreHeld /\ SoundIsPlayed /\ EndIsTheEnd
=============================================================================
