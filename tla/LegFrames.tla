------------------------------ MODULE LegFrames ------------------------------
(* The audio of one leg in the media worker (media/worker/entities/leg.ts):  *)
(* an inbound frame is shared by the pre-roll ring, the recording of a       *)
(* media.record and the capture loop, which hands it to the recording of the *)
(* call.  The buffers come from a pool that counts their owners.             *)
(*                                                                           *)
(* A sample is a unit: a frame holds one or two, a recorded frame two.  A    *)
(* frame is [buf, n, cut, rel, own]: its buffer, the samples left, whether   *)
(* some were taken, whether its holder releases it (releasePool is set) and  *)
(* whether the buffer is the leg's (a WebSocket's frames come from a pool of *)
(* its transport that counts nothing, so they are copied, never shared).     *)
EXTENDS Integers, Sequences, FiniteSets, SequencesExt, Folds

CONSTANTS
    Bufs,       \* the buffers; a leg that needs more waits (bound)
    MaxIn,      \* bound on the inbound frames
    MaxOut,     \* bound on the outbound frames
    MaxOrders   \* bound on the recording commands

ASSUME FramesAssumption == Bufs \subseteq Nat \ {0} /\ {MaxIn, MaxOut, MaxOrders} \subseteq Nat

VARIABLES
    webSocket,  \* the leg's transport is a WebSocket
    split,      \* the call is recorded with a channel per side
    refs,       \* recordingFramePool.refCounts, 0 for a buffer that is free
    leaked,     \* buffers with an owner that will not release them
    ring,       \* recordingPreRollInbound
    pending,    \* pendingInboundAudio
    hand,       \* the frame the capture loop works on
    queues,     \* pendingRecordingInbound and pendingRecordingOutbound
    counts,     \* pendingRecordingInboundSamples and ...OutboundSamples
    encoder,    \* the frames handed to the recordings' encoders
    media,      \* mediaRecording and what its recorder was given
    call,       \* globalRecording
    ticking,    \* recordingTicker is active
    closed,     \* close() ran
    came,       \* the frames that came in and went out
    orders,     \* the commands that started or resumed a recording
    unwatched   \* a stopped call recording took the ticker of a silence watch

lfVars == <<webSocket, split, refs, leaked, ring, pending, hand, queues, counts,
            encoder, media, call, ticking, closed, came, orders, unwatched>>

Roles == {"inbound", "outbound"}
RingSize == 2
Target == 2

NoMedia == [on |-> FALSE, watch |-> FALSE, last |-> 0, gap |-> FALSE]

LfInit ==
    /\ webSocket \in BOOLEAN /\ split \in BOOLEAN
    /\ refs = [b \in Bufs |-> 0] /\ leaked = {}
    /\ ring = <<>> /\ pending = <<>> /\ hand = <<>>
    /\ queues = [r \in Roles |-> <<>>] /\ counts = [r \in Roles |-> 0]
    /\ encoder = <<>> /\ media = NoMedia
    /\ call = [state |-> "off", watch |-> FALSE]
    /\ ticking = FALSE /\ closed = FALSE
    /\ came = [r \in Roles |-> 0] /\ orders = 0 /\ unwatched = FALSE

-----------------------------------------------------------------------------
(* The pool.                                                                 *)

FreeBufs(p) == {b \in Bufs : p[b] = 0}
Acquire(p) == CHOOSE b \in FreeBufs(p) : \A c \in FreeBufs(p) : b <= c
Acquired(p) == [p EXCEPT ![Acquire(p)] = 1]

\* A stale buffer is left alone, by both.
Retain(p, b) == IF p[b] = 0 THEN p ELSE [p EXCEPT ![b] = @ + 1]
ReleaseBuf(p, b) == IF p[b] = 0 THEN p ELSE [p EXCEPT ![b] = @ - 1]

Release(p, f) == IF f.rel THEN ReleaseBuf(p, f.buf) ELSE p
ReleaseAll(p, fs) == FoldLeft(Release, p, fs)

\* copyRecordingFrame: a buffer of the leg's, without what was taken already.
Copied(p, f) ==
    <<Acquired(p), [f EXCEPT !.buf = Acquire(p), !.cut = FALSE, !.rel = TRUE, !.own = TRUE]>>

\* shareRecordingFrame: one more owner where the buffer is the leg's.
Shared(p, f) ==
    IF f.own /\ f.rel THEN <<Retain(p, f.buf), f>> ELSE Copied(p, f)

\* A plausible mistake: releasePool stays set.
TransferKeepsPool(f) == f

\* transferRecordingFrame: the frame itself, its holder told not to release
\* it.  The reference it held is nobody's from here on.
Transferred(f) == [f EXCEPT !.rel = FALSE]

-----------------------------------------------------------------------------
(* Sound that comes in.                                                      *)

\* RecordingFrameRing.push and trim; another sample rate clears the ring.
RingAfter(f) ==
    LET kept == IF ring # <<>> /\ Last(ring).rate # f.rate THEN <<>> ELSE ring
        all == Append(kept, f)
    IN  SubSeq(all, IF Len(all) > RingSize THEN 2 ELSE 1, Len(all))

RingDrops(f) ==
    IF ring # <<>> /\ Last(ring).rate # f.rate THEN ring
    ELSE IF Len(ring) = RingSize THEN <<Head(ring)>> ELSE <<>>

\* emitRetainedRecordingFrame hands the recorder of media.record a share.
Given(m, f) == [m EXCEPT !.last = f.no, !.gap = @ \/ (m.last # 0 /\ f.no # m.last + 1)]

\* A tick of the silence watch, or a frame of silence: it interrupts once.
Silence(quiet) == media' = [media EXCEPT !.watch = @ /\ ~quiet]

\* handleTransportEvent with audio.
Inbound(n, rate, quiet) ==
    LET no == came["inbound"] + 1
        b == Acquire(refs)
        f == [buf |-> b, n |-> n, cut |-> FALSE, rel |-> TRUE, own |-> ~webSocket,
              rate |-> rate, no |-> no]
        kept == Shared(Acquired(refs), f)
        given == Shared(kept[1], f)
        after == IF media.on THEN given[1] ELSE kept[1]
    IN  /\ ~closed /\ no <= MaxIn /\ Cardinality(FreeBufs(refs)) >= 3
        /\ refs' = ReleaseAll(after, RingDrops(kept[2]))
        /\ ring' = RingAfter(kept[2])
        /\ pending' = Append(pending, f)
        /\ came' = [came EXCEPT !["inbound"] = no]
        /\ IF media.on
           THEN /\ encoder' = Append(encoder, given[2])
                /\ media' = [Given(media, f) EXCEPT !.watch = @ /\ ~quiet]
           ELSE UNCHANGED <<encoder, media>>
        /\ UNCHANGED <<orders, webSocket, split, leaked, hand, queues, counts, call, ticking,
                       closed, unwatched>>

\* The capture loop takes a frame, gives it to the bridge, and awaits.
CaptureTakes ==
    /\ ~closed /\ hand = <<>> /\ pending # <<>>
    /\ hand' = <<Head(pending)>> /\ pending' = Tail(pending)
    /\ UNCHANGED <<orders, webSocket, split, refs, leaked, ring, queues, counts, encoder, media,
                   call, ticking, closed, came, unwatched>>

\* normalizeGlobalRecordingFrame: at the recording's rate a frame that has a
\* pool is transferred; any other is copied, one of another rate converted.
Normalized(p, f) ==
    IF f.rate = 1 /\ f.rel /\ ~f.cut THEN <<p, Transferred(f)>> ELSE Copied(p, f)

\* enqueueRecordingFrame.
Enqueued(role, f) ==
    /\ queues' = [queues EXCEPT ![role] = Append(@, f)]
    /\ counts' = [counts EXCEPT ![role] = @ + f.n]
    /\ ticking' = TRUE

\* After the await: the recording of the call takes the frame, and the loop
\* releases what it still owns.
CaptureRecords ==
    LET f == hand[1]
        took == Normalized(refs, f)
        left == IF took[2].buf = f.buf THEN took[2] ELSE f
    IN  /\ hand # <<>> /\ hand' = <<>>
        /\ IF call.state = "on"
           THEN /\ FreeBufs(refs) # {}
                /\ Enqueued("inbound", took[2])
                /\ refs' = Release(took[1], left)
                /\ leaked' = leaked \cup (IF left.rel THEN {} ELSE {f.buf})
           ELSE /\ refs' = Release(refs, f)
                /\ UNCHANGED <<queues, counts, ticking, leaked>>
        /\ UNCHANGED <<orders, webSocket, split, ring, pending, encoder, media, call, closed,
                       came, unwatched>>

\* The playback loop sends a frame: the recording of the call copies it out of
\* the loop's scratch buffer.
Outbound(n) ==
    LET f == [buf |-> 0, n |-> n, cut |-> FALSE, rel |-> FALSE, own |-> FALSE, rate |-> 1,
              no |-> 0]
        took == Normalized(refs, f)
    IN  /\ ~closed /\ call.state = "on"
        /\ came["outbound"] < MaxOut /\ FreeBufs(refs) # {}
        /\ came' = [came EXCEPT !["outbound"] = @ + 1]
        /\ refs' = took[1]
        /\ Enqueued("outbound", took[2])
        /\ UNCHANGED <<orders, webSocket, split, leaked, ring, pending, hand, encoder, media, call,
                       closed, unwatched>>

-----------------------------------------------------------------------------
(* The recording of the call, a frame per tick.  The operators work on a     *)
(* record s of the fields refs, queues, counts and encoder.                  *)

Here == [refs |-> refs, queues |-> queues, counts |-> counts, encoder |-> encoder]

Samples(q) == FoldLeft(LAMBDA total, f : total + f.n, 0, q)

\* The frames of q that k samples use up, and what is left of the rest.
UsedUp(q, k) == Cardinality({i \in DOMAIN q : Samples(SubSeq(q, 1, i)) <= k})
Rest(q, k) ==
    LET u == UsedUp(q, k)
        r == SubSeq(q, u + 1, Len(q))
        over == k - Samples(SubSeq(q, 1, u))
    IN  IF r = <<>> \/ over = 0 THEN r
        ELSE [r EXCEPT ![1].n = @ - over, ![1].cut = TRUE]

\* Take up to k samples of one side: what is used up is released, the counter
\* follows and is 0 when the queue is empty.
Drain(s, role, k) ==
    LET q == s.queues[role]
        taken == IF Samples(q) < k THEN Samples(q) ELSE k
    IN  [s EXCEPT
            !.refs = ReleaseAll(@, SubSeq(q, 1, UsedUp(q, taken))),
            !.queues[role] = Rest(q, taken),
            !.counts[role] = IF Rest(q, taken) = <<>> THEN 0 ELSE @ - taken]

Emit(s, f) == [s EXCEPT !.encoder = Append(@, f)]
NewFrame(b, k) ==
    [buf |-> b, n |-> k, cut |-> FALSE, rel |-> TRUE, own |-> TRUE, rate |-> 1, no |-> 0]

\* pullRecordingMonoChunk hands over a frame that fits, and copies otherwise.
PullMono(s, role, k) ==
    LET h == Head(s.queues[role])
    IN  IF h.n = k /\ ~h.cut /\ h.rel
        THEN [Emit(s, h) EXCEPT
                !.queues[role] = Tail(@),
                !.counts[role] = IF Len(s.queues[role]) = 1 THEN 0 ELSE @ - k]
        ELSE Emit(Drain([s EXCEPT !.refs = Acquired(@)], role, k), NewFrame(Acquire(s.refs), k))

\* writeSplitRecordingFrame and writeMonoMixedRecordingFrame.
WriteBoth(s, k) ==
    Emit(Drain(Drain([s EXCEPT !.refs = Acquired(@)], "inbound", k), "outbound", k),
         NewFrame(Acquire(s.refs), k))

Least(S) == CHOOSE x \in S : \A y \in S : x <= y

\* One round of flushRecordingQueues.
FlushOne(s) ==
    LET i == s.counts["inbound"]  o == s.counts["outbound"]
    IN  IF s.queues["inbound"] = <<>> /\ s.queues["outbound"] = <<>> THEN s
        ELSE IF split THEN WriteBoth(s, Target)
        ELSE IF i > 0 /\ o > 0 THEN WriteBoth(s, Least({Target, i, o}))
        ELSE IF i > 0 THEN PullMono(s, "inbound", Least({Target, i}))
        ELSE IF o > 0 THEN PullMono(s, "outbound", Least({Target, o}))
        ELSE s      \* the loop of the code would not end: CountersMatch

FlushAll(s) ==
    FoldLeft(LAMBDA t, i : FlushOne(t), s,
             [i \in 1..(Samples(s.queues["inbound"]) + Samples(s.queues["outbound"])) |-> i])

Cleared(s) ==
    [s EXCEPT !.refs = ReleaseAll(ReleaseAll(@, s.queues["inbound"]), s.queues["outbound"]),
              !.queues = [r \in Roles |-> <<>>],
              !.counts = [r \in Roles |-> 0]]

Becomes(s) ==
    refs' = s.refs /\ queues' = s.queues /\ counts' = s.counts /\ encoder' = s.encoder

Queued(s) == s.queues["inbound"] # <<>> \/ s.queues["outbound"] # <<>>
Watching(m, c) == (m.on /\ m.watch) \/ (c.state = "on" /\ c.watch)

\* A tick of ensureRecordingLoop.
Tick(quiet) ==
    LET on == call.state = "on"
        after == IF on THEN FlushOne(Here)
                 ELSE IF media.on /\ media.watch THEN Here ELSE Cleared(Here)
    IN  /\ ticking /\ FreeBufs(refs) # {}
        /\ Silence(quiet)
        /\ call' = [call EXCEPT !.watch = @ /\ ~(on /\ quiet)]
        /\ Becomes(after)
        /\ ticking' = (Queued(after) \/ Watching(media', call'))
        /\ UNCHANGED <<orders, webSocket, split, leaked, ring, pending, hand, closed, came,
                       unwatched>>

\* The encoder is done with a frame and releases it.
Encodes ==
    /\ encoder # <<>> /\ encoder' = Tail(encoder)
    /\ refs' = Release(refs, Head(encoder))
    /\ UNCHANGED <<orders, webSocket, split, leaked, ring, pending, hand, queues, counts, media,
                   call, ticking, closed, came, unwatched>>

-----------------------------------------------------------------------------
(* Commands.                                                                 *)

\* startRecording gives the new recorder what the ring holds.
StartMedia(watch) ==
    LET shares == FoldLeft(LAMBDA a, f : <<Shared(a[1], f)[1], Append(a[2], Shared(a[1], f)[2])>>,
                           <<refs, <<>> >>, ring)
    IN  /\ orders < MaxOrders /\ orders' = orders + 1
        /\ ~closed /\ ~media.on /\ Cardinality(FreeBufs(refs)) >= Len(ring)
        /\ refs' = shares[1] /\ encoder' = encoder \o shares[2]
        /\ media' = FoldLeft(Given, [NoMedia EXCEPT !.on = TRUE, !.watch = watch], ring)
        /\ ticking' = (ticking \/ watch)
        /\ unwatched' = FALSE
        /\ UNCHANGED <<webSocket, split, leaked, ring, pending, hand, queues, counts, call,
                       closed, came>>

StopMedia ==
    /\ media.on /\ media' = NoMedia /\ unwatched' = FALSE
    /\ UNCHANGED <<orders, webSocket, split, refs, leaked, ring, pending, hand, queues, counts,
                   encoder, call, ticking, closed, came>>

ActivateCall(watch) ==
    /\ orders < MaxOrders /\ orders' = orders + 1
    /\ ~closed /\ call.state = "off"
    /\ call' = [state |-> "on", watch |-> watch]
    /\ Becomes(Cleared(Here)) /\ ticking' = TRUE /\ unwatched' = FALSE
    /\ UNCHANGED <<webSocket, split, leaked, ring, pending, hand, media, closed, came>>

\* deactivateGlobalRecording records what is queued and stops the ticker, also
\* when the silence watch of a media.record needs it.
DeactivateCall ==
    /\ call.state # "off" /\ Cardinality(FreeBufs(refs)) >= 2
    /\ Becomes(Cleared(FlushAll(Here)))
    /\ call' = [state |-> "off", watch |-> FALSE]
    /\ ticking' = FALSE
    /\ unwatched' = (media.on /\ media.watch)
    /\ UNCHANGED <<orders, webSocket, split, leaked, ring, pending, hand, media, closed, came>>

PauseCall ==
    /\ call.state = "on" /\ Cardinality(FreeBufs(refs)) >= 2
    /\ Becomes(Cleared(FlushAll(Here)))
    /\ call' = [call EXCEPT !.state = "paused"]
    /\ UNCHANGED <<orders, webSocket, split, leaked, ring, pending, hand, media, ticking, closed,
                   came, unwatched>>

ResumeCall ==
    /\ orders < MaxOrders /\ orders' = orders + 1
    /\ call.state = "paused"
    /\ call' = [call EXCEPT !.state = "on"] /\ ticking' = TRUE /\ unwatched' = FALSE
    /\ UNCHANGED <<webSocket, split, refs, leaked, ring, pending, hand, queues, counts,
                   encoder, media, closed, came>>

\* close() drops everything and destroys the pool; what the encoders hold they
\* release into nothing.
Close ==
    /\ ~closed /\ closed' = TRUE
    /\ refs' = [b \in Bufs |-> 0] /\ leaked' = {}
    /\ ring' = <<>> /\ pending' = <<>>
    /\ queues' = [r \in Roles |-> <<>>] /\ counts' = [r \in Roles |-> 0]
    /\ media' = NoMedia /\ call' = [state |-> "off", watch |-> FALSE]
    /\ ticking' = FALSE /\ unwatched' = FALSE
    /\ UNCHANGED <<orders, webSocket, split, hand, encoder, came>>

LfNext ==
    \/ \E n \in {1, 2}, rate \in {1, 2}, quiet \in BOOLEAN : Inbound(n, rate, quiet)
    \/ CaptureTakes \/ CaptureRecords
    \/ \E n \in {1, 2} : Outbound(n)
    \/ \E quiet \in BOOLEAN : Tick(quiet)
    \/ Encodes
    \/ \E watch \in BOOLEAN : StartMedia(watch) \/ ActivateCall(watch)
    \/ StopMedia \/ DeactivateCall \/ PauseCall \/ ResumeCall
    \/ Close

LfSpec == LfInit /\ [][LfNext]_lfVars

-----------------------------------------------------------------------------
(* Properties.                                                               *)

Holding == ring \o pending \o hand \o queues["inbound"] \o queues["outbound"] \o encoder

\* The fields have their types.
LfTypeOK ==
    /\ refs \in [Bufs -> Nat] /\ leaked \subseteq Bufs
    /\ \A i \in DOMAIN Holding : Holding[i].buf \in Bufs
    /\ counts \in [Roles -> Nat] /\ call.state \in {"off", "on", "paused"}

\* While the leg is open a buffer has as many references as holders that will
\* release it, and one more when a transfer dropped its reference.
RefsMatchHolders ==
    ~closed => \A b \in Bufs :
        refs[b] = Cardinality({i \in DOMAIN Holding : Holding[i].buf = b /\ Holding[i].rel})
                  + (IF b \in leaked THEN 1 ELSE 0)

\* Nobody holds a buffer that is free for the next frame.
HeldIsOwned == ~closed => \A i \in DOMAIN Holding : refs[Holding[i].buf] > 0

\* The counters are the samples of the queues: with one at 0 beside a frame
\* the flush would not end, with one too high it would wait for silence.
CountersMatch == \A r \in Roles : counts[r] = Samples(queues[r])

\* What is queued, and a recording that watches for silence, has a ticker,
\* unless a stopped recording of the call took it away.
QueueIsTicked ==
    (Queued(Here) /\ call.state = "on") \/ Watching(media, call) => ticking \/ unwatched

\* A recorder hears a run of the frames that came in, none left out or twice.
RecorderHearsAll == ~media.gap

FramesSafe ==
    LfTypeOK /\ RefsMatchHolders /\ HeldIsOwned /\ CountersMatch /\ QueueIsTicked
        /\ RecorderHearsAll
=============================================================================
