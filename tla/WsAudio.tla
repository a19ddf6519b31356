-------------------------------- MODULE WsAudio -------------------------------
(* What a voice agent says, on its way from the websocket into the call       *)
(* (WebSocketTransport in the worker, media/transports/websocket-transport.ts)*)
(*                                                                            *)
(* The agent sends speech in chunks of any size, faster than it is heard.     *)
(* They are queued, and a timer takes them out in whole frames; a flush pads  *)
(* the rest to a frame, an interruption drops everything.                     *)
(*                                                                            *)
(* This goes on in the thread of the worker the leg is placed on, beside the  *)
(* attachment in the daemon, which has the socket (WsStream): either may step *)
(* between any two steps of the other.                                        *)
EXTENDS WsStream, SequencesExt

CONSTANTS Chunks,       \* sizes of the agent's chunks
          Frame,        \* bytes of 20 ms at the lower of two sample rates
          Batch,        \* OPENAI_REALTIME_INBOUND_BATCH_FRAMES
          MaxSpoken     \* bound on the bytes the agent sends

ASSUME WsAudioAssumption ==
    Chunks \subseteq Nat /\ Frame \in Nat \ {0} /\ Batch \in Nat \ {0} /\ MaxSpoken \in Nat

VARIABLES
    spoken,     \* bytes sent so far: a byte is known by its number
    queued,     \* pendingInboundAudioChunks, one after the other
    rate,       \* pendingInboundAudioSampleRate: 0, 1 or 2 times the lower one
    flush,      \* pendingInboundAudioFlush
    timer,      \* pendingInboundAudioTimer
    voiced,     \* what was dispatched, one frame after the other
    pads,       \* the bytes behind which a frame was filled with silence
    dropped,    \* bytes an interruption, another rate or the end dropped
    flushes,    \* the bytes after which the agent asked for a flush
    overtaken   \* words arrived before a flush was carried out

waVars == <<spoken, queued, rate, flush, timer, voiced, pads, dropped, flushes, overtaken>>

WaInit ==
    /\ spoken = 0 /\ queued = <<>> /\ rate = 0 /\ flush = FALSE /\ timer = FALSE
    /\ voiced = <<>> /\ pads = {} /\ dropped = {} /\ flushes = {} /\ overtaken = FALSE

FrameBytes(r) == r * Frame
BatchBytes(r) == Batch * FrameBytes(r)

\* ensureInboundAudioDrain: at once for a flush or a batch, in a frame's time
\* for less; no difference between delays is made.
Drains(q, r, f) == timer \/ (r # 0 /\ (f \/ Len(q) >= FrameBytes(r)))

\* resetInboundAudioPlayout.
Reset == /\ queued' = <<>> /\ rate' = 0 /\ flush' = FALSE /\ timer' = FALSE
         /\ dropped' = dropped \cup ToSet(queued)

\* An audio event: enqueueInboundAudio.  Another rate drops what is queued.
Speaks(n, r) ==
    /\ spoken + n =< MaxSpoken
    /\ LET other == queued # <<>> /\ rate # r
           bytes == [k \in 1 .. n |-> spoken + k]
           q == (IF other THEN <<>> ELSE queued) \o bytes
           f == flush /\ ~other
           armed == IF other THEN f \/ Len(q) >= FrameBytes(r) ELSE Drains(q, r, f) IN
       /\ queued' = q /\ rate' = r /\ flush' = f /\ timer' = armed
       /\ dropped' = IF other THEN dropped \cup ToSet(queued) ELSE dropped
       /\ overtaken' = (overtaken \/ f)
    /\ spoken' = spoken + n
    /\ UNCHANGED <<voiced, pads, flushes>>

\* An event that ends the agent's speech.
Flushes ==
    /\ flush' = TRUE /\ timer' = Drains(queued, rate, TRUE)
    /\ flushes' = flushes \cup {spoken}
    /\ UNCHANGED <<spoken, queued, rate, voiced, pads, dropped, overtaken>>

\* An event that interrupts it, a configure, or the end of the transport.
Interrupts == Reset /\ UNCHANGED <<spoken, voiced, pads, flushes, overtaken>>

\* drainInboundAudioFrame: a batch, the whole frames there are, or on a flush
\* the rest, padded.
Taken(q, r, f) ==
    LET whole == (Len(q) \div FrameBytes(r)) * FrameBytes(r) IN
    IF whole >= BatchBytes(r) THEN BatchBytes(r)
    ELSE IF whole > 0 THEN whole ELSE IF f THEN Len(q) ELSE 0

PlayoutTimer ==
    /\ timer
    /\ LET n == Taken(queued, rate, flush)
           rest == SubSeq(queued, n + 1, Len(queued)) IN
       /\ queued' = rest
       /\ voiced' = voiced \o SubSeq(queued, 1, n)
       /\ pads' = pads \cup (IF n \in 1 .. FrameBytes(rate) - 1 THEN {queued[n]} ELSE {})
       /\ timer' = (n > 0 /\ rest # <<>> /\ (flush \/ Len(rest) >= FrameBytes(rate)))
       /\ flush' = (flush /\ rest # <<>>)
    /\ UNCHANGED <<spoken, rate, dropped, flushes, overtaken>>

WaNext ==
    \/ \E n \in Chunks, r \in {1, 2} : Speaks(n, r)
    \/ Flushes \/ Interrupts \/ PlayoutTimer

-----------------------------------------------------------------------------
\* Every value is one the code can have.
WaTypeOK ==
    /\ queued \in Seq(1 .. spoken) /\ rate \in 0 .. 2
    /\ flush \in BOOLEAN /\ timer \in BOOLEAN /\ dropped \subseteq 1 .. spoken

\* The agent's words are heard once and in order: every byte was dispatched, is
\* queued behind all that was dispatched, or was dropped on purpose.
SpeechIsWhole ==
    /\ \A i, k \in 1 .. Len(voiced \o queued) : i < k => (voiced \o queued)[i] < (voiced \o queued)[k]
    /\ 1 .. spoken = ToSet(voiced) \cup ToSet(queued) \cup dropped
    /\ ToSet(voiced) \cap dropped = {}

\* Silence is put in only where the agent stopped speaking, unless it went on
\* before its flush was carried out.
PaddedAtTheEnd == pads \subseteq flushes \/ overtaken

\* Whole frames and flushed rests never wait without a timer.
PlayoutGoesOn == queued # <<>> /\ (flush \/ Len(queued) >= FrameBytes(rate)) => timer

\* What the playout promises.
SpeechSafe == WaTypeOK /\ SpeechIsWhole /\ PaddedAtTheEnd /\ PlayoutGoesOn

WaSpec == WaInit /\ [][WaNext]_waVars

-----------------------------------------------------------------------------
(* The leg of a voice agent: its attachment and its playout.                  *)

vaVars == <<wsVars, waVars>>

VaInit == WsInit /\ WaInit

VaNext ==
    \/ WsNext /\ UNCHANGED waVars
    \/ WaNext /\ UNCHANGED wsVars

\* A voice agent has one socket, which its leg knows, and is heard whole and in
\* order (websocket-transport.ts, the class in the daemon and the one in the
\* worker).
VoiceAgentSafe == WsSafe /\ SpeechSafe

VaSpec == VaInit /\ [][VaNext]_vaVars
=============================================================================
