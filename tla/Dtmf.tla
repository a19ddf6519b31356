-------------------------------- MODULE Dtmf --------------------------------
(***************************************************************************)
(* The digits a caller presses.  One press may reach the daemon up to three *)
(* times: as the end of a telephone event in the RTP stream, as a tone in   *)
(* the audio of that stream, and as a SIP INFO.                             *)
(*   media/transports/rtp-transport.ts         telephone events             *)
(*   media/dtmf/inband-dtmf-detector.ts        tones, frame by frame        *)
(*   signaling/sip/sip-transport-service.ts    INFO                         *)
(*   media/media-service.ts    handleTransportDtmf, handleInboundDtmf       *)
(* The window of handleTransportDtmf is for INFO alone: what the worker     *)
(* reports of the stream goes to handleInboundDtmf at once.  The two ways   *)
(* know nothing of each other, so a press is heard once by each of them.    *)
(*                                                                         *)
(* Time passes in frames.  A frame either carries the tone of one digit or  *)
(* none: how the frequencies are told apart is not modelled.                *)
(***************************************************************************)
EXTENDS Naturals, Sequences

CONSTANTS Digits, MaxPresses,
          MinTone, MinPause,   \* in frames: MIN_START_DURATION_MS, MIN_END_DURATION_MS
          Window,              \* TRANSPORT_DTMF_DEDUP_WINDOW_MS
          Suppress             \* EXTERNAL_DTMF_SUPPRESS_MS

\* 0 is no digit.  A tone must last longer than one frame (40 and 20 ms).
ASSUME DtmfAssumption ==
    /\ 0 \notin Digits /\ MaxPresses \in Nat
    /\ MinTone \in Nat \ {0, 1} /\ MinPause \in Nat \ {0}
    /\ Window \in Nat /\ Suppress \in Nat

VARIABLES
    methods,   \* how the phone signals a press and the host allows it
    presses,   \* history: the digits pressed
    tone,      \* the press whose key is down, 0 for none
    lasted,    \* frames the key is down, or up
    wire,      \* telephone events and INFOs on their way: <<method, press>>
    lastKey,   \* lastInboundDtmfKey: the press of the telephone event seen last
    detector,  \* candidateDigit, its duration, activeDigit, its gap, suppressUntilMs
    dedup,     \* transportDtmfDedupByLegId: the digit and how long ago it was
    published, \* history: the presses published, in order, with their methods
    dtMishaps  \* history

dtVars == <<methods, presses, tone, lasted, wire, lastKey, detector, dedup, published, dtMishaps>>

\* "lost"       no copy of a telephone event arrived
\* "reordered"  a report arrived before one of an earlier press
\* "hasty"      a tone was shorter than MinTone, or followed a shorter pause
\* "swallowed"  the INFO of a digit came within the window of the one before it
\* "doubled"    a telephone event came when its tone had been detected already
DtMishaps == {"lost", "reordered", "hasty", "swallowed", "doubled"}

Hears(candidate, length, active, gap) ==
    [candidate |-> candidate, length |-> length, active |-> active, gap |-> gap, suppress |-> 0]
Silent == Hears(0, 0, 0, 0)

DtInit ==
    /\ methods \in (SUBSET {"event", "tone", "info"}) \ {{}}
    /\ presses = <<>> /\ tone = 0 /\ lasted = MinPause
    /\ wire = {} /\ lastKey = 0
    /\ detector = Silent
    /\ dedup = [digit |-> 0, age |-> Window + 1]
    /\ published = <<>> /\ dtMishaps = {}

Digit(p) == IF p = 0 THEN 0 ELSE presses[p]
SameDigit(p, q) == Digit(p) = Digit(q)
Up(n, most) == IF n < most THEN n + 1 ELSE n
Down(n) == IF n > 0 THEN n - 1 ELSE 0

\* Telephone events and tones come from the worker, INFO from the signalling.
Way(method) == IF method = "info" THEN "info" ELSE "stream"
HeardPress(p, way) == \E i \in 1 .. Len(published) : published[i].press = p /\ Way(published[i].by) = way

-----------------------------------------------------------------------------
(* The daemon                                                               *)

\* handleInboundDtmf.
HandleInboundDtmf(p, method) == published' = Append(published, [press |-> p, by |-> method])

\* handleTransportDtmf: the digit of the last one is dropped within the window;
\* what is dropped does not prolong it.
Repeated(digit) == dedup.digit = digit /\ dedup.age =< Window

HandleTransportDtmf(p) ==
    IF Repeated(Digit(p))
    THEN UNCHANGED <<dedup, published>>
    ELSE dedup' = [digit |-> Digit(p), age |-> 0] /\ HandleInboundDtmf(p, "info")

\* Mutant: every copy of the end packet counts.
EveryCopyIsNew(p) == FALSE

\* dtmfKey === this.lastInboundDtmfKey: the timestamp of the event tells presses apart.
IsCopy(p) == p = lastKey

\* An earlier press is still on its way in a telephone event.
Overtakes(p) == \E r \in wire : r[1] = "event" /\ r[2] < p /\ ~HeardPress(r[2], "stream")
HeardAsTone(p) == \E i \in 1 .. Len(published) : published[i] = [press |-> p, by |-> "tone"]

\* A telephone event with the end bit: every copy but the first is dropped, and
\* the detector is told.  (handlePacket)
EventArrives(p, last) ==
    /\ <<"event", p>> \in wire
    /\ wire' = IF last THEN wire \ {<<"event", p>>} ELSE wire
    /\ IF IsCopy(p)
       THEN UNCHANGED <<lastKey, detector, published, dtMishaps>>
       ELSE /\ lastKey' = p
            /\ detector' = [Silent EXCEPT !.suppress = Suppress]
            /\ HandleInboundDtmf(p, "event")
            /\ dtMishaps' = dtMishaps \cup (IF lastKey > p THEN {"reordered"} ELSE {})
                                     \cup (IF HeardAsTone(p) THEN {"doubled"} ELSE {})
    /\ UNCHANGED <<methods, presses, tone, lasted, dedup>>

\* handleInDialogInfo, handleOutboundInfo: a retransmission is answered by the
\* transaction and goes no further.
InfoArrives(p) ==
    /\ <<"info", p>> \in wire
    /\ \A q \in 1 .. p - 1 : <<"info", q>> \notin wire
    /\ wire' = wire \ {<<"info", p>>}
    /\ HandleTransportDtmf(p)
    /\ dtMishaps' = IF dedup.digit = Digit(p) /\ dedup.age =< Window THEN dtMishaps \cup {"swallowed"} ELSE dtMishaps
    /\ UNCHANGED <<methods, presses, tone, lasted, lastKey, detector>>

\* InbandDtmfDetector.feed: the detector after a frame with the tone of press p
\* (0 for none), and the press it completed (0 for none).
Feed(d, p) ==
    LET longer == IF SameDigit(p, d.candidate) THEN [press |-> d.candidate, length |-> Up(d.length, MinTone)]
                  ELSE [press |-> p, length |-> 1]
        none == [state |-> Silent, done |-> 0]
    IN CASE d.suppress > 0 -> none
         [] d.suppress = 0 /\ d.active # 0 /\ SameDigit(p, d.active) ->
              [state |-> Hears(0, 0, d.active, 0), done |-> 0]
         [] d.suppress = 0 /\ d.active # 0 /\ ~SameDigit(p, d.active) /\ d.gap + 1 < MinPause ->
              [state |-> Hears(0, 0, d.active, d.gap + 1), done |-> 0]
         [] d.suppress = 0 /\ d.active # 0 /\ ~SameDigit(p, d.active) /\ d.gap + 1 >= MinPause ->
              [state |-> Hears(p, IF p = 0 THEN 0 ELSE 1, 0, 0), done |-> d.active]
         [] d.suppress = 0 /\ d.active = 0 /\ p = 0 -> none
         [] OTHER ->
              [state |-> IF longer.length >= MinTone THEN Hears(0, 0, longer.press, 0)
                         ELSE Hears(longer.press, longer.length, 0, 0),
               done |-> 0]

\* The next frame of the stream.
NextFrame ==
    LET fed == Feed(detector, IF "tone" \in methods THEN tone ELSE 0)
    IN /\ detector' = [fed.state EXCEPT !.suppress = Down(detector.suppress)]
       /\ lasted' = Up(lasted, IF tone # 0 THEN MinTone ELSE MinPause)
       /\ dedup' = [dedup EXCEPT !.age = Up(@, Window + 1)]
       /\ IF fed.done = 0
          THEN UNCHANGED <<published, dtMishaps>>
          ELSE /\ HandleInboundDtmf(fed.done, "tone")
               /\ dtMishaps' = IF Overtakes(fed.done) THEN dtMishaps \cup {"reordered"} ELSE dtMishaps
       /\ UNCHANGED <<methods, presses, tone, wire, lastKey>>

-----------------------------------------------------------------------------
(* The caller and the network                                               *)

Press(digit) ==
    /\ tone = 0 /\ Len(presses) < MaxPresses
    /\ presses' = Append(presses, digit) /\ tone' = Len(presses) + 1 /\ lasted' = 0
    /\ dtMishaps' = IF "tone" \in methods /\ lasted < MinPause THEN dtMishaps \cup {"hasty"} ELSE dtMishaps
    /\ UNCHANGED <<methods, wire, lastKey, detector, dedup, published>>

\* The telephone event ends and the INFO is sent when the key goes up.
KeyUp ==
    /\ tone # 0
    /\ wire' = wire \cup {<<m, tone>> : m \in methods \ {"tone"}}
    /\ tone' = 0 /\ lasted' = 0
    /\ dtMishaps' = IF "tone" \in methods /\ lasted < MinTone THEN dtMishaps \cup {"hasty"} ELSE dtMishaps
    /\ UNCHANGED <<methods, presses, lastKey, detector, dedup, published>>

EventLost(p) ==
    /\ <<"event", p>> \in wire /\ lastKey # p
    /\ wire' = wire \ {<<"event", p>>}
    /\ dtMishaps' = dtMishaps \cup {"lost"}
    /\ UNCHANGED <<methods, presses, tone, lasted, lastKey, detector, dedup, published>>

\* A behaviour is followed to its first mishap: nothing is promised after it.
DtNext ==
  /\ dtMishaps = {}
  /\ \/ \E p \in 1 .. Len(presses) : InfoArrives(p) \/ EventLost(p) \/ \E last \in BOOLEAN : EventArrives(p, last)
     \/ \E d \in Digits : Press(d)
     \/ NextFrame \/ KeyUp

DtSpec == DtInit /\ [][DtNext]_dtVars

-----------------------------------------------------------------------------
DtTypeOK ==
    /\ methods \subseteq {"event", "tone", "info"}
    /\ presses \in Seq(Digits) /\ Len(presses) =< MaxPresses
    /\ {tone, lastKey, detector.candidate, detector.active} \subseteq 0 .. Len(presses)
    /\ (lasted =< MinTone \/ lasted =< MinPause) /\ detector.length < MinTone /\ detector.gap < MinPause
    /\ detector.suppress \in 0 .. Suppress /\ dedup.age \in 0 .. Window + 1
    /\ dtMishaps \subseteq DtMishaps

\* Each way publishes a press once, and in the order of the presses: the copies
\* of a telephone event count once, and a tone not beside its event
\* (rtp-transport.ts:858-862, inband-dtmf-detector.ts:151-185).  Between the two
\* ways there is no order.
HeardOnceInOrder ==
    dtMishaps = {} =>
       \A i, j \in 1 .. Len(published) :
          i < j /\ Way(published[i].by) = Way(published[j].by) => published[i].press < published[j].press

\* Once the reports have arrived and the tone is over, neither way left a press
\* out: one that is signalled both ways was heard twice (media-service.ts:1323,
\* 1809-1828).
NothingMissed ==
    /\ dtMishaps = {} /\ wire = {} /\ tone = 0 /\ lasted = MinPause
    => \A m \in methods, p \in 1 .. Len(presses) : HeardPress(p, Way(m))

DigitsSafe == DtTypeOK /\ HeardOnceInOrder /\ NothingMissed
=============================================================================
