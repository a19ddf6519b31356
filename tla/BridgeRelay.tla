----------------------------- MODULE BridgeRelay -----------------------------
(***************************************************************************)
(* Signalling that crosses a bridge.  An inbound SIP caller and an         *)
(* outbound attempt to a callee are bridged before, while or after the     *)
(* callee answers; what the callee's phone says is relayed to the caller,  *)
(* and call.bridge brings a caller up to date who was bridged late.        *)
(*                                                                         *)
(* A provisional response with SDP and a 200 OK wait for the media         *)
(* endpoint before they are reported; answering the caller waits for its   *)
(* endpoint and for the socket.  The commands call.answer, call.ringing,   *)
(* call.hangup, call.bridge and call.unbridge come at any time, and either *)
(* phone may leave.                                                        *)
(*                                                                         *)
(* The attempt belongs to a dial, which may have had others before it.     *)
(* What becomes of the dial is in Dial; here it is open, over, or torn: it *)
(* has a winner, but hanging up an earlier attempt throws.                 *)
(***************************************************************************)
EXTENDS Naturals, FiniteSets

CONSTANT MaxProvisional   \* bound: provisional responses of the callee's phone

ASSUME MaxProvisionalAssumption == MaxProvisional \in Nat

VARIABLES
    callee,     \* its leg: bridgeSignalingState, still registered, being finalized
    invited,    \* provisional responses so far; the 200 OK: awaited, at the media, reported
    earlyMedia, \* the handler of a 183 waits for the media endpoint
    dial,       \* of the attempt: "open", "over", "torn"
    joined,     \* bridgePeerLegId, on both legs
    syncing,    \* call.bridge is about to bring the caller up to date
    callerLeg,  \* its leg: status, still registered, being finalized
    dialog,     \* its inbound session: registered, answered, with local SDP
    answerer,   \* the calls of answerLeg for the caller
    heard,      \* what the caller's phone was told, or that it left
    slips       \* history: what went wrong beyond repair

brVars == <<callee, invited, earlyMedia, dial, joined, syncing, callerLeg, dialog, answerer, heard, slips>>
calleeVars == <<callee, invited, earlyMedia, dial>>
callerState == <<callerLeg, dialog, answerer, heard, slips>>

Answerers == {"relay", "sync", "call"}

\* "half"      the caller could not be answered, and nobody tries again
\* "mistaken"  a second answerer took the session for answered while the first
\*             one was still sending
\* "demoted"   call.ringing on an answered leg: its status is "ringing" again
\* "cut"       a relayed refusal ended a call whose caller had been answered
\* "unrelayed" a torn dial threw between the callee's answer and its relay
Slips == {"half", "mistaken", "demoted", "cut", "unrelayed"}

BrTypeOK ==
    /\ callee \in [state : {"none", "ringing", "progress", "answered", "rejected"},
                   known : BOOLEAN, ending : BOOLEAN]
    /\ invited \in [provisional : 0 .. MaxProvisional,
                    final : {"awaited", "media", "answered", "failed"}]
    /\ {earlyMedia, joined, syncing} \subseteq BOOLEAN
    /\ dial \in {"open", "over", "torn"}
    /\ callerLeg \in [status : {"trying", "ringing", "answered", "ended"},
                      known : BOOLEAN, ending : BOOLEAN]
    /\ dialog \in [kept : BOOLEAN, answered : BOOLEAN, sdp : BOOLEAN]
    /\ answerer \in [Answerers -> {"idle", "media", "sending"}]
    /\ heard \in {"nothing", "early", "ok", "refused", "bye", "left"}
    /\ slips \subseteq Slips

BrInit ==
    /\ callee = [state |-> "none", known |-> TRUE, ending |-> FALSE]
    /\ invited = [provisional |-> 0, final |-> "awaited"]
    /\ earlyMedia = FALSE /\ joined = FALSE /\ syncing = FALSE /\ dial = "open"
    /\ callerLeg = [status |-> "trying", known |-> TRUE, ending |-> FALSE]
    /\ dialog \in [kept : {TRUE}, answered : {FALSE}, sdp : BOOLEAN]
    /\ answerer = [a \in Answerers |-> "idle"]
    /\ heard = "nothing" /\ slips = {}

-----------------------------------------------------------------------------
(* The caller's leg.                                                       *)

HearEarly(doesHear) == heard' = IF doesHear /\ heard = "nothing" THEN "early" ELSE heard

Ring ==
    /\ HearEarly(dialog.kept /\ ~dialog.answered)
    /\ callerLeg' = [callerLeg EXCEPT !.status = "ringing"]
    /\ slips' = slips \cup IF callerLeg.status = "answered" THEN {"demoted"} ELSE {}
    /\ UNCHANGED <<dialog, answerer>>

Progress ==
    /\ HearEarly(dialog.kept /\ ~dialog.answered /\ dialog.sdp)
    /\ UNCHANGED <<callerLeg, dialog, answerer, slips>>

\* Without a session the answer throws; a session that is marked answered
\* counts as answered at once.
Answer(a) ==
    /\ answerer[a] = "idle"
    /\ IF dialog.kept /\ dialog.answered
       THEN /\ callerLeg' = [callerLeg EXCEPT !.status = "answered"]
            /\ slips' = slips \cup IF heard \in {"nothing", "early"} THEN {"mistaken"} ELSE {}
            /\ UNCHANGED <<dialog, answerer>>
       ELSE /\ answerer' = IF ~dialog.kept THEN answerer
                           ELSE [answerer EXCEPT ![a] = IF dialog.sdp THEN "sending" ELSE "media"]
            /\ dialog' = [dialog EXCEPT !.answered = @ \/ (dialog.kept /\ dialog.sdp)]
            /\ UNCHANGED <<callerLeg, slips>>
    /\ UNCHANGED heard

EndCaller ==
    /\ callerLeg' = [callerLeg EXCEPT !.status = "ended", !.ending = TRUE]
    /\ UNCHANGED <<dialog, answerer, heard>>

MediaForAnswer(a) ==
    /\ answerer[a] = "media"
    /\ \/ /\ dialog' = [dialog EXCEPT !.sdp = TRUE, !.answered = TRUE]
          /\ answerer' = [answerer EXCEPT ![a] = "sending"]
          /\ UNCHANGED slips
       \/ /\ answerer' = [answerer EXCEPT ![a] = "idle"]
          /\ slips' = slips \cup {"half"}
          /\ UNCHANGED dialog
    /\ UNCHANGED <<calleeVars, joined, syncing, callerLeg, heard>>

\* The answer goes on for a leg that ended meanwhile, unless it was removed.
AnswerSent(a) ==
    /\ answerer[a] = "sending"
    /\ answerer' = [answerer EXCEPT ![a] = "idle"]
    /\ \/ /\ heard' = IF heard \in {"nothing", "early"} THEN "ok" ELSE heard
          /\ callerLeg' = [callerLeg EXCEPT !.status = IF callerLeg.known THEN "answered" ELSE @]
          /\ UNCHANGED <<dialog, slips>>
       \/ /\ dialog' = [dialog EXCEPT !.answered = FALSE]
          /\ slips' = slips \cup {"half"}
          /\ UNCHANGED <<heard, callerLeg>>
    /\ UNCHANGED <<calleeVars, joined, syncing>>

\* The end of the leg reaches its session, and the bridge.
CallerRemoved ==
    /\ callerLeg.ending /\ callerLeg.known
    /\ heard' = IF heard = "left" \/ ~dialog.kept THEN heard
                ELSE IF dialog.answered THEN "bye" ELSE "refused"
    /\ dialog' = [dialog EXCEPT !.kept = FALSE]
    /\ callerLeg' = [callerLeg EXCEPT !.known = FALSE]
    /\ joined' = FALSE
    /\ UNCHANGED <<calleeVars, syncing, answerer, slips>>

\* The caller's CANCEL or BYE.
CallerLeaves ==
    /\ dialog.kept /\ ~callerLeg.ending
    /\ heard' = "left"
    /\ dialog' = [dialog EXCEPT !.kept = FALSE]
    /\ callerLeg' = [callerLeg EXCEPT !.status = "ended", !.ending = TRUE]
    /\ UNCHANGED <<calleeVars, joined, syncing, answerer, slips>>

-----------------------------------------------------------------------------
(* The relay.                                                              *)

\* A relay that bothers an answered caller too.
ListensAlways == callerLeg.known /\ callerLeg.status # "ended"

\* applyBridgeSignalingToPeer: an ended or answered caller is left alone.
Listens == callerLeg.known /\ callerLeg.status \notin {"ended", "answered"}

Relay(event, a) ==
    IF ~Listens THEN UNCHANGED callerState
    ELSE \/ event = "ringing" /\ Ring
         \/ event = "progress" /\ Progress
         \/ event = "answered" /\ Answer(a)
         \/ /\ event = "rejected" /\ EndCaller
            /\ slips' = slips \cup IF heard = "ok" THEN {"cut"} ELSE {}

\* What the callee's phone said becomes the state of its leg, and is relayed.
\* A leg that left the registry reports nothing.
Reports(event) ==
    /\ callee' = IF callee.known
                 THEN [callee EXCEPT !.state = event, !.ending = @ \/ event = "rejected"]
                 ELSE callee
    /\ IF joined /\ callee.known THEN Relay(event, "relay") ELSE UNCHANGED callerState
    /\ UNCHANGED <<joined, syncing>>

\* 180, or 183 without SDP.  The network may deliver it after the 200 OK.
Provisional(event) ==
    /\ invited.provisional < MaxProvisional /\ callee.known /\ ~callee.ending
    /\ invited' = [invited EXCEPT !.provisional = @ + 1]
    /\ event \in {"ringing", "progress"} /\ Reports(event)
    /\ UNCHANGED <<earlyMedia, dial>>

EarlyMedia ==
    /\ invited.provisional < MaxProvisional /\ callee.known /\ ~callee.ending /\ ~earlyMedia
    /\ invited' = [invited EXCEPT !.provisional = @ + 1]
    /\ earlyMedia' = TRUE
    /\ UNCHANGED <<callee, dial, joined, syncing, callerState>>

\* The handler does not look again what became of the attempt.
EarlyMediaReady ==
    /\ earlyMedia /\ earlyMedia' = FALSE
    /\ \/ Reports("progress")
       \/ UNCHANGED <<callee, joined, syncing, callerState>>
    /\ UNCHANGED <<invited, dial>>

Accept ==
    /\ invited.final = "awaited" /\ callee.known /\ ~callee.ending
    /\ invited' = [invited EXCEPT !.final = "media"]
    /\ UNCHANGED <<callee, earlyMedia, dial, joined, syncing, callerState>>

\* markAttemptAnswered: the winner hangs up the attempts before it and the dial
\* is over; it throws at one whose leg left the registry, this time and the next.
MarksWinner == dial # "torn" /\ dial' = "over"
ThrowsAtLoser == dial # "over" /\ dial' = "torn"

\* The 200 OK is reported.  The callee's leg is answered before the dial is told,
\* and the caller is told after it, or not at all.
AcceptReady ==
    /\ invited.final = "media"
    /\ \/ /\ invited' = [invited EXCEPT !.final = "answered"]
          /\ IF callee.known THEN MarksWinner ELSE UNCHANGED dial
          /\ Reports("answered")
       \/ /\ invited' = [invited EXCEPT !.final = "answered"]
          /\ callee.known /\ ThrowsAtLoser
          /\ callee' = [callee EXCEPT !.state = "answered"]
          /\ slips' = IF joined THEN slips \cup {"unrelayed"} ELSE slips
          /\ UNCHANGED <<joined, syncing, callerLeg, dialog, answerer, heard>>
       \/ /\ invited' = [invited EXCEPT !.final = "failed"]
          /\ UNCHANGED <<callee, dial, joined, syncing, callerState>>
    /\ UNCHANGED earlyMedia

\* A final refusal of the INVITE, or call.hangup of the callee's leg.
CalleeRejected ==
    /\ callee.known /\ ~callee.ending
    /\ Reports("rejected")
    /\ UNCHANGED <<invited, earlyMedia, dial>>

\* The callee's BYE, a time-out of the attempt: nothing is relayed.
CalleeLeaves ==
    /\ callee.known /\ ~callee.ending
    /\ callee' = [callee EXCEPT !.ending = TRUE]
    /\ UNCHANGED <<invited, earlyMedia, dial, joined, syncing, callerState>>

\* The caller of a removed callee stays, it is only interrupted.
CalleeRemoved ==
    /\ callee.ending /\ callee.known
    /\ callee' = [callee EXCEPT !.known = FALSE]
    /\ joined' = FALSE
    /\ UNCHANGED <<invited, earlyMedia, dial, syncing, callerState>>

-----------------------------------------------------------------------------
(* Commands.                                                               *)

Commandable == callerLeg.known /\ ~callerLeg.ending

CallAnswer ==
    /\ Commandable /\ Answer("call")
    /\ UNCHANGED <<calleeVars, joined, syncing>>

CallRinging ==
    /\ Commandable /\ Ring
    /\ UNCHANGED <<calleeVars, joined, syncing>>

CallHangup ==
    /\ Commandable /\ EndCaller
    /\ UNCHANGED <<calleeVars, joined, syncing, slips>>

\* completeBridgedDialAttempt: an attempt that is bridged early wins its dial; a
\* throw is caught.  Bound: one call.bridge at a time.
CallBridge ==
    /\ Commandable /\ callee.known /\ ~callee.ending
    /\ ~joined /\ ~syncing /\ answerer["sync"] = "idle"
    /\ joined' = TRUE /\ syncing' = TRUE
    /\ IF dial = "open" THEN MarksWinner \/ ThrowsAtLoser ELSE UNCHANGED dial
    /\ UNCHANGED <<callee, invited, earlyMedia, callerState>>

\* syncBridgeSignaling; the caller's own state concerns nobody, the callee did
\* not call in.
Sync ==
    /\ syncing /\ syncing' = FALSE
    /\ IF joined /\ callee.state \in {"ringing", "progress", "answered"}
       THEN Relay(callee.state, "sync")
       ELSE UNCHANGED callerState
    /\ UNCHANGED <<calleeVars, joined>>

CallUnbridge ==
    /\ joined /\ joined' = FALSE
    /\ UNCHANGED <<calleeVars, syncing, callerState>>

BrNext ==
    \/ \E e \in {"ringing", "progress"} : Provisional(e)
    \/ EarlyMedia \/ EarlyMediaReady \/ Accept \/ AcceptReady
    \/ CalleeRejected \/ CalleeLeaves \/ CalleeRemoved
    \/ \E a \in Answerers : MediaForAnswer(a) \/ AnswerSent(a)
    \/ CallerRemoved \/ CallerLeaves
    \/ CallAnswer \/ CallRinging \/ CallHangup \/ CallBridge \/ Sync \/ CallUnbridge

BrSpec == BrInit /\ [][BrNext]_brVars

-----------------------------------------------------------------------------
(* Properties.                                                             *)

\* Whatever order the callee's responses, the answers of the caller and the
\* bridge come in: when all is handled, a caller bridged to a callee who
\* answered was told so.  Not if answering failed, if a torn dial kept the answer
\* from the relay (base-signaling-service.ts:80), or if a provisional response
\* reported late took the place of the answer before the bridge looked.
AnswerCrosses ==
    (/\ ~syncing /\ ~earlyMedia /\ \A a \in Answerers : answerer[a] = "idle"
     /\ joined /\ callee.known /\ ~callee.ending /\ invited.final = "answered"
     /\ callerLeg.known /\ ~callerLeg.ending)
    => heard = "ok" \/ callee.state # "answered" \/ {"half", "unrelayed"} \cap slips # {}

\* A leg that counts as answered has a caller who knows it, unless two answers
\* met and the first one failed.
AnsweredIsHeard ==
    callerLeg.status = "answered" /\ "mistaken" \notin slips =>
        heard \notin {"nothing", "early"}

\* The callee's refusal ends the call of a caller who waits for it, never one
\* that was answered, unless a workflow rang an answered caller.
RefusalSparesTalkers == "cut" \in slips => "demoted" \in slips

\* What a relay promises.
RelaySafe == BrTypeOK /\ AnswerCrosses /\ AnsweredIsHeard /\ RefusalSparesTalkers
=============================================================================
