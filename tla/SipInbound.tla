----------------------------- MODULE SipInbound -----------------------------
(***************************************************************************)
(* A call that comes in over SIP: the server transactions of its INVITEs,  *)
(* authentication, the leg and the inbound session each INVITE creates,    *)
(* the provisional and final responses, CANCEL, ACK and BYE, against        *)
(* a caller and a network that delays, reorders, duplicates and loses.     *)
(*                                                                         *)
(* INVITE 2 is the next INVITE of the same Call-ID: the caller's answer to *)
(* a challenge, or a re-INVITE of the dialog.  What the daemon sent stays  *)
(* in air and may be heard any number of times, unless it is lost.         *)
(***************************************************************************)
EXTENDS Naturals, FiniteSets

VARIABLES
    guarded,    \* the trigger authenticates its callers
    txn,        \* serverTransactions: how a copy of each INVITE is answered
    asking,     \* INVITEs that wait for waitForResolution
    of,         \* the INVITE a leg was created for, 0: slot not used
    inLeg,      \* the leg: alive, ended, its caller told, removed
    open,       \* legs with an entry in inboundSessions
    answered,   \* session.answered; the object outlives its entry
    answering,  \* the handler of call.answer, per leg
    resend,     \* legs whose 200 OK retransmission is armed
    cancel,     \* the handler of CANCEL: its stage and the session it found
    air,        \* responses and requests on their way to the caller
    finals,     \* history: final responses sent, per INVITE
    caller,     \* the caller
    current,    \* its latest INVITE, 0: none yet
    heardEarly, \* it heard a provisional response to that INVITE
    givenUp,    \* the INVITE it sent a CANCEL for, 0: none
    byeSeen,    \* its BYE was handled
    lost,       \* a response was lost
    faults      \* history: what went wrong beyond repair

inVars == <<guarded, txn, asking, of, inLeg, open, answered, answering, resend, cancel,
            air, finals, caller, current, heardEarly, givenUp, byeSeen, lost, faults>>
callerVars == <<caller, current, heardEarly, givenUp>>
legVars == <<of, inLeg, open, answered, answering, resend>>

Calls == 1 .. 2   \* INVITEs of the call
Legs == 1 .. 2

\* "early"     a CANCEL arrived before the session existed: 481, and the leg of
\*             an INVITE nobody waits for is created afterwards
\* "overtaken" call.answer went on for a session that was closed meanwhile, or
\*             that a CANCEL is just refusing
\* "again"     a second INVITE of a call in progress created a second leg
\* "unsent"    a response could not be sent
\* "mute"      a refusal was lost after a provisional response: it is not sent again
Faults == {"early", "overtaken", "again", "unsent", "mute"}

Early(i) == <<"early", i>>
Refusal(i) == <<"refusal", i>>
OK(i) == <<"200", i>>
ByeToCaller == <<"BYE", 0>>

InTypeOK ==
    /\ txn \in [Calls -> {"none", "busy", "early", "refused", "accepted"}]
    /\ asking \subseteq Calls
    /\ of \in [Legs -> 0 .. 2]
    /\ inLeg \in [Legs -> {"free", "live", "ended", "told", "gone"}]
    /\ {open, answered, resend} \subseteq SUBSET Legs
    /\ answering \in [Legs -> {"no", "media", "sending"}]
    /\ cancel \in [stage : {"none", "checking", "refusing", "done"}, found : 0 .. 2]
    /\ air \cup finals \subseteq {"early", "refusal", "200", "BYE"} \X (0 .. 2)
    /\ caller \in {"idle", "calling", "cancelling", "connected", "left", "over"}
    /\ {current, givenUp} \subseteq 0 .. 2
    /\ faults \subseteq Faults

InInit ==
    /\ guarded \in BOOLEAN
    /\ txn = [i \in Calls |-> "none"] /\ asking = {}
    /\ of = [l \in Legs |-> 0] /\ inLeg = [l \in Legs |-> "free"]
    /\ open = {} /\ answered = {} /\ answering = [l \in Legs |-> "no"] /\ resend = {}
    /\ cancel = [stage |-> "none", found |-> 0]
    /\ air = {} /\ finals = {}
    /\ caller = "idle" /\ current = 0 /\ heardEarly = FALSE /\ givenUp = 0
    /\ byeSeen = FALSE /\ lost = FALSE /\ faults = {}

-----------------------------------------------------------------------------
(* INVITE: handleEndpointPacket, handleFixedTrunkRequestByEndpoint,         *)
(* handleAuthOwnedRequestByEndpoint, startInboundExtensionInvite and        *)
(* startInboundTrunkInvite.                                                 *)

FreeLeg == CHOOSE l \in Legs : inLeg[l] = "free"

\* The leg, its trigger event and its session; then 100 Trying.  When that
\* cannot be sent the transaction is forgotten, the leg and session stay.
CreateLeg(i) ==
    /\ \E l \in Legs : inLeg[l] = "free"
    /\ of' = [of EXCEPT ![FreeLeg] = i]
    /\ inLeg' = [inLeg EXCEPT ![FreeLeg] = "live"]
    /\ open' = open \cup {FreeLeg}
    /\ \/ /\ txn' = [txn EXCEPT ![i] = "early"]
          /\ air' = air \cup {Early(i)}
          /\ faults' = faults
                \cup (IF \E l \in Legs : of[l] # 0 /\ of[l] # i THEN {"again"} ELSE {})
       \/ /\ faults = {}
          /\ txn' = [txn EXCEPT ![i] = "none"]
          /\ faults' = {"unsent"} /\ UNCHANGED air
    /\ UNCHANGED <<answered, answering, resend>>

\* A copy whose transaction is known is answered with what was sent last.
InviteArrives(i) ==
    /\ i <= current
    /\ txn[i] = "none"
    /\ IF guarded
       THEN /\ txn' = [txn EXCEPT ![i] = "busy"] /\ asking' = asking \cup {i}
            /\ UNCHANGED <<legVars, air, faults>>
       ELSE CreateLeg(i) /\ UNCHANGED asking
    /\ UNCHANGED <<guarded, cancel, finals, callerVars, byeSeen, lost>>

Replayed(i) ==
    CASE txn[i] = "early" -> {Early(i)}
      [] txn[i] = "refused" -> {Refusal(i)}
      [] txn[i] = "accepted" -> {OK(i)}
      [] OTHER -> {}

\* A caller sends its INVITE again until it hears something.
InviteAgain ==
    /\ caller \in {"calling", "cancelling"} /\ ~heardEarly
    /\ ~ Replayed(current) \subseteq air
    /\ air' = air \cup Replayed(current)
    /\ UNCHANGED <<guarded, txn, asking, legVars, cancel, finals, callerVars,
                   byeSeen, lost, faults>>

\* The workflow, a static list or a time-out decides.
AuthResolves(i) ==
    /\ i \in asking
    /\ asking' = asking \ {i}
    /\ \/ CreateLeg(i) /\ UNCHANGED finals
       \/ /\ txn' = [txn EXCEPT ![i] = "refused"]
          /\ air' = air \cup {Refusal(i)} /\ finals' = finals \cup {Refusal(i)}
          /\ UNCHANGED <<legVars, faults>>
    /\ UNCHANGED <<guarded, cancel, callerVars, byeSeen, lost>>

-----------------------------------------------------------------------------
(* What a workflow, or the peer of a bridge, does with the leg.             *)

\* ringInboundLeg, progressInboundLeg: until the session is answered.
RingOrProgress(l) ==
    /\ inLeg[l] = "live" /\ l \in open \ answered
    /\ txn' = [txn EXCEPT ![of[l]] = "early"]
    /\ air' = air \cup {Early(of[l])}
    /\ UNCHANGED <<guarded, asking, legVars, cancel, finals, callerVars,
                   byeSeen, lost, faults>>

\* answerInboundLeg; a media endpoint may have to be had first.
AnswerInboundLeg(l) ==
    /\ inLeg[l] = "live" /\ l \in open \ answered /\ answering[l] = "no"
    /\ answering' = [answering EXCEPT ![l] = "media"]
    /\ UNCHANGED <<guarded, txn, asking, of, inLeg, open, answered, resend, cancel, air,
                   finals, callerVars, byeSeen, lost, faults>>

\* The endpoint is there: the session it began with is answered, whatever
\* became of it.  Without the leg, or without an endpoint, the handler throws.
AnswerSends(l) ==
    /\ answering[l] = "media"
    /\ \/ /\ inLeg[l] # "gone"
          /\ answering' = [answering EXCEPT ![l] = "sending"]
          /\ answered' = answered \cup {l}
          /\ air' = air \cup {OK(of[l])} /\ finals' = finals \cup {OK(of[l])}
          /\ faults' = faults \cup
                (IF l \in open /\ ~(cancel.stage = "refusing" /\ cancel.found = l)
                 THEN {} ELSE {"overtaken"})
       \/ /\ answering' = [answering EXCEPT ![l] = "no"]
          /\ UNCHANGED <<answered, air, finals, faults>>
    /\ UNCHANGED <<guarded, txn, asking, of, inLeg, open, resend, cancel,
                   callerVars, byeSeen, lost>>

\* It was sent: copies of the INVITE get it too, and it is sent again until
\* ACK.  It could not be sent: the session is not answered after all.
AnswerEnds(l) ==
    /\ answering[l] = "sending"
    /\ answering' = [answering EXCEPT ![l] = "no"]
    /\ \/ txn' = [txn EXCEPT ![of[l]] = "accepted"] /\ resend' = resend \cup {l}
          /\ UNCHANGED <<answered, faults>>
       \/ faults = {} /\ faults' = {"unsent"}
          /\ answered' = answered \ {l} /\ resend' = resend \ {l} /\ UNCHANGED txn
    /\ UNCHANGED <<guarded, asking, of, inLeg, open, cancel, air, finals,
                   callerVars, byeSeen, lost>>

\* armInboundInviteSuccessRetransmission: the timer looks its session up.
ResendAccepted(l) ==
    /\ l \in resend
    /\ IF l \in open THEN air' = air \cup {OK(of[l])} /\ UNCHANGED resend
       ELSE resend' = resend \ {l} /\ UNCHANGED air
    /\ UNCHANGED <<guarded, txn, asking, of, inLeg, open, answered, answering, cancel,
                   finals, callerVars, byeSeen, lost, faults>>

HangUpInbound(l) ==
    /\ inLeg[l] = "live"
    /\ inLeg' = [inLeg EXCEPT ![l] = "ended"]
    /\ UNCHANGED <<guarded, txn, asking, of, open, answered, answering, resend, cancel, air,
                   finals, callerVars, byeSeen, lost, faults>>

RejectSaysNothing(l) ==
    /\ inLeg[l] = "ended"
    /\ inLeg' = [inLeg EXCEPT ![l] = "told"]
    /\ open' = open \ {l} /\ resend' = resend \ {l}
    /\ UNCHANGED <<guarded, txn, asking, of, answered, answering, cancel, air,
                   finals, callerVars, byeSeen, lost, faults>>

\* rejectOrHangupLeg, its inbound half: BYE to a caller that was answered, 603
\* to one that was not.  A send that fails is logged, and that is all.
RejectOrHangupInbound(l) ==
    /\ inLeg[l] = "ended"
    /\ inLeg' = [inLeg EXCEPT ![l] = "told"]
    /\ open' = open \ {l} /\ resend' = resend \ {l}
    /\ \/ l \notin open /\ UNCHANGED <<txn, air, finals, faults>>
       \/ /\ l \in open \cap answered
          /\ air' = air \cup {ByeToCaller} /\ UNCHANGED <<txn, finals, faults>>
       \/ /\ l \in open \ answered
          /\ air' = air \cup {Refusal(of[l])} /\ finals' = finals \cup {Refusal(of[l])}
          /\ txn' = [txn EXCEPT ![of[l]] = "refused"] /\ UNCHANGED faults
       \/ /\ l \in open /\ faults = {}
          /\ faults' = {"unsent"} /\ UNCHANGED <<txn, air, finals>>
    /\ UNCHANGED <<guarded, asking, of, answered, answering, cancel,
                   callerVars, byeSeen, lost>>

RemoveInbound(l) ==
    /\ inLeg[l] = "told"
    /\ inLeg' = [inLeg EXCEPT ![l] = "gone"]
    /\ UNCHANGED <<guarded, txn, asking, of, open, answered, answering, resend, cancel, air,
                   finals, callerVars, byeSeen, lost, faults>>

-----------------------------------------------------------------------------
(* CANCEL, ACK and BYE of the caller.                                 *)

SessionsOf(i) == {l \in open : of[l] = i}

\* handleInboundCancel: 481 without a session.  Copies are answered from the
\* server transaction.
CancelArrives ==
    /\ givenUp # 0 /\ cancel.stage = "none"
    /\ IF SessionsOf(givenUp) = {}
       THEN /\ cancel' = [cancel EXCEPT !.stage = "done"]
            /\ faults' = faults \cup
                 (IF finals \cap {Refusal(givenUp), OK(givenUp)} = {} THEN {"early"} ELSE {})
       ELSE /\ \E l \in SessionsOf(givenUp) : cancel' = [stage |-> "checking", found |-> l]
            /\ UNCHANGED faults
    /\ UNCHANGED <<guarded, txn, asking, legVars, air, finals, callerVars,
                   byeSeen, lost>>

CancelIgnoresAnswer ==
    /\ cancel.stage = "checking"
    /\ cancel' = [cancel EXCEPT !.stage = "refusing"]
    /\ air' = air \cup {Refusal(givenUp)} /\ finals' = finals \cup {Refusal(givenUp)}
    /\ UNCHANGED <<guarded, txn, asking, legVars, callerVars, byeSeen, lost, faults>>

\* Its 200 is out.  A session answered by now stays; any other gets 487.
CancelChecks ==
    /\ cancel.stage = "checking"
    /\ IF cancel.found \in answered
       THEN cancel' = [cancel EXCEPT !.stage = "done"] /\ UNCHANGED <<air, finals>>
       ELSE /\ cancel' = [cancel EXCEPT !.stage = "refusing"]
            /\ air' = air \cup {Refusal(givenUp)}
            /\ finals' = finals \cup {Refusal(givenUp)}
    /\ UNCHANGED <<guarded, txn, asking, legVars, callerVars, byeSeen, lost, faults>>

\* The 487 is out: the session is closed and its leg hung up.
CancelEnds ==
    /\ cancel.stage = "refusing"
    /\ cancel' = [cancel EXCEPT !.stage = "done"]
    /\ txn' = [txn EXCEPT ![givenUp] = "refused"]
    /\ resend' = resend \ {cancel.found}
    /\ open' = open \ {cancel.found}
    /\ inLeg' = [inLeg EXCEPT ![cancel.found] = IF @ = "live" THEN "ended" ELSE @]
    /\ UNCHANGED <<guarded, asking, of, answered, answering, air, finals,
                   callerVars, byeSeen, lost, faults>>

\* handleInboundAck finds the first session of the Call-ID, whatever INVITE it is of.
FirstOpen == CHOOSE l \in open : \A k \in open : l <= k
AckArrives ==
    /\ caller \in {"connected", "left"} /\ open # {}
    /\ FirstOpen \in resend
    /\ resend' = resend \ {FirstOpen}
    /\ UNCHANGED <<guarded, txn, asking, of, inLeg, open, answered, answering, cancel, air,
                   finals, callerVars, byeSeen, lost, faults>>

\* handleInDialogBye ends the first session of the Call-ID.
ByeArrives ==
    /\ caller = "left" /\ ~byeSeen
    /\ byeSeen' = TRUE
    /\ IF open = {} THEN UNCHANGED <<open, resend, inLeg>>
       ELSE /\ open' = open \ {FirstOpen} /\ resend' = resend \ {FirstOpen}
            /\ inLeg' = [inLeg EXCEPT ![FirstOpen] = IF @ = "live" THEN "ended" ELSE @]
    /\ UNCHANGED <<guarded, txn, asking, of, answered, answering, cancel, air,
                   finals, callerVars, lost, faults>>

-----------------------------------------------------------------------------
(* The caller and the network.                                              *)
Daemon == <<guarded, txn, asking, legVars, cancel, air, finals, byeSeen>>

Dials ==
    /\ caller = "idle"
    /\ caller' = "calling" /\ current' = 1
    /\ UNCHANGED <<Daemon, heardEarly, givenUp, lost, faults>>

HearsEarly ==
    /\ caller \in {"calling", "cancelling"} /\ ~heardEarly /\ Early(current) \in air
    /\ heardEarly' = TRUE
    /\ faults' = faults \cup (IF Refusal(current) \in finals \ air THEN {"mute"} ELSE {})
    /\ UNCHANGED <<Daemon, caller, current, givenUp, lost>>

\* A challenge may be answered by another INVITE.
HearsRefusal ==
    /\ caller \in {"calling", "cancelling"} /\ Refusal(current) \in air
    /\ \/ caller' = "over" /\ UNCHANGED <<current, heardEarly>>
       \/ /\ caller = "calling" /\ current = 1 /\ of[1] = 0
          /\ current' = 2 /\ heardEarly' = FALSE /\ UNCHANGED caller
    /\ UNCHANGED <<Daemon, givenUp, lost, faults>>

\* A caller that wanted to cancel acknowledges and leaves.
HearsOK ==
    /\ caller \in {"calling", "cancelling"} /\ OK(current) \in air
    /\ caller' = IF caller = "calling" THEN "connected" ELSE "left"
    /\ UNCHANGED <<Daemon, current, heardEarly, givenUp, lost, faults>>

HearsByeFromUs ==
    /\ caller = "connected" /\ ByeToCaller \in air
    /\ caller' = "over"
    /\ UNCHANGED <<Daemon, current, heardEarly, givenUp, lost, faults>>

SendsCancel ==
    /\ caller = "calling" /\ heardEarly
    /\ caller' = "cancelling" /\ givenUp' = current
    /\ UNCHANGED <<Daemon, current, heardEarly, lost, faults>>

SendsBye ==
    /\ caller = "connected"
    /\ caller' = "left"
    /\ UNCHANGED <<Daemon, current, heardEarly, givenUp, lost, faults>>

Reinvites ==
    /\ caller = "connected" /\ current = 1
    /\ current' = 2
    /\ UNCHANGED <<Daemon, caller, heardEarly, givenUp, lost, faults>>

LosesRefusal ==
    /\ ~lost /\ caller \in {"calling", "cancelling"} /\ Refusal(current) \in air
    /\ lost' = TRUE
    /\ air' = air \ {Refusal(current)}
    /\ faults' = faults \cup (IF heardEarly THEN {"mute"} ELSE {})
    /\ UNCHANGED <<guarded, txn, asking, legVars, cancel, finals, callerVars,
                   byeSeen>>

InWorld ==
    \/ Dials \/ HearsEarly \/ HearsRefusal \/ HearsOK \/ HearsByeFromUs
    \/ SendsCancel \/ SendsBye \/ Reinvites \/ LosesRefusal

InSystem ==
    \/ \E i \in Calls : AuthResolves(i)
    \/ \E l \in Legs : AnswerSends(l) \/ AnswerEnds(l) \/ RejectOrHangupInbound(l) \/ RemoveInbound(l)
    \/ CancelChecks \/ CancelEnds

InNext ==
    \/ InSystem
    \/ InviteAgain \/ CancelArrives \/ AckArrives \/ ByeArrives
    \/ \E i \in Calls : InviteArrives(i)
    \/ \E l \in Legs : \/ RingOrProgress(l) \/ AnswerInboundLeg(l)
                       \/ ResendAccepted(l) \/ HangUpInbound(l)
    \/ InWorld

\* Continuations run, and a datagram sent often enough arrives.
InFairness == /\ WF_inVars(InSystem) /\ WF_inVars(InviteAgain)
              /\ WF_inVars(HearsRefusal)
              /\ WF_inVars(HearsOK)
InSpec == InInit /\ [][InNext]_inVars /\ InFairness

-----------------------------------------------------------------------------
InIdle == asking = {} /\ cancel.stage \in {"none", "done"} /\ \A l \in Legs : answering[l] = "no"

\* Nobody waits for ever for a leg that is gone: its caller had a refusal, or
\* an acceptance and a BYE, or left by itself.
CallerIsTold ==
    \A l \in Legs :
        (inLeg[l] = "gone" /\ InIdle /\ caller # "left") =>
            \/ Refusal(of[l]) \in finals
            \/ OK(of[l]) \in finals /\ ByeToCaller \in air
            \/ "unsent" \in faults

\* An INVITE has one kind of final response.
OneFinal ==
    \A i \in Calls : {Refusal(i), OK(i)} \subseteq finals
        => faults \cap {"overtaken", "unsent"} # {}

\* A copy of an INVITE never makes a second leg; and an answered INVITE is not
\* answered by anything else from its transaction.
OneLegPerInvite ==
    /\ "unsent" \notin faults => \A k, l \in Legs : of[k] = of[l] /\ of[k] # 0 => k = l
    /\ \A i \in Calls : OK(i) \in finals /\ txn[i] = "refused" =>
            faults \cap {"overtaken", "unsent"} # {} \/ \E l \in Legs : answering[l] = "sending"

\* A caller that left, by CANCEL or BYE that arrived, leaves no live leg.
LegFollowsCaller ==
    (byeSeen \/ (cancel.stage = "done" /\ OK(givenUp) \notin finals)) =>
        \/ \A l \in Legs : inLeg[l] # "live"
        \/ asking # {} \/ faults \cap {"early", "again", "unsent"} # {}

\* What the handlers of INVITE, CANCEL and BYE owe the caller and its leg.
InboundSafe ==
    InTypeOK /\ CallerIsTold /\ OneFinal /\ OneLegPerInvite /\ LegFollowsCaller

\* A caller whose leg ended hears so, by the refusal of rejectOrHangupLeg or the
\* copies replayServerTransaction sends.
CallerHears ==
    []<>(caller = "calling" /\ (\E l \in Legs : of[l] = current /\ inLeg[l] # "live")
            => faults # {} \/ current = 2)
=============================================================================
