----------------------------- MODULE SipOutbound -----------------------------
(***************************************************************************)
(* One attempt of a dial over SIP: SipTransportService.startAttempt, the   *)
(* INVITE with its digest retries, CANCEL, ACK and BYE, their client       *)
(* transactions, and the clean-up of the leg, against a remote party and a *)
(* network that delays, reorders, duplicates and loses datagrams.          *)
(*                                                                         *)
(* A datagram that was sent once may arrive at any later time, any number  *)
(* of times, or never: asked is what the daemon sent, and what the remote  *)
(* party sent is read off verdict, hungUp and byeOk.  Retransmissions are  *)
(* therefore implicit; what a transaction adds is its time-out.            *)
(***************************************************************************)
EXTENDS Naturals, FiniteSets

CONSTANT MaxCopies  \* bound on the copies of a response that are handled at once

ASSUME CopiesAssumption == MaxCopies \in Nat

VARIABLES
    leg,        \* the leg: registered and alive, ended, cleaned up, removed
    startup,    \* how far startAttempt is
    cancelled,  \* startup.cancelledReason
    session,    \* the entry of outboundSessions: its state, or "none"
    cseq,       \* session.cseq: one more than authAttempts
    tx,         \* outboundTransactions of the call, by request
    own,        \* session.ownsSocket: a socket of its own, or a listener's
    closes,     \* how often socket.close() was called
    auth,       \* the target has credentials
    reachable,  \* sendUdp succeeds (the name of the remote host resolves)
    accepting,  \* handlers of a 200 OK that wait for the media endpoint
    refusing,   \* handlers of a refusal that wait for their ACK to be sent
    reports,    \* what the dial was told
    asked,      \* requests that went out
    remote,     \* the remote party
    verdict,    \* its final response to each INVITE
    hungUp,     \* it sent BYE
    byeOk,      \* it answered our BYE
    mishaps     \* history: what went wrong beyond repair

outVars == <<leg, startup, cancelled, session, cseq, tx, own, closes, auth, reachable,
             accepting, refusing, reports, asked, remote, verdict, hungUp, byeOk, mishaps>>
outWorld == <<remote, verdict, hungUp, byeOk>>
outSettings == <<own, auth, reachable>>

\* authAttempts < 2 (line 1531): three INVITEs at most.
Invites == 1 .. 3
INVITE(k) == <<"INVITE", k>>
CANCEL == <<"CANCEL", 0>>
ACK == <<"ACK", 0>>
BYE == <<"BYE", 0>>
Requests == {INVITE(k) : k \in Invites} \cup {CANCEL, ACK, BYE}

\* "crossed"  a 200 OK arrived for a cancelled INVITE
\* "stale"    a refusal of an earlier INVITE ended the session
\* "gaveUp"   the INVITE timed out: its time-out runs on while the phone rings
\* "lost"     the handler of a 200 OK threw before the ACK
\* "shut"     the listener was closed under the session, or its socket failed
\* "unsent"   a request could not be sent
\* "twice"    two copies of one refusal were handled at once
Mishaps == {"crossed", "stale", "gaveUp", "lost", "shut", "unsent", "twice"}

OutTypeOK ==
    /\ leg \in {"live", "ended", "told", "cleaned", "gone"}
    /\ startup \in {"idle", "unavailable", "locking", "media", "off"}
    /\ session \in {"none", "inviting", "cancelling", "answered"}
    /\ cseq \in Invites
    /\ tx \subseteq Requests \ {ACK}
    /\ closes \in 0 .. 2
    /\ cancelled \in BOOLEAN /\ own \in BOOLEAN /\ auth \in BOOLEAN
    /\ reachable \in BOOLEAN /\ hungUp \in BOOLEAN /\ byeOk \in BOOLEAN
    /\ accepting \in 0 .. MaxCopies
    /\ refusing \in [Invites -> 0 .. MaxCopies]
    /\ reports \subseteq {"answered", "rejected", "failed"}
    /\ asked \subseteq Requests
    /\ remote \in {"idle", "ringing", "accepted", "talking", "over"}
    /\ verdict \in [Invites -> {"none", "challenge", "200", "refused"}]
    /\ mishaps \subseteq Mishaps

OutInit ==
    /\ leg = "live" /\ startup = "idle" /\ cancelled = FALSE
    /\ session = "none" /\ cseq = 1 /\ tx = {}
    /\ own \in BOOLEAN /\ auth \in BOOLEAN /\ reachable \in BOOLEAN
    /\ closes = 0 /\ accepting = 0 /\ refusing = [k \in Invites |-> 0]
    /\ reports = {} /\ asked = {} /\ remote = "idle"
    /\ verdict = [k \in Invites |-> "none"]
    /\ hungUp = FALSE /\ byeOk = FALSE /\ mishaps = {}

-----------------------------------------------------------------------------
\* A closed listener cannot send either; a socket of its own is open until
\* somebody closed it.
CanSend == reachable /\ closes = 0 /\ "shut" \notin mishaps

Close == closes' = IF own /\ closes < 2 THEN closes + 1 ELSE closes

\* onAttemptRejected and markAttemptFailed end the attempt of the dial, which
\* hangs its leg up; only a registered leg is reported.
Report(outcome) ==
    IF leg = "gone" THEN UNCHANGED <<reports, leg>>
    ELSE /\ reports' = reports \cup {outcome}
         /\ leg' = IF leg = "live" THEN "ended" ELSE leg

\* finalizeOutboundSession: session, transactions of the call and socket go.
FinalizeOutboundSession ==
    /\ session' = "none"
    /\ tx' = {}
    /\ Close

-----------------------------------------------------------------------------
\* startAttempt looks the target up (resolveOutboundTarget: nobody registered
\* any more, or no address: rejected) and binds a socket unless it shares one.
StartAttempt ==
    /\ startup = "idle"
    /\ \/ startup' = "locking" /\ UNCHANGED <<reports, leg>>
       \/ startup' = "unavailable" /\ Report("rejected")
    /\ UNCHANGED <<cancelled, session, cseq, tx, closes, accepting, refusing, asked,
                   outSettings, outWorld, mishaps>>

\* Under the lock of the leg: enter outboundStartups, unless the leg ended.
RegisterStartup ==
    /\ startup = "locking"
    /\ IF leg = "live" THEN startup' = "media" /\ UNCHANGED closes
       ELSE startup' = "off" /\ Close
    /\ UNCHANGED <<leg, cancelled, session, cseq, tx, accepting, refusing, reports, asked,
                   outSettings, outWorld, mishaps>>

\* sendOutboundInvite and sendTrackedRequest: the transaction is created
\* first and dropped again when the datagram cannot be sent.
SendInvite(k) ==
    /\ IF CanSend
       THEN asked' = asked \cup {INVITE(k)} /\ tx' = tx \cup {INVITE(k)}
       ELSE UNCHANGED <<asked, tx>>
    /\ mishaps' = mishaps \cup (IF CanSend THEN {} ELSE {"unsent"})
                          \cup (IF k > 1 /\ session = "none" THEN {"twice"} ELSE {})

StartupIgnoresCancel ==
    /\ startup = "media"
    /\ startup' = "off"
    /\ session' = "inviting" /\ SendInvite(1)
    /\ IF CanSend THEN UNCHANGED <<reports, leg>> ELSE Report("failed")
    /\ UNCHANGED closes
    /\ UNCHANGED <<cancelled, cseq, accepting, refusing, outSettings, outWorld>>

\* The media endpoint is there, or could not be had.  The session replaces the
\* startup, unless the leg ended meanwhile.
InstallSession ==
    /\ startup = "media"
    /\ startup' = "off"
    /\ \/ Close /\ Report("failed") /\ UNCHANGED <<session, tx, asked, mishaps>>
       \/ IF cancelled
          THEN Close /\ UNCHANGED <<session, tx, asked, mishaps, reports, leg>>
          ELSE /\ session' = "inviting" /\ SendInvite(1)
               /\ IF CanSend THEN UNCHANGED <<reports, leg>> ELSE Report("failed")
               /\ UNCHANGED closes
    /\ UNCHANGED <<cancelled, cseq, accepting, refusing, outSettings, outWorld>>

-----------------------------------------------------------------------------
(* Responses: handleOutboundPacket and handleOutboundSessionMessage.        *)

Delivered(k) == INVITE(k) \in asked /\ verdict[k] # "none"

\* A 200 OK makes the session answered whatever it was; details of a leg that
\* is gone cannot be updated, and the handler throws.
Accepted ==
    \E k \in Invites :
       /\ verdict[k] = "200" /\ Delivered(k)
       /\ session # "none" /\ closes = 0 /\ "shut" \notin mishaps
       /\ accepting < MaxCopies
       /\ session' = "answered"
       /\ tx' = tx \ {INVITE(k)}
       /\ accepting' = IF leg = "gone" THEN accepting ELSE accepting + 1
       /\ mishaps' = mishaps \cup (IF session = "cancelling" THEN {"crossed"} ELSE {})
                             \cup (IF leg = "gone" THEN {"lost"} ELSE {})
       /\ UNCHANGED <<leg, startup, cancelled, cseq, closes, refusing, reports, asked,
                      outSettings, outWorld>>

\* Its endpoint is there: ACK, then onAttemptAnswered.  Either may fail.
AcceptEnds ==
    /\ accepting > 0
    /\ accepting' = accepting - 1
    /\ \/ /\ CanSend
          /\ asked' = asked \cup {ACK}
          /\ reports' = IF leg = "gone" THEN reports ELSE reports \cup {"answered"}
          /\ UNCHANGED mishaps
       \/ mishaps' = mishaps \cup {"lost"} /\ UNCHANGED <<asked, reports>>
    /\ UNCHANGED <<leg, startup, cancelled, session, cseq, tx, closes, refusing,
                   outSettings, outWorld>>

\* A refusal: the ACK is sent before anything is decided.
RefusalArrives ==
    \E k \in Invites :
       /\ verdict[k] \in {"challenge", "refused"} /\ Delivered(k)
       /\ session # "none" /\ closes = 0 /\ "shut" \notin mishaps
       /\ refusing[k] < MaxCopies
       /\ refusing' = [refusing EXCEPT ![k] = @ + 1]
       /\ tx' = tx \ {INVITE(k)}
       /\ UNCHANGED <<leg, startup, cancelled, session, cseq, closes, accepting, reports,
                      asked, outSettings, outWorld, mishaps>>

\* A challenge is answered once: a second one with the nonce that was used (of
\* the same INVITE, sent again) counts as a refusal, of whichever INVITE is
\* under way by then.  A session that ended while the ACK was sent is not
\* "cancelling" any more, and retries.
Retries(k) == auth /\ session # "cancelling" /\ verdict[k] = "challenge" /\ cseq = k /\ k < 3

RefusalAcked(k) ==
    /\ refusing[k] > 0
    /\ refusing' = [refusing EXCEPT ![k] = @ - 1]
    /\ IF Retries(k)
       THEN /\ cseq' = k + 1
            /\ SendInvite(k + 1)
            /\ UNCHANGED <<session, closes, reports, leg>>
       ELSE /\ FinalizeOutboundSession
            /\ IF session = "cancelling" \/ (own /\ closes > 0)
               THEN UNCHANGED <<reports, leg>>
               ELSE Report("rejected")
            /\ mishaps' = mishaps
                   \cup (IF k < cseq /\ session # "none" THEN {"stale"} ELSE {})
                   \cup (IF session = "none" THEN {"twice"} ELSE {})
            /\ UNCHANGED <<cseq, asked>>
    /\ UNCHANGED <<startup, cancelled, accepting, outSettings, outWorld>>

\* BYE of the remote party: 200 OK, the session goes, its leg is hung up.
RemoteBye ==
    /\ hungUp /\ session # "none" /\ closes = 0 /\ "shut" \notin mishaps
    /\ FinalizeOutboundSession
    /\ leg' = IF leg = "live" THEN "ended" ELSE leg
    /\ UNCHANGED <<startup, cancelled, cseq, accepting, refusing, reports, asked,
                   outSettings, outWorld, mishaps>>

\* The answer to our BYE: its transaction's onFinal closes the socket.
ByeAnswered ==
    /\ byeOk /\ BYE \in tx
    /\ tx' = tx \ {BYE}
    /\ Close
    /\ UNCHANGED <<leg, startup, cancelled, session, cseq, accepting, refusing, reports,
                   asked, outSettings, outWorld, mishaps>>

\* The time-out of a transaction.  The INVITE's runs from the moment it was
\* sent, whatever provisional responses came; a CANCEL's does nothing.
TransactionTimesOut ==
    \E t \in tx :
       /\ IF t[1] = "INVITE" /\ session # "none"
          THEN /\ FinalizeOutboundSession
               /\ Report("rejected")
               /\ mishaps' = mishaps \cup {"gaveUp"}
          ELSE /\ tx' = IF t = BYE THEN {} ELSE tx \ {t}
               /\ IF t = BYE THEN Close ELSE UNCHANGED closes
               /\ UNCHANGED <<session, reports, leg, mishaps>>
       /\ UNCHANGED <<startup, cancelled, cseq, accepting, refusing, asked,
                      outSettings, outWorld>>

-----------------------------------------------------------------------------
(* The end of the leg.                                                      *)

\* A workflow or the dial hangs up.
HangUp ==
    /\ leg = "live" /\ startup # "idle"
    /\ leg' = "ended"
    /\ UNCHANGED <<startup, cancelled, session, cseq, tx, closes, accepting, refusing,
                   reports, asked, outSettings, outWorld, mishaps>>

HangupForgetsBye ==
    /\ leg = "ended"
    /\ leg' = "told"
    /\ cancelled' = (startup = "media")
    /\ IF session = "answered" THEN FinalizeOutboundSession ELSE UNCHANGED <<session, tx, closes>>
    /\ UNCHANGED <<startup, cseq, accepting, refusing, reports, asked, outSettings, outWorld, mishaps>>

\* rejectOrHangupLeg: a startup is marked, an answered session is replaced by
\* a BYE, an INVITE under way is cancelled.  When the CANCEL cannot be sent
\* the socket goes and the session stays.
RejectOrHangupLeg ==
    /\ leg = "ended"
    /\ leg' = "told"
    /\ cancelled' = (startup = "media")
    /\ CASE startup = "media" \/ session \in {"none", "cancelling"} ->
              UNCHANGED <<session, tx, closes, asked, mishaps>>
         [] session = "answered" ->
              /\ session' = "none"
              /\ IF CanSend
                 THEN asked' = asked \cup {BYE} /\ tx' = {BYE} /\ UNCHANGED <<closes, mishaps>>
                 ELSE tx' = {} /\ Close /\ mishaps' = mishaps \cup {"unsent"} /\ UNCHANGED asked
         [] session = "inviting" ->
              /\ session' = "cancelling"
              /\ IF CanSend
                 THEN asked' = asked \cup {CANCEL} /\ tx' = tx \cup {CANCEL}
                      /\ UNCHANGED <<closes, mishaps>>
                 ELSE tx' = {} /\ Close /\ mishaps' = mishaps \cup {"unsent"} /\ UNCHANGED asked
    /\ UNCHANGED <<startup, cseq, accepting, refusing, reports, outSettings, outWorld>>

\* handleLegEnded: what is left of an answered session goes, without a BYE.
HandleLegEnded ==
    /\ leg = "told"
    /\ leg' = "cleaned"
    /\ IF startup # "media" /\ session = "answered"
       THEN FinalizeOutboundSession
       ELSE UNCHANGED <<session, tx, closes>>
    /\ UNCHANGED <<startup, cancelled, cseq, accepting, refusing, reports, asked,
                   outSettings, outWorld, mishaps>>

\* Media is cleaned up next, then the leg leaves its registry.
Removed ==
    /\ leg = "cleaned"
    /\ leg' = "gone"
    /\ UNCHANGED <<startup, cancelled, session, cseq, tx, closes, accepting, refusing,
                   reports, asked, outSettings, outWorld, mishaps>>

\* The trigger whose listener the session shares is deactivated: the socket is
\* closed and its transactions are dropped; nobody tells the session.
ListenerCloses ==
    /\ ~own /\ "shut" \notin mishaps /\ session # "none"
    /\ tx' = {}
    /\ mishaps' = mishaps \cup {"shut"}
    /\ UNCHANGED <<leg, startup, cancelled, session, cseq, closes, accepting, refusing,
                   reports, asked, outSettings, outWorld>>

\* The error event of a socket of its own: the session goes without a word to
\* the remote party.
SocketError ==
    /\ own /\ closes = 0 /\ session # "none"
    /\ session' = "none" /\ tx' = {} /\ Close
    /\ Report("rejected")
    /\ mishaps' = mishaps \cup {"shut"}
    /\ UNCHANGED <<startup, cancelled, cseq, accepting, refusing, asked, outSettings, outWorld>>

-----------------------------------------------------------------------------
(* The remote party.  It answers any INVITE it got, refuses or accepts, and *)
(* owes nothing.                                                            *)

Current == {k \in Invites : INVITE(k) \in asked /\ verdict[k] = "none"}
LocalSide == <<leg, startup, cancelled, session, cseq, tx, closes, accepting, refusing,
               reports, asked, outSettings, mishaps>>

Challenges ==
    /\ remote = "idle"
    /\ \E k \in Current : verdict' = [verdict EXCEPT ![k] = "challenge"]
    /\ UNCHANGED <<LocalSide, remote, hungUp, byeOk>>

Rings ==
    /\ remote = "idle" /\ Current # {}
    /\ remote' = "ringing"
    /\ UNCHANGED <<LocalSide, verdict, hungUp, byeOk>>

\* 486 and the like, or 487 after a CANCEL.
Refuses ==
    /\ remote = "ringing"
    /\ remote' = "over"
    /\ \E k \in Current : verdict' = [verdict EXCEPT ![k] = "refused"]
    /\ UNCHANGED <<LocalSide, hungUp, byeOk>>

PicksUp ==
    /\ remote = "ringing"
    /\ remote' = "accepted"
    /\ \E k \in Current : verdict' = [verdict EXCEPT ![k] = "200"]
    /\ UNCHANGED <<LocalSide, hungUp, byeOk>>

HearsAck ==
    /\ remote = "accepted" /\ ACK \in asked
    /\ remote' = "talking"
    /\ UNCHANGED <<LocalSide, verdict, hungUp, byeOk>>

HearsBye ==
    /\ remote \in {"accepted", "talking"} /\ BYE \in asked
    /\ remote' = "over" /\ byeOk' = TRUE
    /\ UNCHANGED <<LocalSide, verdict, hungUp>>

Leaves ==
    /\ remote \in {"accepted", "talking"}
    /\ remote' = "over" /\ hungUp' = TRUE
    /\ UNCHANGED <<LocalSide, verdict, byeOk>>

RemoteSide == Challenges \/ Rings \/ Refuses \/ PicksUp \/ HearsAck \/ HearsBye \/ Leaves

\* What the daemon does by itself: continuations, timers and the clean-up.
OutSystem ==
    \/ StartAttempt \/ RegisterStartup \/ InstallSession
    \/ AcceptEnds \/ (\E k \in Invites : RefusalAcked(k))
    \/ TransactionTimesOut
    \/ RejectOrHangupLeg \/ HandleLegEnded \/ Removed

OutNext ==
    \/ OutSystem
    \/ Accepted \/ RefusalArrives \/ RemoteBye \/ ByeAnswered
    \/ HangUp \/ ListenerCloses \/ SocketError
    \/ RemoteSide

OutFairness == WF_outVars(OutSystem)
OutSpec == OutInit /\ [][OutNext]_outVars /\ OutFairness

-----------------------------------------------------------------------------
\* Nobody is left on the line: when the leg is gone and nothing is under way,
\* a remote party that picked up was sent a BYE, unless one of the mishaps
\* that the code has no answer to came in between.
OutIdle == startup = "off" /\ accepting = 0 /\ \A k \in Invites : refusing[k] = 0
RemoteIsTold ==
    (leg = "gone" /\ OutIdle /\ session = "none" /\ remote \in {"accepted", "talking"})
        => BYE \in asked \/ mishaps # {}

\* A session that waits for an answer has a transaction whose time-out ends
\* it, or a handler at work; only a lost socket takes that away.
WaitsUnderATimer ==
    session \in {"inviting", "cancelling"} =>
        \/ \E t \in tx : t[1] = "INVITE"
        \/ accepting > 0 \/ \E k \in Invites : refusing[k] > 0
        \/ mishaps \cap {"shut", "unsent"} # {}

\* A socket of its own is closed once nobody needs it, and only then; two
\* copies of one refusal close it twice, which throws.
SocketFollowsSession ==
    own => /\ closes > 1 => mishaps \cap {"twice", "unsent"} # {}
           /\ closes > 0 => session = "none" \/ "unsent" \in mishaps
           /\ (OutIdle /\ session = "none" /\ tx = {}) => closes > 0

\* What startAttempt and its handlers owe the remote party and the socket.
OutboundSafe == OutTypeOK /\ RemoteIsTold /\ WaitsUnderATimer /\ SocketFollowsSession

\* handleLegEnded, rejectOrHangupLeg and the time-outs between them: an attempt
\* whose leg is gone leaves no session behind.
SessionEnds == []<>(leg = "gone" => session = "none" \/ mishaps # {})
=============================================================================
