------------------------------- MODULE SipProofs -------------------------------
(***************************************************************************)
(* What the relay over a bridge, the triggers of a trunk and an attempt of *)
(* a dial keep true, for any number of provisional responses, of hosts and *)
(* of copies of a response.                                                *)
(*                                                                         *)
(* AnswerCrosses speaks of a moment at which nothing is under way.  What   *)
(* makes it inductive is who still owes the caller its 200 OK before that  *)
(* moment: call.bridge that did not look yet, or one of the three          *)
(* answerers (AnswerArrives).  An answerer may skip the sending because    *)
(* the session is marked answered; then another one is sending             *)
(* (AnswerOnItsWay).                                                       *)
(*                                                                         *)
(* The trunk that is active is never the host that unregisters             *)
(* (ServesNoUnregister), although both may be made from one configuration  *)
(* and share a socket; therefore the end of an unregister disturbs neither *)
(* the registration nor the timer of the trunk.  A host that unregisters   *)
(* has no timer that would register it again (PendingUnregisters).         *)
(*                                                                         *)
(* RemoteIsTold speaks of an attempt at rest too.  What is kept at every   *)
(* moment is that a session goes only when its last INVITE was answered,   *)
(* with a BYE to a party that picked up (NobodyIsLeft), for which the      *)
(* INVITEs must go out one by one (InvitesInOrder).                        *)
(***************************************************************************)
EXTENDS SipTrunks, BridgeRelay, SipOutbound, TLAPS

-----------------------------------------------------------------------------
(* The relay.                                                              *)

Unheard == heard \in {"nothing", "early"}
Sending == \E a \in Answerers : answerer[a] = "sending"
Answering == \E a \in Answerers : answerer[a] # "idle"

\* A session is marked answered before its 200 OK went out; somebody sends it.
AnswerOnItsWay == dialog.answered /\ Unheard /\ "half" \notin slips => Sending

\* So does the status of the leg of an answerer that relied on that mark.
StatusIsEarned ==
    callerLeg.status = "answered" /\ Unheard /\ "half" \notin slips => Sending

\* The caller was let go, or left, only with a leg that is being finalized.
GoneIsEnding ==
    heard \in {"refused", "bye", "left"} \/ callerLeg.status = "ended"
        \/ callerLeg.known = FALSE \/ dialog.kept = FALSE => callerLeg.ending

\* A caller who was answered counts as answered, unless a workflow rang it.
TalkersAreAnswered ==
    heard = "ok" /\ callerLeg.known =>
        callerLeg.status \in {"answered", "ended"} \/ "demoted" \in slips

\* The answer of a callee who is bridged was heard, or somebody is on it, unless
\* the dial kept it from the relay.
AnswerArrives ==
    joined /\ callee.known /\ callee.state = "answered" /\ ~callerLeg.ending
        /\ {"half", "unrelayed"} \cap slips = {} => heard = "ok" \/ syncing \/ Answering

\* The part of the invariant that is about the caller's side alone.
CallerInv == AnswerOnItsWay /\ StatusIsEarned /\ GoneIsEnding /\ TalkersAreAnswered
             /\ AnsweredIsHeard /\ RefusalSparesTalkers

\* AnswerCrosses is AnswerArrives at a moment at which nobody is on it.
BrInv == BrTypeOK /\ CallerInv /\ AnswerArrives

\* The types of the caller's side.
CallerOK ==
    /\ callerLeg \in [status : {"trying", "ringing", "answered", "ended"},
                      known : BOOLEAN, ending : BOOLEAN]
    /\ dialog \in [kept : BOOLEAN, answered : BOOLEAN, sdp : BOOLEAN]
    /\ answerer \in [Answerers -> {"idle", "media", "sending"}]
    /\ heard \in {"nothing", "early", "ok", "refused", "bye", "left"}
    /\ slips \subseteq Slips

\* The types of the callee's side, of the bridge and of its commands.
CalleeOK ==
    /\ callee \in [state : {"none", "ringing", "progress", "answered", "rejected"},
                   known : BOOLEAN, ending : BOOLEAN]
    /\ invited \in [provisional : 0 .. MaxProvisional,
                    final : {"awaited", "media", "answered", "failed"}]
BridgeOK ==
    /\ earlyMedia \in BOOLEAN /\ joined \in BOOLEAN /\ syncing \in BOOLEAN
    /\ dial \in {"open", "over", "torn"}

\* What a step of the caller's side hands on to AnswerArrives.
CarriesOn ==
    /\ ~callerLeg'.ending => ~callerLeg.ending
    /\ \A flaw \in {"half", "unrelayed"} : flaw \notin slips' => flaw \notin slips
    /\ ~callerLeg'.ending /\ "half" \notin slips' /\ (heard = "ok" \/ Answering)
         => heard' = "ok" \/ Answering'

-----------------------------------------------------------------------------
\* call.ringing, or a ringing that is relayed: an answered caller is demoted.
LEMMA RingLemma ==
    ASSUME CallerOK, CallerInv, Ring, callerLeg.status # "ended"
    PROVE  CallerOK' /\ CallerInv' /\ CarriesOn
<1>1. /\ heard' = heard \/ (heard = "nothing" /\ heard' = "early")
      /\ UNCHANGED <<dialog, answerer>>
  BY DEF Ring, HearEarly
<1>2. callerLeg' = [callerLeg EXCEPT !.status = "ringing"]
  BY DEF Ring
<1>3. /\ callerLeg' \in [status : {"trying", "ringing", "answered", "ended"},
                         known : BOOLEAN, ending : BOOLEAN]
      /\ callerLeg'.status = "ringing" /\ callerLeg'.known = callerLeg.known
      /\ callerLeg'.ending = callerLeg.ending
  BY <1>2 DEF CallerOK
<1>4. slips' = slips \cup IF callerLeg.status = "answered" THEN {"demoted"} ELSE {}
  BY DEF Ring
<1>5. slips' \subseteq Slips
  BY <1>4 DEF CallerOK, Slips
<1>6. CallerOK'
  BY <1>1, <1>3, <1>5 DEF CallerOK
<1>7. AnswerOnItsWay' /\ StatusIsEarned'
  BY <1>1, <1>3, <1>4 DEF CallerInv, AnswerOnItsWay, StatusIsEarned, Unheard, Sending
<1>8. GoneIsEnding' /\ TalkersAreAnswered'
  BY <1>1, <1>3, <1>4 DEF CallerOK, CallerInv, GoneIsEnding, TalkersAreAnswered
<1>9. AnsweredIsHeard' /\ RefusalSparesTalkers'
  BY <1>1, <1>3, <1>4 DEF CallerInv, AnsweredIsHeard, RefusalSparesTalkers
<1>10. CarriesOn
  BY <1>1, <1>3, <1>4 DEF CarriesOn, Answering
<1>11. QED
  BY <1>6, <1>7, <1>8, <1>9, <1>10 DEF CallerInv

\* A session that progresses changes what the caller hears, if anything.
LEMMA ProgressLemma ==
    ASSUME CallerOK, CallerInv, Progress
    PROVE  CallerOK' /\ CallerInv' /\ CarriesOn
<1>1. /\ heard' = heard \/ (heard = "nothing" /\ heard' = "early")
      /\ UNCHANGED <<callerLeg, dialog, answerer, slips>>
  BY DEF Progress, HearEarly
<1>2. CallerOK'
  BY <1>1 DEF CallerOK
<1>3. AnswerOnItsWay' /\ StatusIsEarned' /\ GoneIsEnding' /\ TalkersAreAnswered'
  BY <1>1 DEF CallerInv, AnswerOnItsWay, StatusIsEarned, GoneIsEnding, TalkersAreAnswered,
              Unheard, Sending
<1>4. AnsweredIsHeard' /\ RefusalSparesTalkers' /\ CarriesOn
  BY <1>1 DEF CallerInv, AnsweredIsHeard, RefusalSparesTalkers, CarriesOn, Answering
<1>5. QED
  BY <1>2, <1>3, <1>4 DEF CallerInv

\* answerLeg begins: it is sending, it waits for its endpoint, or it finds the
\* session marked answered and relies on whoever marked it.
LEMMA AnswerLemma ==
    ASSUME CallerOK, CallerInv, NEW a \in Answerers, Answer(a)
    PROVE  /\ CallerOK' /\ CallerInv' /\ CarriesOn
           /\ ~callerLeg'.ending /\ "half" \notin slips' => heard' = "ok" \/ Answering'
<1>1. UNCHANGED heard
  BY DEF Answer
<1>2. CASE dialog.kept /\ dialog.answered
  <2>1. /\ callerLeg' = [callerLeg EXCEPT !.status = "answered"]
        /\ slips' = slips \cup IF heard \in {"nothing", "early"} THEN {"mistaken"} ELSE {}
        /\ UNCHANGED <<dialog, answerer>>
    BY <1>2 DEF Answer
  <2>2. /\ callerLeg' \in [status : {"trying", "ringing", "answered", "ended"},
                           known : BOOLEAN, ending : BOOLEAN]
        /\ callerLeg'.status = "answered" /\ callerLeg'.known = callerLeg.known
        /\ callerLeg'.ending = callerLeg.ending
    BY <2>1 DEF CallerOK
  <2>3. slips' \subseteq Slips
    BY <2>1 DEF CallerOK, Slips
  <2>4. CallerOK'
    BY <1>1, <2>1, <2>2, <2>3 DEF CallerOK
  <2>5. Unheard /\ "half" \notin slips => Sending
    BY <1>2 DEF CallerInv, AnswerOnItsWay
  <2>6. AnswerOnItsWay' /\ StatusIsEarned'
    BY <1>1, <2>1, <2>5 DEF AnswerOnItsWay, StatusIsEarned, Unheard, Sending
  <2>7. GoneIsEnding' /\ TalkersAreAnswered'
    BY <1>1, <2>1, <2>2 DEF CallerInv, GoneIsEnding, TalkersAreAnswered
  <2>8. AnsweredIsHeard' /\ RefusalSparesTalkers'
    BY <1>1, <2>1, <2>2 DEF CallerInv, AnsweredIsHeard, RefusalSparesTalkers
  <2>9. CarriesOn
    BY <1>1, <2>1, <2>2 DEF CarriesOn, Answering
  <2>10. ~callerLeg'.ending /\ "half" \notin slips' => heard' = "ok" \/ Answering'
    <3>1. Sending => Answering
      BY DEF Sending, Answering
    <3>2. ~callerLeg.ending => heard \in {"nothing", "early", "ok"}
      BY DEF CallerOK, CallerInv, GoneIsEnding
    <3>3. "half" \notin slips' => "half" \notin slips
      BY <2>1
    <3>4. QED
      BY <1>1, <2>1, <2>2, <2>5, <3>1, <3>2, <3>3 DEF Unheard, Answering
  <2>11. QED
    BY <2>4, <2>6, <2>7, <2>8, <2>9, <2>10 DEF CallerInv
<1>3. CASE ~(dialog.kept /\ dialog.answered)
  <2>1. /\ answerer' = IF ~dialog.kept THEN answerer
                       ELSE [answerer EXCEPT ![a] = IF dialog.sdp THEN "sending" ELSE "media"]
        /\ dialog' = [dialog EXCEPT !.answered = @ \/ (dialog.kept /\ dialog.sdp)]
        /\ UNCHANGED <<callerLeg, slips>>
    BY <1>3 DEF Answer
  <2>2. /\ dialog' \in [kept : BOOLEAN, answered : BOOLEAN, sdp : BOOLEAN]
        /\ dialog'.kept = dialog.kept
        /\ dialog'.answered => dialog.answered \/ (dialog.kept /\ dialog.sdp)
    BY <2>1 DEF CallerOK
  <2>3. answerer' \in [Answerers -> {"idle", "media", "sending"}]
    BY <2>1 DEF CallerOK
  <2>4. CallerOK'
    BY <1>1, <2>1, <2>2, <2>3 DEF CallerOK
  <2>5. answerer[a] = "idle"
    BY DEF Answer
  <2>6. \A b \in Answerers : answerer[b] # "idle" => answerer'[b] = answerer[b]
    BY <2>1, <2>5 DEF CallerOK
  <2>7. (Sending => Sending') /\ (Answering => Answering')
    BY <2>6, <2>3 DEF Sending, Answering
  <2>8. dialog.kept /\ dialog.sdp => Sending'
    BY <2>1 DEF Sending, CallerOK
  <2>9. dialog.kept => Answering'
    <3>1. dialog.kept => answerer'[a] # "idle"
      BY <2>1 DEF CallerOK
    <3>2. QED
      BY <3>1 DEF Answering
  <2>10. AnswerOnItsWay' /\ StatusIsEarned'
    BY <1>1, <2>1, <2>2, <2>7, <2>8 DEF CallerInv, AnswerOnItsWay, StatusIsEarned, Unheard
  <2>11. GoneIsEnding' /\ TalkersAreAnswered'
    BY <1>1, <2>1, <2>2 DEF CallerInv, GoneIsEnding, TalkersAreAnswered, CallerOK
  <2>12. AnsweredIsHeard' /\ RefusalSparesTalkers'
    BY <1>1, <2>1 DEF CallerInv, AnsweredIsHeard, RefusalSparesTalkers
  <2>13. CarriesOn
    BY <1>1, <2>1, <2>7 DEF CarriesOn
  <2>14. ~callerLeg'.ending /\ "half" \notin slips' => heard' = "ok" \/ Answering'
    BY <2>1, <2>9 DEF CallerInv, GoneIsEnding, CallerOK
  <2>15. QED
    BY <2>4, <2>10, <2>11, <2>12, <2>13, <2>14 DEF CallerInv
<1>4. QED
  BY <1>2, <1>3

\* The leg of the caller is ended: by a workflow, or by a refusal that is
\* relayed to a caller who waits.
LEMMA EndCallerLemma ==
    ASSUME CallerOK, CallerInv, EndCaller, slips' \subseteq Slips,
           slips \subseteq slips', "mistaken" \in slips' => "mistaken" \in slips,
           RefusalSparesTalkers'
    PROVE  CallerOK' /\ CallerInv' /\ callerLeg'.ending
<1>1. /\ callerLeg' = [callerLeg EXCEPT !.status = "ended", !.ending = TRUE]
      /\ UNCHANGED <<dialog, answerer, heard>>
  BY DEF EndCaller
<1>2. /\ callerLeg' \in [status : {"trying", "ringing", "answered", "ended"},
                         known : BOOLEAN, ending : BOOLEAN]
      /\ callerLeg'.status = "ended" /\ callerLeg'.ending
  BY <1>1 DEF CallerOK
<1>3. CallerOK'
  BY <1>1, <1>2 DEF CallerOK
<1>4. AnswerOnItsWay' /\ StatusIsEarned' /\ AnsweredIsHeard'
  BY <1>1, <1>2 DEF CallerInv, AnswerOnItsWay, StatusIsEarned, AnsweredIsHeard, Unheard, Sending
<1>5. GoneIsEnding' /\ TalkersAreAnswered'
  BY <1>2 DEF GoneIsEnding, TalkersAreAnswered
<1>6. QED
  BY <1>2, <1>3, <1>4, <1>5 DEF CallerInv

\* What the relay does to the caller; an answer that is relayed is on its way
\* or was heard.
LEMMA RelayLemma ==
    ASSUME CallerOK, CallerInv, NEW event, NEW a \in Answerers, Relay(event, a)
    PROVE  /\ CallerOK' /\ CallerInv' /\ CarriesOn
           /\ event = "answered" /\ callerLeg.known /\ ~callerLeg'.ending
                /\ "half" \notin slips' => heard' = "ok" \/ Answering'
<1>1. CASE ~Listens
  <2>1. UNCHANGED callerState
    BY <1>1 DEF Relay
  <2>2. UNCHANGED <<callerLeg, dialog, answerer, heard, slips>>
    BY <2>1 DEF callerState
  <2>3. CallerOK' /\ CallerInv' /\ CarriesOn
    BY <2>2 DEF CallerOK, CallerInv, CarriesOn, AnswerOnItsWay, StatusIsEarned, GoneIsEnding,
                TalkersAreAnswered, AnsweredIsHeard, RefusalSparesTalkers, Unheard, Sending,
                Answering
  <2>4. callerLeg.known /\ ~callerLeg.ending => callerLeg.status = "answered"
    BY <1>1 DEF Listens, CallerInv, GoneIsEnding
  <2>5. ~callerLeg.ending => heard \in {"nothing", "early", "ok"}
    BY DEF CallerOK, CallerInv, GoneIsEnding
  <2>6. Sending => Answering
    BY DEF Sending, Answering
  <2>7. callerLeg.known /\ ~callerLeg.ending /\ "half" \notin slips
          => heard = "ok" \/ Answering
    BY <2>4, <2>5, <2>6 DEF CallerInv, StatusIsEarned, Unheard
  <2>8. QED
    BY <2>2, <2>3, <2>7 DEF Answering
<1>2. CASE Listens /\ event = "ringing" /\ Ring
  BY <1>2, RingLemma DEF Listens
<1>3. CASE Listens /\ event = "progress" /\ Progress
  BY <1>3, ProgressLemma
<1>4. CASE Listens /\ event = "answered" /\ Answer(a)
  BY <1>4, AnswerLemma
<1>5. CASE /\ Listens /\ event = "rejected" /\ EndCaller
           /\ slips' = slips \cup IF heard = "ok" THEN {"cut"} ELSE {}
  <2>1. RefusalSparesTalkers'
    BY <1>5 DEF CallerInv, RefusalSparesTalkers, TalkersAreAnswered, Listens
  <2>2. slips' \subseteq Slips /\ slips \subseteq slips'
        /\ ("mistaken" \in slips' => "mistaken" \in slips)
    BY <1>5 DEF CallerOK, Slips
  <2>3. CallerOK' /\ CallerInv' /\ callerLeg'.ending
    BY <1>5, <2>1, <2>2, EndCallerLemma
  <2>4. CarriesOn
    BY <2>2, <2>3 DEF CarriesOn
  <2>5. QED
    BY <2>3, <2>4
<1>6. QED
  BY <1>1, <1>2, <1>3, <1>4, <1>5 DEF Relay

-----------------------------------------------------------------------------
\* The invariant, by sides.
LEMMA BrInvLemma ==
    /\ BrInv <=> CalleeOK /\ BridgeOK /\ CallerOK /\ CallerInv /\ AnswerArrives
    /\ BrInv => RelaySafe
<1>1. BrTypeOK <=> CalleeOK /\ BridgeOK /\ CallerOK
  BY DEF BrTypeOK, CalleeOK, BridgeOK, CallerOK
<1>2. AnswerArrives => AnswerCrosses
  BY DEF AnswerArrives, AnswerCrosses, Answering
<1>3. QED
  BY <1>1, <1>2 DEF BrInv, CallerInv, RelaySafe

\* A step that leaves the caller's side alone.
LEMMA CallerRests ==
    ASSUME CallerOK, CallerInv, UNCHANGED callerState
    PROVE  CallerOK' /\ CallerInv' /\ CarriesOn
<1>1. UNCHANGED <<callerLeg, dialog, answerer, heard, slips>>
  BY DEF callerState
<1>2. QED
  BY <1>1 DEF CallerOK, CallerInv, CarriesOn, AnswerOnItsWay, StatusIsEarned, GoneIsEnding,
              TalkersAreAnswered, AnsweredIsHeard, RefusalSparesTalkers, Unheard, Sending,
              Answering

\* A step of the caller's side while bridge, sync and callee stay.
LEMMA ArrivesAlone ==
    ASSUME BrInv, CarriesOn, UNCHANGED <<callee, joined, syncing>>
    PROVE  AnswerArrives'
BY BrInvLemma DEF CarriesOn, AnswerArrives

\* A step that makes nobody deaf: the bridge or the callee is gone after it, or
\* the callee's state is another.
LEMMA ArrivesElsewhere ==
    ASSUME BrInv, CarriesOn, UNCHANGED syncing,
           \/ joined' = FALSE
           \/ joined' = joined /\ (callee'.known => callee.known)
                              /\ (callee'.known /\ callee'.state = "answered"
                                    => callee.state = "answered")
    PROVE  AnswerArrives'
BY BrInvLemma DEF CarriesOn, AnswerArrives

\* What the callee's phone said is relayed before anything else happens.
LEMMA ReportsLemma ==
    ASSUME BrInv, NEW event \in {"ringing", "progress", "answered", "rejected"},
           Reports(event)
    PROVE  /\ CallerOK' /\ CallerInv' /\ AnswerArrives'
           /\ callee' \in [state : {"none", "ringing", "progress", "answered", "rejected"},
                           known : BOOLEAN, ending : BOOLEAN]
           /\ UNCHANGED <<joined, syncing>>
<1>1. CalleeOK /\ BridgeOK /\ CallerOK /\ CallerInv /\ AnswerArrives
  BY BrInvLemma
<1>2. UNCHANGED <<joined, syncing>>
  BY DEF Reports
<1>3. /\ callee' \in [state : {"none", "ringing", "progress", "answered", "rejected"},
                      known : BOOLEAN, ending : BOOLEAN]
      /\ callee'.known = callee.known
      /\ callee.known => callee'.state = event
  BY <1>1 DEF Reports, CalleeOK
<1>4. CASE joined /\ callee.known
  <2>1. Relay(event, "relay") /\ "relay" \in Answerers
    BY <1>4 DEF Reports, Answerers
  <2>2. /\ CallerOK' /\ CallerInv' /\ CarriesOn
        /\ event = "answered" /\ callerLeg.known /\ ~callerLeg'.ending
             /\ "half" \notin slips' => heard' = "ok" \/ Answering'
    BY <1>1, <2>1, RelayLemma
  <2>3. ~callerLeg'.ending => callerLeg.known
    BY <1>1, <2>2 DEF CarriesOn, CallerInv, GoneIsEnding, CallerOK
  <2>4. AnswerArrives'
    BY <1>3, <1>4, <2>2, <2>3 DEF AnswerArrives
  <2>5. QED
    BY <1>2, <1>3, <2>2, <2>4
<1>5. CASE ~(joined /\ callee.known)
  <2>1. UNCHANGED callerState
    BY <1>5 DEF Reports
  <2>2. CallerOK' /\ CallerInv' /\ CarriesOn
    BY <1>1, <2>1, CallerRests
  <2>3. AnswerArrives'
    BY <1>2, <1>3, <1>5 DEF AnswerArrives
  <2>4. QED
    BY <1>2, <1>3, <2>2, <2>3
<1>6. QED
  BY <1>4, <1>5

\* The phone of the callee: its responses, and the media they wait for.
LEMMA CalleePhoneStep ==
    ASSUME BrInv,
           \/ \E e \in {"ringing", "progress"} : Provisional(e)
           \/ EarlyMedia \/ EarlyMediaReady \/ Accept \/ AcceptReady
    PROVE  BrInv'
<1>1. CalleeOK /\ BridgeOK /\ CallerOK /\ CallerInv
  BY BrInvLemma
<1>. DEFINE Invitations == [provisional : 0 .. MaxProvisional,
                            final : {"awaited", "media", "answered", "failed"}]
<1>2. ASSUME invited.provisional < MaxProvisional,
             invited' = [invited EXCEPT !.provisional = @ + 1]
      PROVE  invited' \in Invitations
  <2>1. invited.provisional \in 0 .. MaxProvisional
    BY <1>1 DEF CalleeOK
  <2>2. invited.provisional + 1 \in 0 .. MaxProvisional
    BY <2>1, <1>2, MaxProvisionalAssumption
  <2>3. QED
    BY <1>1, <1>2, <2>2 DEF CalleeOK
<1>3. ASSUME NEW f \in {"media", "answered", "failed"}, invited' = [invited EXCEPT !.final = f]
      PROVE  invited' \in Invitations
  BY <1>1, <1>3 DEF CalleeOK
<1>4. ASSUME UNCHANGED <<callee, joined, syncing, callerState>>, invited' \in Invitations,
             earlyMedia' \in BOOLEAN, dial' \in {"open", "over", "torn"}
      PROVE  BrInv'
  <2>1. CallerOK' /\ CallerInv' /\ CarriesOn
    BY <1>1, <1>4, CallerRests
  <2>2. AnswerArrives'
    BY <1>4, <2>1, ArrivesAlone
  <2>3. CalleeOK' /\ BridgeOK'
    BY <1>1, <1>4 DEF CalleeOK, BridgeOK
  <2>4. QED
    BY <2>1, <2>2, <2>3, BrInvLemma DEF BrInv, BrTypeOK, CalleeOK, BridgeOK, CallerOK
<1>5. ASSUME NEW e \in {"ringing", "progress", "answered", "rejected"}, Reports(e),
             invited' \in Invitations, earlyMedia' \in BOOLEAN, dial' \in {"open", "over", "torn"}
      PROVE  BrInv'
  <2>1. /\ CallerOK' /\ CallerInv' /\ AnswerArrives'
        /\ callee' \in [state : {"none", "ringing", "progress", "answered", "rejected"},
                        known : BOOLEAN, ending : BOOLEAN]
        /\ UNCHANGED <<joined, syncing>>
    BY <1>5, ReportsLemma
  <2>2. CalleeOK' /\ BridgeOK'
    BY <1>1, <1>5, <2>1 DEF CalleeOK, BridgeOK
  <2>3. QED
    BY <2>1, <2>2 DEF BrInv, BrTypeOK, CalleeOK, BridgeOK, CallerOK
<1>6. CASE \E e \in {"ringing", "progress"} : Provisional(e)
  <2>1. PICK e \in {"ringing", "progress"} : Provisional(e)
    BY <1>6
  <2>2. /\ Reports(e) /\ invited' \in Invitations /\ earlyMedia' \in BOOLEAN
        /\ dial' \in {"open", "over", "torn"}
    BY <1>1, <1>2, <2>1 DEF Provisional, BridgeOK
  <2>3. QED
    BY <1>5, <2>2
<1>7. CASE EarlyMedia
  BY <1>1, <1>2, <1>4, <1>7 DEF EarlyMedia, BridgeOK
<1>8. CASE EarlyMediaReady
  <2>1. /\ invited' \in Invitations /\ earlyMedia' \in BOOLEAN
        /\ dial' \in {"open", "over", "torn"}
    BY <1>1, <1>8 DEF EarlyMediaReady, CalleeOK, BridgeOK
  <2>2. QED
    BY <1>4, <1>5, <1>8, <2>1 DEF EarlyMediaReady
<1>9. CASE Accept
  BY <1>1, <1>3, <1>4, <1>9 DEF Accept, BridgeOK
<1>10. CASE AcceptReady
  <2>1. earlyMedia' \in BOOLEAN /\ dial' \in {"open", "over", "torn"}
    BY <1>1, <1>10 DEF AcceptReady, BridgeOK, MarksWinner, ThrowsAtLoser
  <2>2. CASE /\ invited' = [invited EXCEPT !.final = "answered"]
             /\ callee.known /\ ThrowsAtLoser
             /\ callee' = [callee EXCEPT !.state = "answered"]
             /\ slips' = IF joined THEN slips \cup {"unrelayed"} ELSE slips
             /\ UNCHANGED <<joined, syncing, callerLeg, dialog, answerer, heard>>
    <3>1. slips' \subseteq Slips /\ (slips' = slips \/ slips' = slips \cup {"unrelayed"})
      BY <1>1, <2>2 DEF CallerOK, Slips
    <3>2. CallerOK'
      BY <1>1, <2>2, <3>1 DEF CallerOK
    <3>3. AnswerOnItsWay' /\ StatusIsEarned' /\ GoneIsEnding'
      BY <1>1, <2>2, <3>1 DEF CallerInv, AnswerOnItsWay, StatusIsEarned, GoneIsEnding, Unheard,
         Sending
    <3>4. TalkersAreAnswered' /\ AnsweredIsHeard' /\ RefusalSparesTalkers'
      BY <1>1, <2>2, <3>1 DEF CallerInv, TalkersAreAnswered, AnsweredIsHeard,
         RefusalSparesTalkers
    <3>5. AnswerArrives'
      BY <2>2 DEF AnswerArrives
    <3>6. CalleeOK' /\ BridgeOK'
      <4>1. invited' \in Invitations
        BY <1>3, <2>2
      <4>2. callee' \in [state : {"none", "ringing", "progress", "answered", "rejected"},
                         known : BOOLEAN, ending : BOOLEAN]
        BY <1>1, <2>2 DEF CalleeOK
      <4>3. QED
        BY <1>1, <2>1, <2>2, <4>1, <4>2 DEF CalleeOK, BridgeOK
    <3>7. QED
      BY <3>2, <3>3, <3>4, <3>5, <3>6 DEF CallerInv, BrInv, BrTypeOK, CalleeOK, BridgeOK,
         CallerOK
  <2>3. CASE \/ Reports("answered") /\ invited' = [invited EXCEPT !.final = "answered"]
             \/ /\ UNCHANGED <<callee, joined, syncing, callerState>>
                /\ invited' = [invited EXCEPT !.final = "failed"]
    BY <1>3, <1>4, <1>5, <2>1, <2>3
  <2>4. QED
    BY <1>10, <2>2, <2>3 DEF AcceptReady
<1>11. QED
  BY <1>6, <1>7, <1>8, <1>9, <1>10

\* The end of the callee's leg: a refusal is relayed, anything else is not.
LEMMA CalleeEndStep ==
    ASSUME BrInv, CalleeRejected \/ CalleeLeaves \/ CalleeRemoved
    PROVE  BrInv'
<1>1. CalleeOK /\ BridgeOK /\ CallerOK /\ CallerInv
  BY BrInvLemma
<1>2. CASE CalleeRejected
  <2>1. Reports("rejected") /\ UNCHANGED <<invited, earlyMedia, dial>>
    BY <1>2 DEF CalleeRejected
  <2>2. /\ CallerOK' /\ CallerInv' /\ AnswerArrives'
        /\ callee' \in [state : {"none", "ringing", "progress", "answered", "rejected"},
                        known : BOOLEAN, ending : BOOLEAN]
        /\ UNCHANGED <<joined, syncing>>
    BY <2>1, ReportsLemma
  <2>3. CalleeOK' /\ BridgeOK'
    BY <1>1, <2>1, <2>2 DEF CalleeOK, BridgeOK
  <2>4. QED
    BY <2>2, <2>3 DEF BrInv, BrTypeOK, CalleeOK, BridgeOK, CallerOK
<1>3. CASE CalleeLeaves \/ CalleeRemoved
  <2>1. UNCHANGED <<invited, earlyMedia, dial, syncing, callerState>>
    BY <1>3 DEF CalleeLeaves, CalleeRemoved
  <2>2. CallerOK' /\ CallerInv' /\ CarriesOn
    BY <1>1, <2>1, CallerRests
  <2>3. /\ callee' \in [state : {"none", "ringing", "progress", "answered", "rejected"},
                        known : BOOLEAN, ending : BOOLEAN]
        /\ callee'.state = callee.state /\ (callee'.known => callee.known)
        /\ joined' = FALSE \/ joined' = joined
    BY <1>1, <1>3 DEF CalleeLeaves, CalleeRemoved, CalleeOK
  <2>4. AnswerArrives'
    BY <2>1, <2>2, <2>3, ArrivesElsewhere
  <2>5. CalleeOK' /\ BridgeOK'
    BY <1>1, <2>1, <2>3 DEF CalleeOK, BridgeOK
  <2>6. QED
    BY <2>2, <2>4, <2>5 DEF BrInv, BrTypeOK, CalleeOK, BridgeOK, CallerOK
<1>4. QED
  BY <1>2, <1>3

\* answerLeg goes on when its endpoint is there, and ends when the 200 OK is
\* out or could not be sent.
LEMMA AnswererStep ==
    ASSUME BrInv, NEW a \in Answerers, MediaForAnswer(a) \/ AnswerSent(a)
    PROVE  BrInv'
<1>1. CalleeOK /\ BridgeOK /\ CallerOK /\ CallerInv
  BY BrInvLemma
<1>2. UNCHANGED <<callee, invited, earlyMedia, dial, joined, syncing>>
  BY DEF MediaForAnswer, AnswerSent, calleeVars
<1>3. CalleeOK' /\ BridgeOK'
  BY <1>1, <1>2 DEF CalleeOK, BridgeOK
<1>4. SUFFICES CallerOK' /\ CallerInv' /\ CarriesOn
  BY <1>2, <1>3, ArrivesAlone DEF BrInv, BrTypeOK, CalleeOK, BridgeOK, CallerOK
<1>5. CASE /\ MediaForAnswer(a)
           /\ dialog' = [dialog EXCEPT !.sdp = TRUE, !.answered = TRUE]
           /\ answerer' = [answerer EXCEPT ![a] = "sending"]
           /\ UNCHANGED slips
  <2>1. UNCHANGED <<callerLeg, heard, slips>>
    BY <1>5 DEF MediaForAnswer
  <2>2. dialog' \in [kept : BOOLEAN, answered : BOOLEAN, sdp : BOOLEAN]
        /\ dialog'.kept = dialog.kept
    BY <1>1, <1>5 DEF CallerOK
  <2>3. answerer' \in [Answerers -> {"idle", "media", "sending"}] /\ answerer'[a] = "sending"
    BY <1>1, <1>5 DEF CallerOK
  <2>4. Sending' /\ Answering'
    BY <2>3 DEF Sending, Answering
  <2>5. CallerOK'
    BY <1>1, <2>1, <2>2, <2>3 DEF CallerOK
  <2>6. CallerInv'
    BY <1>1, <2>1, <2>2, <2>4 DEF CallerInv, AnswerOnItsWay, StatusIsEarned, GoneIsEnding,
       TalkersAreAnswered, AnsweredIsHeard, RefusalSparesTalkers
  <2>7. CarriesOn
    BY <2>1, <2>4 DEF CarriesOn
  <2>8. QED
    BY <2>5, <2>6, <2>7
<1>6. CASE \/ /\ MediaForAnswer(a)
              /\ answerer' = [answerer EXCEPT ![a] = "idle"]
              /\ slips' = slips \cup {"half"}
              /\ UNCHANGED dialog
           \/ /\ AnswerSent(a)
              /\ dialog' = [dialog EXCEPT !.answered = FALSE]
              /\ slips' = slips \cup {"half"}
              /\ UNCHANGED <<heard, callerLeg>>
  <2>1. UNCHANGED <<callerLeg, heard>> /\ slips' = slips \cup {"half"}
    BY <1>6 DEF MediaForAnswer
  <2>2. dialog' \in [kept : BOOLEAN, answered : BOOLEAN, sdp : BOOLEAN]
        /\ dialog'.kept = dialog.kept
    BY <1>1, <1>6 DEF CallerOK
  <2>3. answerer' \in [Answerers -> {"idle", "media", "sending"}]
    BY <1>1, <1>6 DEF CallerOK, AnswerSent
  <2>4. slips' \subseteq Slips
    BY <1>1, <2>1 DEF CallerOK, Slips
  <2>5. CallerOK'
    BY <1>1, <2>1, <2>2, <2>3, <2>4 DEF CallerOK
  <2>6. CallerInv'
    BY <1>1, <2>1, <2>2 DEF CallerInv, AnswerOnItsWay, StatusIsEarned, GoneIsEnding,
       TalkersAreAnswered, AnsweredIsHeard, RefusalSparesTalkers
  <2>7. CarriesOn
    BY <2>1 DEF CarriesOn
  <2>8. QED
    BY <2>5, <2>6, <2>7
<1>7. CASE /\ AnswerSent(a)
           /\ heard' = IF heard \in {"nothing", "early"} THEN "ok" ELSE heard
           /\ callerLeg' = [callerLeg EXCEPT !.status = IF callerLeg.known THEN "answered" ELSE @]
           /\ UNCHANGED <<dialog, slips>>
  <2>1. heard' \in {"ok", "refused", "bye", "left"} /\ (heard' = "ok" \/ heard' = heard)
    BY <1>1, <1>7 DEF CallerOK
  <2>2. /\ callerLeg' \in [status : {"trying", "ringing", "answered", "ended"},
                           known : BOOLEAN, ending : BOOLEAN]
        /\ callerLeg'.known = callerLeg.known /\ callerLeg'.ending = callerLeg.ending
        /\ callerLeg.known => callerLeg'.status = "answered"
        /\ callerLeg'.status = "ended" => callerLeg.status = "ended"
    BY <1>1, <1>7 DEF CallerOK
  <2>3. answerer' \in [Answerers -> {"idle", "media", "sending"}]
    BY <1>1, <1>7 DEF CallerOK, AnswerSent
  <2>4. CallerOK'
    BY <1>1, <1>7, <2>1, <2>2, <2>3 DEF CallerOK
  <2>5. AnswerOnItsWay' /\ StatusIsEarned' /\ AnsweredIsHeard'
    BY <2>1 DEF AnswerOnItsWay, StatusIsEarned, AnsweredIsHeard, Unheard
  <2>6. GoneIsEnding' /\ TalkersAreAnswered' /\ RefusalSparesTalkers'
    BY <1>1, <1>7, <2>1, <2>2 DEF CallerInv, GoneIsEnding, TalkersAreAnswered,
       RefusalSparesTalkers
  <2>7. CarriesOn
    BY <1>1, <1>7, <2>1, <2>2 DEF CarriesOn, CallerInv, GoneIsEnding
  <2>8. QED
    BY <2>4, <2>5, <2>6, <2>7 DEF CallerInv
<1>8. QED
  BY <1>5, <1>6, <1>7 DEF MediaForAnswer, AnswerSent

\* The caller leaves, or its leg is removed.
LEMMA CallerEndStep ==
    ASSUME BrInv, CallerRemoved \/ CallerLeaves \/ CallHangup
    PROVE  BrInv'
<1>1. CalleeOK /\ BridgeOK /\ CallerOK /\ CallerInv
  BY BrInvLemma
<1>2. UNCHANGED <<callee, invited, earlyMedia, dial, syncing>> /\ joined' \in BOOLEAN
  BY <1>1 DEF CallerRemoved, CallerLeaves, CallHangup, calleeVars, BridgeOK
<1>3. CalleeOK' /\ BridgeOK'
  BY <1>1, <1>2 DEF CalleeOK, BridgeOK
<1>4. SUFFICES CallerOK' /\ CallerInv' /\ callerLeg'.ending
  BY <1>3 DEF BrInv, BrTypeOK, CalleeOK, BridgeOK, CallerOK, AnswerArrives
<1>5. CASE CallHangup
  BY <1>1, <1>5, EndCallerLemma DEF CallHangup, CallerOK, CallerInv, RefusalSparesTalkers
<1>6. CASE CallerRemoved \/ CallerLeaves
  <2>1. UNCHANGED <<answerer, slips>>
    BY <1>6 DEF CallerRemoved, CallerLeaves
  <2>2. /\ dialog' \in [kept : BOOLEAN, answered : BOOLEAN, sdp : BOOLEAN]
        /\ dialog'.answered = dialog.answered
    BY <1>1, <1>6 DEF CallerRemoved, CallerLeaves, CallerOK
  <2>3. /\ callerLeg' \in [status : {"trying", "ringing", "answered", "ended"},
                           known : BOOLEAN, ending : BOOLEAN]
        /\ callerLeg'.ending
        /\ callerLeg'.status \in {callerLeg.status, "ended"}
        /\ callerLeg'.known => callerLeg'.status = "ended"
    BY <1>1, <1>6 DEF CallerRemoved, CallerLeaves, CallerOK
  <2>4. /\ heard' \in {"nothing", "early", "ok", "refused", "bye", "left"}
        /\ heard' = heard \/ heard' \notin {"nothing", "early", "ok"}
    BY <1>1, <1>6 DEF CallerRemoved, CallerLeaves, CallerOK
  <2>5. CallerOK'
    BY <1>1, <2>1, <2>2, <2>3, <2>4 DEF CallerOK
  <2>6. AnswerOnItsWay' /\ StatusIsEarned' /\ AnsweredIsHeard'
    BY <1>1, <2>1, <2>2, <2>3, <2>4 DEF CallerInv, AnswerOnItsWay, StatusIsEarned,
       AnsweredIsHeard, Unheard, Sending
  <2>7. GoneIsEnding' /\ TalkersAreAnswered' /\ RefusalSparesTalkers'
    BY <1>1, <2>1, <2>3 DEF CallerInv, GoneIsEnding, TalkersAreAnswered, RefusalSparesTalkers
  <2>8. QED
    BY <2>3, <2>5, <2>6, <2>7 DEF CallerInv
<1>7. QED
  BY <1>5, <1>6

\* The other commands.
LEMMA CommandStep ==
    ASSUME BrInv, CallAnswer \/ CallRinging \/ CallBridge \/ Sync \/ CallUnbridge
    PROVE  BrInv'
<1>1. CalleeOK /\ BridgeOK /\ CallerOK /\ CallerInv /\ AnswerArrives
  BY BrInvLemma
<1>2. /\ UNCHANGED <<callee, invited, earlyMedia>> /\ joined' \in BOOLEAN /\ syncing' \in BOOLEAN
      /\ dial' \in {"open", "over", "torn"}
  BY <1>1 DEF CallAnswer, CallRinging, CallBridge, MarksWinner, ThrowsAtLoser, Sync, CallUnbridge,
     calleeVars, BridgeOK
<1>3. CalleeOK' /\ BridgeOK'
  BY <1>1, <1>2 DEF CalleeOK, BridgeOK
<1>4. SUFFICES CallerOK' /\ CallerInv' /\ AnswerArrives'
  BY <1>3 DEF BrInv, BrTypeOK, CalleeOK, BridgeOK, CallerOK
<1>5. CASE CallAnswer
  <2>1. Answer("call") /\ "call" \in Answerers /\ UNCHANGED <<joined, syncing>>
    BY <1>5 DEF CallAnswer, Answerers
  <2>2. CallerOK' /\ CallerInv' /\ CarriesOn
    BY <1>1, <2>1, AnswerLemma
  <2>3. QED
    BY <1>2, <2>1, <2>2, ArrivesAlone
<1>6. CASE CallRinging
  <2>1. Ring /\ ~callerLeg.ending /\ UNCHANGED <<joined, syncing>>
    BY <1>6 DEF CallRinging, Commandable
  <2>2. callerLeg.status # "ended"
    BY <1>1, <2>1 DEF CallerInv, GoneIsEnding
  <2>3. CallerOK' /\ CallerInv' /\ CarriesOn
    BY <1>1, <2>1, <2>2, RingLemma
  <2>4. QED
    BY <1>2, <2>1, <2>3, ArrivesAlone
<1>7. CASE CallBridge
  <2>1. UNCHANGED callerState /\ syncing' = TRUE
    BY <1>7 DEF CallBridge
  <2>2. QED
    BY <1>1, <2>1, CallerRests DEF AnswerArrives
<1>8. CASE Sync
  <2>1. CASE joined /\ callee.state \in {"ringing", "progress", "answered"}
    <3>1. Relay(callee.state, "sync") /\ "sync" \in Answerers /\ UNCHANGED <<callee, joined>>
      BY <1>8, <2>1 DEF Sync, calleeVars, Answerers
    <3>2. /\ CallerOK' /\ CallerInv' /\ CarriesOn
          /\ callee.state = "answered" /\ callerLeg.known /\ ~callerLeg'.ending
               /\ "half" \notin slips' => heard' = "ok" \/ Answering'
      BY <1>1, <3>1, RelayLemma
    <3>3. ~callerLeg'.ending => callerLeg.known
      BY <1>1, <3>2 DEF CarriesOn, CallerInv, GoneIsEnding, CallerOK
    <3>4. QED
      BY <3>1, <3>2, <3>3 DEF AnswerArrives
  <2>2. CASE ~(joined /\ callee.state \in {"ringing", "progress", "answered"})
    <3>1. UNCHANGED <<callee, joined, callerState>>
      BY <1>8, <2>2 DEF Sync, calleeVars
    <3>2. QED
      BY <1>1, <2>2, <3>1, CallerRests DEF AnswerArrives
  <2>3. QED
    BY <2>1, <2>2
<1>9. CASE CallUnbridge
  <2>1. UNCHANGED callerState /\ joined' = FALSE
    BY <1>9 DEF CallUnbridge
  <2>2. QED
    BY <1>1, <2>1, CallerRests DEF AnswerArrives
<1>10. QED
  BY <1>5, <1>6, <1>7, <1>8, <1>9

\* Whatever order the callee's responses, the three answerers of the caller, the
\* bridge and the two phones come in, for any number of provisional responses:
\* a caller who is bridged to a callee that answered is told so, or the answer of
\* the caller failed, or the dial threw before the relay; a leg that counts as
\* answered has a caller who knows it, and a refusal spares those who talk
\* (handleOutboundSignaling, applyBridgeSignalingToPeer, answerLeg).
THEOREM RelayIsSafe == BrSpec => []RelaySafe
<1>1. BrInit => BrInv
  <2>. SUFFICES ASSUME BrInit PROVE BrInv
    OBVIOUS
  <2>1. CalleeOK /\ BridgeOK
    <3>1. 0 \in 0 .. MaxProvisional
      BY MaxProvisionalAssumption
    <3>2. QED
      BY <3>1 DEF BrInit, CalleeOK, BridgeOK
  <2>2. CallerOK
    BY DEF BrInit, CallerOK, Slips
  <2>3. CallerInv /\ AnswerArrives
    BY DEF BrInit, CallerInv, AnswerArrives, AnswerOnItsWay, StatusIsEarned, GoneIsEnding,
       TalkersAreAnswered, AnsweredIsHeard, RefusalSparesTalkers
  <2>4. QED
    BY <2>1, <2>2, <2>3, BrInvLemma
<1>2. BrInv /\ [BrNext]_brVars => BrInv'
  <2>. SUFFICES ASSUME BrInv, [BrNext]_brVars PROVE BrInv'
    OBVIOUS
  <2>1. CASE BrNext
    BY <2>1, CalleePhoneStep, CalleeEndStep, AnswererStep, CallerEndStep, CommandStep
    DEF BrNext
  <2>2. CASE UNCHANGED brVars
    <3>1. UNCHANGED <<callee, invited, earlyMedia, dial, joined, syncing>> /\ UNCHANGED callerState
      BY <2>2 DEF brVars, callerState
    <3>2. CalleeOK /\ BridgeOK /\ CallerOK /\ CallerInv
      BY BrInvLemma
    <3>3. CallerOK' /\ CallerInv' /\ CarriesOn
      BY <3>1, <3>2, CallerRests
    <3>4. AnswerArrives'
      BY <3>1, <3>3, ArrivesAlone
    <3>5. CalleeOK' /\ BridgeOK'
      BY <3>1, <3>2 DEF CalleeOK, BridgeOK
    <3>6. QED
      BY <3>3, <3>4, <3>5 DEF BrInv, BrTypeOK, CalleeOK, BridgeOK, CallerOK
  <2>3. QED
    BY <2>1, <2>2
<1>3. BrInv => RelaySafe
  BY BrInvLemma
<1>4. QED
  BY <1>1, <1>2, <1>3, PTL DEF BrSpec

-----------------------------------------------------------------------------
(* The triggers of a trunk.                                                *)

\* A host that was not made has no registration, transaction, timer or socket.
Unmade ==
    \A h \in Hosts : h > made =>
        reg[h] = NoReg /\ regTx[h] = 0 /\ h \notin pending \cup useReg \cup timer \cup bound

HostsInOrder == trunk <= made /\ reusing <= made

\* A trunk that waits for its socket finds no other trunk when it got it.
ActivatesOnce == "trunk" \in binding => trunk = 0 /\ made + 1 \in Hosts

\* The active trunk is not a host that unregisters, and its socket is open.
ServesNoUnregister ==
    trunk # 0 => trunk \notin pending /\ trunk \in bound /\ reg[trunk].state # "unregistering"

\* A transaction lives as long as its socket, a socket as long as its listener.
SentOnOpenSocket ==
    /\ \A h \in Hosts : regTx[h] > 0 => h \in bound
    /\ bound # {} => listener

\* Nothing turns a host that unregisters into one that registers.
PendingUnregisters ==
    flaws = {} => \A h \in pending : reg[h].state = "unregistering" /\ h \notin timer

TrInv ==
    /\ TrunksSafe /\ Unmade /\ HostsInOrder /\ ActivatesOnce /\ ServesNoUnregister
    /\ SentOnOpenSocket /\ PendingUnregisters

\* The types, one variable at a time.
TrunkTypes ==
    /\ trunk \in Hosts \cup {0} /\ made \in Hosts \cup {0} /\ reusing \in Hosts \cup {0}
    /\ pending \subseteq Hosts /\ useReg \subseteq Hosts /\ timer \subseteq Hosts
    /\ bound \subseteq Hosts
    /\ ext \in BOOLEAN /\ listener \in BOOLEAN
    /\ binding \subseteq {"ext", "trunk"}
    /\ reg \in [Hosts -> Regs] /\ regTx \in [Hosts -> 0 .. 2]
    /\ flaws \subseteq Flaws

LEMMA TrunkTypesLemma == TrTypeOK <=> TrunkTypes
BY DEF TrTypeOK, TrunkTypes

\* An unregister is under way unless something went wrong.
LEMMA UnderWayLemma ==
    ASSUME TrunkTypes
    PROVE  UnregisterUnderWay <=> (flaws = {} => \A h \in pending : regTx[h] > 0)
BY DEF TrunkTypes, UnregisterUnderWay, Flaws

LEMMA HostLemma ==
    /\ \A h \in Hosts : h \in Nat /\ h # 0
    /\ TrunkTypes => made \in Nat /\ trunk \in Nat /\ reusing \in Nat
<1>1. \A h \in Hosts : h \in Nat /\ h # 0
  BY HostsAssumption
<1>2. ASSUME NEW m \in Hosts \cup {0} PROVE m \in Nat
  BY <1>1
<1>3. TrunkTypes => made \in Hosts \cup {0} /\ trunk \in Hosts \cup {0}
                    /\ reusing \in Hosts \cup {0}
  BY DEF TrunkTypes
<1>4. QED
  BY <1>1, <1>2, <1>3

LEMMA SentLemma ==
    ASSUME NEW r \in Regs, NEW unregister \in BOOLEAN, NEW fresh \in BOOLEAN,
           NEW out \in BOOLEAN
    PROVE  /\ Sent(r, unregister, fresh, out) \in Regs
           /\ Sent(r, unregister, fresh, out).state =
                IF unregister THEN "unregistering" ELSE "registering"
BY DEF Sent, Regs

LEMMA NoRegLemma == NoReg \in Regs /\ NoReg.state = "none" /\ ~NoReg.good
BY DEF NoReg, Regs

\* A step of one host that was made: its registration, transactions and timer
\* change, nothing that it shares with others does.
LEMMA HostStep ==
    ASSUME TrInv, NEW h \in Hosts, NEW r \in Regs, NEW n \in 0 .. 2,
           UNCHANGED <<ext, trunk, made, pending, listener, bound, binding>>,
           h <= made,
           reg' = [reg EXCEPT ![h] = r], regTx' = [regTx EXCEPT ![h] = n],
           timer' \in {timer, timer \cup {h}, timer \ {h}},
           useReg' \in {useReg, useReg \cup {h}, useReg \ {h}},
           reusing' = reusing \/ (reusing = h /\ reusing' = 0),
           flaws \subseteq flaws', flaws' \subseteq Flaws,
           r.state = "unregistering" => reg[h].state = "unregistering",
           n > 0 => h \in bound,
           h = trunk /\ h \in useReg' /\ reusing' # h => n > 0 \/ h \in timer' \/ "stuck" \in flaws',
           h \in pending /\ flaws' = {} => n > 0 /\ r.state = "unregistering" /\ h \notin timer'
    PROVE  TrInv'
<1>1. TrunkTypes
  BY TrunkTypesLemma DEF TrInv, TrunksSafe
<1>2. TrunkTypes'
  BY <1>1 DEF TrunkTypes
<1>3. \A g \in Hosts : /\ g # h => reg'[g] = reg[g] /\ regTx'[g] = regTx[g]
                       /\ g # h => (g \in timer' <=> g \in timer) /\ (g \in useReg' <=> g \in useReg)
                       /\ reg'[h] = r /\ regTx'[h] = n
  BY <1>1 DEF TrunkTypes
<1>4. ListenerIffUsed'
  BY DEF TrInv, TrunksSafe, ListenerIffUsed
<1>5. KeepsRegistering'
  <2>1. SUFFICES ASSUME trunk' \in useReg', reusing' # trunk'
                 PROVE  regTx'[trunk'] > 0 \/ trunk' \in timer' \/ "stuck" \in flaws'
    BY DEF KeepsRegistering
  <2>2. trunk' = trunk /\ trunk \in Hosts
    BY <1>1, <1>2, <2>1 DEF TrunkTypes
  <2>3. CASE trunk = h
    BY <1>3, <2>1, <2>2, <2>3
  <2>4. CASE trunk # h
    <3>1. reusing # trunk
      BY <2>1, <2>2, <2>4
    <3>2. QED
      BY <1>3, <2>1, <2>2, <2>4, <3>1 DEF TrInv, TrunksSafe, KeepsRegistering
  <2>5. QED
    BY <2>3, <2>4
<1>6. UnregisterUnderWay'
  <2>1. flaws' = {} => \A g \in pending' : regTx'[g] > 0
    BY <1>1, <1>3, UnderWayLemma DEF TrInv, TrunksSafe, TrunkTypes
  <2>2. (TrunkTypes => (UnregisterUnderWay <=> (flaws = {} => \A g \in pending : regTx[g] > 0)))'
    BY DEF TrunkTypes, UnregisterUnderWay, Flaws
  <2>3. QED
    BY <1>2, <2>1, <2>2
<1>7. Unmade'
  <2>1. \A g \in Hosts : g > made => g # h
    BY <1>1, HostLemma
  <2>2. QED
    BY <1>1, <1>3, <2>1 DEF TrInv, Unmade
<1>8. HostsInOrder' /\ ActivatesOnce'
  BY <1>1, HostLemma DEF TrInv, HostsInOrder, ActivatesOnce
<1>9. ServesNoUnregister'
  BY <1>1, <1>3 DEF TrInv, ServesNoUnregister, TrunkTypes
<1>10. SentOnOpenSocket'
  BY <1>3 DEF TrInv, SentOnOpenSocket
<1>11. PendingUnregisters'
  BY <1>1, <1>3 DEF TrInv, PendingUnregisters, TrunkTypes
<1>12. QED
  BY <1>2, <1>4, <1>5, <1>6, <1>7, <1>8, <1>9, <1>10, <1>11, TrunkTypesLemma
  DEF TrInv, TrunksSafe, TrTypeOK, TrunkTypes

\* A host that has anything to do with the network was made.
LEMMA MadeLemma ==
    ASSUME TrInv, NEW h \in Hosts,
           \/ regTx[h] > 0 \/ reg[h].good \/ h = trunk \/ h = reusing
           \/ h \in pending \cup timer \cup useReg
    PROVE  h <= made
<1>1. TrunkTypes
  BY TrunkTypesLemma DEF TrInv, TrunksSafe
<1>2. h \in Nat /\ made \in Nat /\ trunk \in Nat /\ reusing \in Nat
  BY <1>1, HostLemma
<1>3. ASSUME h > made PROVE FALSE
  BY <1>2, <1>3, NoRegLemma DEF TrInv, Unmade, HostsInOrder
<1>4. QED
  BY <1>2, <1>3

\* What the types say of one host.
LEMMA OneHost ==
    ASSUME TrInv, NEW h \in Hosts
    PROVE  /\ TrunkTypes /\ reg[h] \in Regs /\ regTx[h] \in 0 .. 2
           /\ timer' = timer \/ Schedule(h) => timer' \in {timer, timer \cup {h}, timer \ {h}}
           /\ Schedule(h) /\ h \in useReg => h \in timer'
           /\ h \in pending => h # trunk
           /\ h \in pending /\ flaws = {} => /\ regTx[h] > 0 /\ h \notin timer
                                           /\ reg[h].state = "unregistering"
           /\ h = trunk => reg[h].state # "unregistering" /\ h \in bound
<1>1. TrunkTypes
  BY TrunkTypesLemma DEF TrInv, TrunksSafe
<1>2. h \in pending => h # trunk
  BY HostLemma DEF TrInv, ServesNoUnregister
<1>3. h = trunk => reg[h].state # "unregistering" /\ h \in bound
  BY HostLemma DEF TrInv, ServesNoUnregister
<1>4. h \in pending /\ flaws = {} => /\ regTx[h] > 0 /\ h \notin timer
                                   /\ reg[h].state = "unregistering"
  BY <1>1, UnderWayLemma DEF TrInv, TrunksSafe, PendingUnregisters
<1>5. QED
  BY <1>1, <1>2, <1>3, <1>4 DEF TrunkTypes, Schedule

\* The end of an unregister: the last user of the listener closes it.
LEMMA FinalizeStep ==
    ASSUME TrInv, NEW h \in Hosts, Finalize(h), reg[h].state = "unregistering",
           IF listener' THEN regTx' = regTx \/ (regTx[h] > 0 /\ regTx' = [regTx EXCEPT ![h] = @ - 1])
           ELSE TRUE,
           listener,
           UNCHANGED <<ext, trunk, made, binding, reusing, useReg, flaws>>
    PROVE  TrInv'
<1>1. TrunkTypes /\ h # trunk /\ reg[h] \in Regs /\ regTx[h] \in 0 .. 2
  BY OneHost
<1>2. /\ timer' = timer \ {h} /\ pending' = pending \ {h}
      /\ reg' = [reg EXCEPT ![h] = NoReg]
  BY DEF Finalize
<1>3. CASE trunk = 0 /\ ~ext /\ pending' = {}
  <2>1. listener' = FALSE /\ bound' = {} /\ regTx' = [g \in Hosts |-> 0]
    BY <1>3 DEF Finalize, CloseUdpListener
  <2>2. TrunkTypes'
    <3>1. regTx' \in [Hosts -> 0 .. 2]
      BY <2>1
    <3>2. reg' \in [Hosts -> Regs]
      BY <1>1, <1>2, NoRegLemma DEF TrunkTypes
    <3>3. QED
      BY <1>1, <1>2, <2>1, <3>1, <3>2 DEF TrunkTypes
  <2>3. ListenerIffUsed'
    BY <1>3, <2>1 DEF ListenerIffUsed
  <2>4. KeepsRegistering' /\ ServesNoUnregister' /\ UnregisterUnderWay' /\ PendingUnregisters'
    <3>1. 0 \notin Hosts
      BY HostLemma
    <3>2. QED
      BY <1>1, <1>3, <3>1 DEF KeepsRegistering, ServesNoUnregister, UnregisterUnderWay,
         PendingUnregisters, TrunkTypes
  <2>5. Unmade'
    BY <1>1, <1>2, <2>1 DEF TrInv, Unmade, TrunkTypes
  <2>6. HostsInOrder' /\ ActivatesOnce' /\ SentOnOpenSocket'
    BY <2>1 DEF TrInv, HostsInOrder, ActivatesOnce, SentOnOpenSocket
  <2>7. QED
    BY <2>2, <2>3, <2>4, <2>5, <2>6, TrunkTypesLemma
    DEF TrInv, TrunksSafe, TrTypeOK, TrunkTypes
<1>4. CASE ~(trunk = 0 /\ ~ext /\ pending' = {})
  <2>1. listener' = listener /\ bound' = bound
    BY <1>4 DEF Finalize, sockets
  <2>2. regTx' \in [Hosts -> 0 .. 2]
        /\ \A g \in Hosts : (regTx'[g] > 0 => regTx[g] > 0) /\ (g # h => regTx'[g] = regTx[g])
    BY <1>1, <2>1 DEF TrunkTypes
  <2>3. reg' \in [Hosts -> Regs] /\ \A g \in Hosts : reg'[g] = IF g = h THEN NoReg ELSE reg[g]
    BY <1>1, <1>2, NoRegLemma DEF TrunkTypes
  <2>4. TrunkTypes'
    BY <1>1, <1>2, <2>1, <2>2, <2>3 DEF TrunkTypes
  <2>5. ListenerIffUsed'
    BY <1>4, <2>1 DEF ListenerIffUsed
  <2>6. KeepsRegistering'
    BY <1>1, <1>2, <2>2, <2>3 DEF TrInv, TrunksSafe, KeepsRegistering, TrunkTypes
  <2>7. ServesNoUnregister'
    BY <1>1, <1>2, <2>1, <2>3 DEF TrInv, ServesNoUnregister, TrunkTypes
  <2>8. (TrunkTypes => (UnregisterUnderWay <=> (flaws = {} => \A g \in pending : regTx[g] > 0)))'
    BY DEF TrunkTypes, UnregisterUnderWay, Flaws
  <2>9. UnregisterUnderWay'
    <3>1. flaws' = {} => \A g \in pending' : regTx'[g] > 0
      BY <1>1, <1>2, <2>2, UnderWayLemma DEF TrInv, TrunksSafe, TrunkTypes
    <3>2. QED
      BY <2>4, <2>8, <3>1
  <2>10. PendingUnregisters'
    BY <1>1, <1>2, <2>3 DEF TrInv, PendingUnregisters, TrunkTypes
  <2>11. Unmade'
    <3>1. \A g \in Hosts : g > made => regTx'[g] = 0
      BY <1>1, <2>2 DEF TrInv, Unmade, TrunkTypes
    <3>2. QED
      BY <1>1, <1>2, <2>1, <2>3, <3>1 DEF TrInv, Unmade, TrunkTypes
  <2>12. HostsInOrder' /\ ActivatesOnce' /\ SentOnOpenSocket'
    BY <2>1, <2>2 DEF TrInv, HostsInOrder, ActivatesOnce, SentOnOpenSocket
  <2>13. QED
    BY <2>4, <2>5, <2>6, <2>7, <2>9, <2>10, <2>11, <2>12, TrunkTypesLemma
    DEF TrInv, TrunksSafe, TrTypeOK, TrunkTypes
<1>5. QED
  BY <1>3, <1>4

LEMMA ChallengedInVainStep ==
    ASSUME TrInv, NEW h \in Hosts, ChallengedInVain(h)
    PROVE  TrInv'
<1>1. /\ TrunkTypes /\ reg[h] \in Regs /\ regTx[h] \in 0 .. 2 /\ regTx[h] > 0
      /\ h <= made
  BY OneHost, MadeLemma DEF ChallengedInVain
<1>2. /\ regTx' = [regTx EXCEPT ![h] = regTx[h] - 1] /\ regTx[h] - 1 \in 0 .. 2
      /\ reg' = [reg EXCEPT ![h] = reg[h]] /\ h \in bound
  BY <1>1 DEF ChallengedInVain, TrunkTypes, TrInv, SentOnOpenSocket
<1>3. "stuck" \in flaws' /\ flaws \subseteq flaws' /\ flaws' \subseteq Flaws
  BY <1>1 DEF ChallengedInVain, TrunkTypes, Flaws
<1>4. QED
  BY <1>1, <1>2, <1>3, HostStep DEF ChallengedInVain, sockets

LEMMA OrphanTimesOutStep ==
    ASSUME TrInv, NEW h \in Hosts, OrphanTimesOut(h)
    PROVE  TrInv'
<1>1. /\ TrunkTypes /\ reg[h] \in Regs /\ regTx[h] \in 0 .. 2 /\ regTx[h] > 0
      /\ h <= made
  BY OneHost, MadeLemma DEF OrphanTimesOut
<1>2. /\ regTx' = [regTx EXCEPT ![h] = regTx[h] - 1] /\ regTx[h] - 1 \in 0 .. 2
      /\ reg' = [reg EXCEPT ![h] = reg[h]] /\ h \in bound /\ flaws' \subseteq Flaws
  BY <1>1 DEF OrphanTimesOut, TrunkTypes, TrInv, SentOnOpenSocket
<1>3. /\ h \in pending => flaws' # {}
      /\ timer' \in {timer, timer \cup {h}, timer \ {h}}
      /\ h \in useReg' => h \in timer'
  BY OneHost DEF OrphanTimesOut
<1>4. QED
  BY <1>1, <1>2, <1>3, HostStep DEF OrphanTimesOut, sockets

LEMMA NonceExpiresStep ==
    ASSUME TrInv, NEW h \in Hosts, NonceExpires(h)
    PROVE  TrInv'
<1>1. /\ TrunkTypes /\ reg[h] \in Regs /\ regTx[h] \in 0 .. 2 /\ regTx[h] = 0
      /\ h <= made
  BY OneHost, MadeLemma DEF NonceExpires
<1>. DEFINE r == [reg[h] EXCEPT !.good = FALSE]
<1>2. r \in Regs /\ r.state = reg[h].state
  BY <1>1 DEF Regs
<1>3. reg' = [reg EXCEPT ![h] = r] /\ regTx' = [regTx EXCEPT ![h] = regTx[h]]
  BY <1>1 DEF NonceExpires, TrunkTypes
<1>4. h \in pending => flaws' # {}
  BY <1>1, OneHost DEF NonceExpires
<1>5. h = trunk /\ h \in useReg /\ reusing # h => h \in timer \/ "stuck" \in flaws
  BY <1>1 DEF TrInv, TrunksSafe, KeepsRegistering
<1>6. UNCHANGED <<ext, trunk, made, pending, listener, bound, binding, reusing, useReg, timer,
                  flaws>>
  BY DEF NonceExpires, sockets
<1>7. flaws' \subseteq Flaws
  BY <1>1, <1>6 DEF TrunkTypes
<1>8. /\ timer' \in {timer, timer \cup {h}, timer \ {h}}
      /\ useReg' \in {useReg, useReg \cup {h}, useReg \ {h}}
      /\ flaws \subseteq flaws'
  BY <1>6
<1>9. /\ h = trunk /\ h \in useReg' /\ reusing' # h => h \in timer' \/ "stuck" \in flaws'
      /\ r.state = "unregistering" => reg[h].state = "unregistering"
      /\ ~(regTx[h] > 0)
  BY <1>1, <1>2, <1>5, <1>6
<1>. HIDE DEF r
<1>10. QED
  BY <1>1, <1>2, <1>3, <1>4, <1>6, <1>7, <1>8, <1>9, HostStep

\* A timer that fires for a host that unregisters would register it again; there
\* is none.
LEMMA TimerFiresStep ==
    ASSUME TrInv, NEW h \in Hosts, TimerFires(h)
    PROVE  TrInv'
<1>1. /\ TrunkTypes /\ reg[h] \in Regs /\ regTx[h] \in 0 .. 2 /\ h <= made
      /\ (h \in pending => flaws # {})
      /\ (h = trunk => trunk # 0)
  BY OneHost, MadeLemma, HostLemma DEF TimerFires
<1>2. UNCHANGED <<ext, trunk, made, pending, listener, bound, binding, reusing, useReg, flaws>>
  BY DEF TimerFires, sockets
<1>3. /\ useReg' \in {useReg, useReg \cup {h}, useReg \ {h}}
      /\ flaws \subseteq flaws' /\ flaws' \subseteq Flaws
      /\ h \in pending => flaws' # {}
  BY <1>1, <1>2 DEF TrunkTypes
<1>4. (regTx[h] > 0 => h \in bound) /\ h \in timer
  BY DEF TimerFires, TrInv, SentOnOpenSocket
<1>5. CASE trunk # 0 /\ h \in useReg
  <2>1. SendTrunkRegister(h, FALSE, FALSE, timer \ {h}, useReg)
    BY <1>5 DEF TimerFires
  <2>2. ASSUME NEW out \in BOOLEAN, NEW n \in 0 .. 2,
               reg' = [reg EXCEPT ![h] = Sent(@, FALSE, FALSE, out)],
               regTx' = [regTx EXCEPT ![h] = n], timer' = timer \ {h} \/ timer' = timer,
               n > 0 => h \in bound, n > 0 \/ h \in timer'
        PROVE  TrInv'
    <3>. DEFINE r == Sent(reg[h], FALSE, FALSE, out)
    <3>1. r \in Regs /\ r.state = "registering" /\ reg' = [reg EXCEPT ![h] = r]
      BY <1>1, <2>2, SentLemma DEF TrunkTypes
    <3>2. timer' \in {timer, timer \cup {h}, timer \ {h}}
      BY <2>2
    <3>. HIDE DEF r
    <3>3. QED
      BY <1>1, <1>2, <1>3, <2>2, <3>1, <3>2, HostStep
  <2>3. CASE /\ regTx[h] < 2 /\ h \in bound'
             /\ reg' = [reg EXCEPT ![h] = Sent(@, FALSE, FALSE, TRUE)]
             /\ regTx' = [regTx EXCEPT ![h] = @ + 1] /\ timer' = timer \ {h}
    <3>1. regTx[h] + 1 \in 0 .. 2 /\ regTx' = [regTx EXCEPT ![h] = regTx[h] + 1]
          /\ regTx[h] + 1 > 0
      BY <1>1, <2>3
    <3>2. QED
      BY <1>2, <2>2, <2>3, <3>1
  <2>4. CASE /\ reg' = [reg EXCEPT ![h] = Sent(@, FALSE, FALSE, FALSE)]
             /\ timer' = (timer \ {h}) \cup {h} /\ UNCHANGED regTx
    <3>1. regTx' = [regTx EXCEPT ![h] = regTx[h]] /\ timer' = timer
      BY <1>1, <1>4, <2>4 DEF TrunkTypes
    <3>2. QED
      BY <1>1, <1>4, <2>2, <2>4, <3>1
  <2>5. QED
    BY <2>1, <2>3, <2>4 DEF SendTrunkRegister
<1>6. CASE ~(trunk # 0 /\ h \in useReg)
  <2>1. timer' = timer \ {h} /\ UNCHANGED <<reg, regTx>>
    BY <1>6 DEF TimerFires
  <2>2. reg' = [reg EXCEPT ![h] = reg[h]] /\ regTx' = [regTx EXCEPT ![h] = regTx[h]]
    BY <1>1, <2>1 DEF TrunkTypes
  <2>3. timer' \in {timer, timer \cup {h}, timer \ {h}}
        /\ ~(h = trunk /\ h \in useReg')
    BY <1>1, <1>2, <1>6, <2>1
  <2>4. QED
    BY <1>1, <1>2, <1>3, <1>4, <2>2, <2>3, HostStep
<1>7. QED
  BY <1>5, <1>6

\* The host that was reused goes on; if it is not the trunk any more, it is one
\* of which nothing is promised.
LEMMA ReuseEndsStep ==
    ASSUME TrInv, NEW h \in Hosts, ReuseEnds(h)
    PROVE  TrInv'
<1>1. /\ TrunkTypes /\ reg[h] \in Regs /\ regTx[h] \in 0 .. 2 /\ h <= made
      /\ (regTx[h] > 0 => h \in bound)
  BY OneHost, MadeLemma DEF ReuseEnds, TrInv, SentOnOpenSocket
<1>2. UNCHANGED <<ext, trunk, made, pending, listener, bound, binding>>
      /\ reusing = h /\ reusing' = 0
  BY DEF ReuseEnds, sockets
<1>3. /\ flaws \subseteq flaws' /\ flaws' \subseteq Flaws
      /\ h \in pending => flaws' # {}
  BY <1>1, OneHost DEF ReuseEnds, TrunkTypes, Flaws
<1>4. ASSUME NEW r \in Regs, NEW n \in 0 .. 2, r.state # "unregistering",
             reg' = [reg EXCEPT ![h] = r], regTx' = [regTx EXCEPT ![h] = n],
             timer' = timer \/ timer' = timer \cup {h},
             useReg' = useReg \/ useReg' = useReg \ {h},
             n > 0 => h \in bound, h \in useReg' => n > 0 \/ h \in timer'
      PROVE  TrInv'
  <2>1. timer' \in {timer, timer \cup {h}, timer \ {h}}
        /\ useReg' \in {useReg, useReg \cup {h}, useReg \ {h}}
    BY <1>4
  <2>2. QED
    BY <1>1, <1>2, <1>3, <1>4, <2>1, HostStep
<1>5. /\ \A out \in BOOLEAN : /\ Sent(NoReg, FALSE, FALSE, out) \in Regs
                              /\ Sent(NoReg, FALSE, FALSE, out).state # "unregistering"
      /\ NoReg \in Regs /\ NoReg.state # "unregistering"
  BY NoRegLemma, SentLemma
<1>6. CASE /\ regTx[h] < 2 /\ h \in bound
           /\ regTx' = [regTx EXCEPT ![h] = @ + 1] /\ UNCHANGED <<timer, useReg>>
           /\ reg' = [reg EXCEPT ![h] = Sent(NoReg, FALSE, FALSE, TRUE)]
  <2>1. regTx[h] + 1 \in 0 .. 2 /\ regTx' = [regTx EXCEPT ![h] = regTx[h] + 1]
        /\ regTx[h] + 1 > 0
    BY <1>1, <1>6
  <2>2. QED
    BY <1>4, <1>5, <1>6, <2>1
<1>7. CASE /\ timer' = timer \cup {h} /\ UNCHANGED <<regTx, useReg>>
           /\ reg' = [reg EXCEPT ![h] = Sent(NoReg, FALSE, FALSE, FALSE)]
  <2>1. regTx' = [regTx EXCEPT ![h] = regTx[h]]
    BY <1>1, <1>7 DEF TrunkTypes
  <2>2. QED
    BY <1>1, <1>4, <1>5, <1>7, <2>1
<1>8. CASE /\ useReg' = useReg \ {h}
           /\ reg' = [reg EXCEPT ![h] = NoReg] /\ UNCHANGED <<regTx, timer>>
  <2>1. regTx' = [regTx EXCEPT ![h] = regTx[h]]
    BY <1>1, <1>8 DEF TrunkTypes
  <2>2. QED
    BY <1>1, <1>4, <1>5, <1>8, <2>1
<1>9. QED
  BY <1>6, <1>7, <1>8 DEF ReuseEnds

\* 423: again at once, or later.
LEMMA IntervalTooBriefStep ==
    ASSUME TrInv, NEW h \in Hosts, IntervalTooBrief(h)
    PROVE  TrInv'
<1>1. /\ TrunkTypes /\ reg[h] \in Regs /\ regTx[h] \in 0 .. 2 /\ h <= made
      /\ regTx[h] > 0 /\ h \in bound
  BY OneHost, MadeLemma DEF IntervalTooBrief, TrInv, SentOnOpenSocket
<1>2. UNCHANGED <<ext, trunk, made, pending, listener, bound, binding, reusing, useReg, flaws>>
  BY DEF IntervalTooBrief, sockets
<1>3. /\ useReg' \in {useReg, useReg \cup {h}, useReg \ {h}}
      /\ flaws \subseteq flaws' /\ flaws' \subseteq Flaws
      /\ h \in pending => flaws' # {}
  BY <1>1, <1>2, OneHost DEF TrunkTypes, IntervalTooBrief
<1>. DEFINE r == Sent(reg[h], FALSE, FALSE, TRUE)
<1>4. r \in Regs /\ r.state = "registering" /\ reg' = [reg EXCEPT ![h] = r]
  BY <1>1, SentLemma DEF IntervalTooBrief, TrunkTypes
<1>5. /\ timer' \in {timer, timer \cup {h}, timer \ {h}}
      /\ regTx' = regTx \/ (regTx' = [regTx EXCEPT ![h] = regTx[h] - 1] /\ Schedule(h))
  BY OneHost DEF IntervalTooBrief
<1>. HIDE DEF r
<1>6. CASE regTx' = regTx
  <2>1. regTx' = [regTx EXCEPT ![h] = regTx[h]]
    BY <1>1, <1>6 DEF TrunkTypes
  <2>2. QED
    BY <1>1, <1>2, <1>3, <1>4, <1>5, <2>1, HostStep
<1>7. CASE regTx' = [regTx EXCEPT ![h] = regTx[h] - 1] /\ Schedule(h)
  <2>1. regTx[h] - 1 \in 0 .. 2 /\ (h \in useReg' => h \in timer')
    BY <1>1, <1>2, <1>7, OneHost
  <2>2. QED
    BY <1>1, <1>2, <1>3, <1>4, <1>5, <1>7, <2>1, HostStep
<1>8. QED
  BY <1>5, <1>6, <1>7

LEMMA RegisterAcceptedStep ==
    ASSUME TrInv, NEW h \in Hosts, RegisterAccepted(h)
    PROVE  TrInv'
<1>1. /\ TrunkTypes /\ reg[h] \in Regs /\ regTx[h] \in 0 .. 2
      /\ listener /\ h <= made
      /\ (regTx[h] > 0 => h \in bound)
  BY OneHost, MadeLemma DEF RegisterAccepted, Answerable, Owner, TrInv, SentOnOpenSocket
<1>2. UNCHANGED <<ext, trunk, made, binding, reusing, useReg, flaws>>
  BY DEF RegisterAccepted
<1>3. CASE reg[h].state = "unregistering"
  BY <1>1, <1>2, <1>3, FinalizeStep DEF RegisterAccepted
<1>4. CASE reg[h].state # "unregistering"
  <2>. DEFINE r == [reg[h] EXCEPT !.state = "registered", !.attempts = 0]
  <2>1. r \in Regs /\ r.state = "registered"
    <3>1. [reg[h] EXCEPT !.state = "registered"] \in Regs
      BY <1>1 DEF Regs
    <3>2. \A q \in Regs : [q EXCEPT !.attempts = 0] \in Regs
                         /\ [q EXCEPT !.attempts = 0].state = q.state
      BY DEF Regs
    <3>3. r = [[reg[h] EXCEPT !.state = "registered"] EXCEPT !.attempts = 0]
      BY <1>1 DEF Regs
    <3>4. QED
      BY <1>1, <3>1, <3>2, <3>3 DEF Regs
  <2>2. reg' = [reg EXCEPT ![h] = r]
    BY <1>1, <1>4 DEF RegisterAccepted, TrunkTypes
  <2>3. Schedule(h) /\ UNCHANGED <<pending, listener, bound>>
    BY <1>4 DEF RegisterAccepted, sockets
  <2>4. PICK n \in Cleared(h) : regTx' = [regTx EXCEPT ![h] = n]
    BY <1>4 DEF RegisterAccepted
  <2>5. n \in 0 .. 2 /\ (n > 0 => h \in bound)
    BY <1>1 DEF Cleared
  <2>6. /\ timer' \in {timer, timer \cup {h}, timer \ {h}}
        /\ useReg' \in {useReg, useReg \cup {h}, useReg \ {h}}
        /\ h \in useReg' => h \in timer'
        /\ flaws \subseteq flaws' /\ flaws' \subseteq Flaws
        /\ h \in pending => flaws' # {}
    BY <1>1, <1>2, <1>4, <2>3, OneHost DEF TrunkTypes
  <2>. HIDE DEF r
  <2>7. QED
    BY <1>1, <1>2, <2>1, <2>2, <2>3, <2>4, <2>5, <2>6, HostStep
<1>5. QED
  BY <1>3, <1>4

LEMMA RegisterFailsStep ==
    ASSUME TrInv, NEW h \in Hosts, RegisterFails(h)
    PROVE  TrInv'
<1>1. /\ TrunkTypes /\ reg[h] \in Regs /\ regTx[h] \in 0 .. 2 /\ regTx[h] > 0
      /\ listener /\ h <= made /\ h \in bound
  BY OneHost, MadeLemma DEF RegisterFails, TrInv, SentOnOpenSocket
<1>2. UNCHANGED <<ext, trunk, made, binding, reusing, useReg, flaws>>
  BY DEF RegisterFails
<1>3. CASE reg[h].state = "unregistering"
  <2>1. Finalize(h) /\ IF listener' THEN regTx' = [regTx EXCEPT ![h] = @ - 1] ELSE TRUE
    BY <1>3 DEF RegisterFails
  <2>2. QED
    BY <1>1, <1>2, <1>3, <2>1, FinalizeStep
<1>4. CASE reg[h].state # "unregistering"
  <2>. DEFINE r == [reg[h] EXCEPT !.state = "registering"]
  <2>1. r \in Regs /\ r.state = "registering"
    BY <1>1 DEF Regs
  <2>2. reg' = [reg EXCEPT ![h] = r] /\ regTx' = [regTx EXCEPT ![h] = regTx[h] - 1]
        /\ regTx[h] - 1 \in 0 .. 2
    BY <1>1, <1>4 DEF RegisterFails, TrunkTypes
  <2>3. Schedule(h) /\ UNCHANGED <<pending, listener, bound>>
    BY <1>4 DEF RegisterFails, sockets
  <2>4. /\ timer' \in {timer, timer \cup {h}, timer \ {h}}
        /\ useReg' \in {useReg, useReg \cup {h}, useReg \ {h}}
        /\ h \in useReg' => h \in timer'
        /\ flaws \subseteq flaws' /\ flaws' \subseteq Flaws
        /\ h \in pending => flaws' # {}
    BY <1>1, <1>2, <1>4, <2>3, OneHost DEF TrunkTypes
  <2>. HIDE DEF r
  <2>5. QED
    BY <1>1, <1>2, <2>1, <2>2, <2>3, <2>4, HostStep
<1>5. QED
  BY <1>3, <1>4

\* A challenge is answered, or not for the third time; that the answer of an
\* unregister could not be sent is a flaw.
LEMMA ChallengedStep ==
    ASSUME TrInv, NEW h \in Hosts, Challenged(h)
    PROVE  TrInv'
<1>1. /\ TrunkTypes /\ reg[h] \in Regs /\ regTx[h] \in 0 .. 2 /\ regTx[h] > 0
      /\ listener /\ h <= made /\ h \in bound /\ regTx[h] - 1 \in 0 .. 2
  BY OneHost, MadeLemma DEF Challenged, TrInv, SentOnOpenSocket
<1>2. UNCHANGED <<ext, trunk, made, binding, reusing, useReg>>
  BY DEF Challenged
<1>3. useReg' \in {useReg, useReg \cup {h}, useReg \ {h}}
  BY <1>2
<1>4. CASE reg[h].attempts >= 2 /\ reg[h].state = "unregistering"
  <2>1. Finalize(h) /\ IF listener' THEN regTx' = [regTx EXCEPT ![h] = @ - 1] ELSE TRUE
    BY <1>4 DEF Challenged
  <2>2. UNCHANGED flaws
    BY <1>4 DEF Challenged
  <2>3. QED
    BY <1>1, <1>2, <1>4, <2>1, <2>2, FinalizeStep
<1>5. CASE reg[h].attempts >= 2 /\ reg[h].state # "unregistering"
  <2>1. /\ regTx' = [regTx EXCEPT ![h] = regTx[h] - 1] /\ Schedule(h)
        /\ UNCHANGED <<reg, pending, listener, bound, flaws>>
    BY <1>5 DEF Challenged, sockets
  <2>2. reg' = [reg EXCEPT ![h] = reg[h]]
    BY <1>1, <2>1 DEF TrunkTypes
  <2>3. /\ timer' \in {timer, timer \cup {h}, timer \ {h}}
        /\ h \in useReg' => h \in timer'
        /\ flaws \subseteq flaws' /\ flaws' \subseteq Flaws
        /\ h \in pending => flaws' # {}
    BY <1>1, <1>2, <1>5, <2>1, OneHost DEF TrunkTypes
  <2>4. QED
    BY <1>1, <1>2, <1>3, <2>1, <2>2, <2>3, HostStep
<1>6. CASE ~(reg[h].attempts >= 2)
  <2>. DEFINE r == Sent(reg[h], reg[h].state = "unregistering", TRUE, TRUE)
  <2>1. /\ r \in Regs
        /\ r.state = IF reg[h].state = "unregistering" THEN "unregistering" ELSE "registering"
    BY <1>1, SentLemma
  <2>2. reg' = [reg EXCEPT ![h] = r] /\ UNCHANGED <<pending, listener, bound>>
    BY <1>1, <1>6 DEF Challenged, TrunkTypes, sockets
  <2>. HIDE DEF r
  <2>3. r.state = "unregistering" => reg[h].state = "unregistering"
    BY <2>1
  <2>4. CASE h \in bound /\ UNCHANGED <<regTx, timer, flaws>>
    <3>1. regTx' = [regTx EXCEPT ![h] = regTx[h]]
      BY <1>1, <2>4 DEF TrunkTypes
    <3>2. /\ timer' \in {timer, timer \cup {h}, timer \ {h}}
          /\ flaws \subseteq flaws' /\ flaws' \subseteq Flaws
          /\ h \in pending /\ flaws' = {} => r.state = "unregistering" /\ h \notin timer'
      BY <1>1, <2>1, <2>4, OneHost DEF TrunkTypes
    <3>3. QED
      BY <1>1, <1>2, <1>3, <2>1, <2>2, <2>3, <3>1, <3>2, HostStep
  <2>5. CASE /\ regTx' = [regTx EXCEPT ![h] = @ - 1] /\ Schedule(h)
             /\ flaws' = flaws \cup (IF reg[h].state = "unregistering" THEN {"unsent"} ELSE {})
    <3>1. /\ timer' \in {timer, timer \cup {h}, timer \ {h}}
          /\ h \in useReg' => h \in timer'
          /\ flaws \subseteq flaws' /\ flaws' \subseteq Flaws
          /\ h \in pending => flaws' # {}
      BY <1>1, <1>2, <2>5, OneHost DEF TrunkTypes, Flaws
    <3>2. regTx' = [regTx EXCEPT ![h] = regTx[h] - 1]
      BY <2>5
    <3>3. QED
      BY <1>1, <1>2, <1>3, <2>1, <2>2, <2>3, <3>1, <3>2, HostStep
  <2>6. QED
    BY <1>6, <2>4, <2>5 DEF Challenged
<1>7. QED
  BY <1>4, <1>5, <1>6

-----------------------------------------------------------------------------
(* Activation and deactivation.                                            *)

\* A step that leaves every host alone.
LEMMA EndpointStep ==
    ASSUME TrInv, BeginBinding("ext") \/ BeginBinding("trunk") \/ ActivateExtensions \/ BindFails
    PROVE  TrInv'
<1>1. TrunkTypes
  BY TrunkTypesLemma DEF TrInv, TrunksSafe
<1>2. /\ UNCHANGED <<trunk, made, pending, bound, reusing, reg, useReg, regTx, timer, flaws>>
      /\ ext' \in BOOLEAN /\ listener' \in BOOLEAN /\ binding' \subseteq {"ext", "trunk"}
      /\ (listener' = listener /\ ext' = ext) \/ (listener' = TRUE /\ ext' = TRUE)
      /\ "trunk" \in binding' => "trunk" \in binding \/ (trunk = 0 /\ made + 1 \in Hosts)
  BY <1>1 DEF BeginBinding, ActivateExtensions, BindFails, sockets, TrunkTypes
<1>3. TrunkTypes'
  BY <1>1, <1>2 DEF TrunkTypes
<1>4. ListenerIffUsed' /\ KeepsRegistering' /\ UnregisterUnderWay'
  BY <1>2 DEF TrInv, TrunksSafe, ListenerIffUsed, KeepsRegistering, UnregisterUnderWay
<1>5. Unmade' /\ HostsInOrder' /\ ActivatesOnce'
  BY <1>2 DEF TrInv, Unmade, HostsInOrder, ActivatesOnce
<1>6. ServesNoUnregister' /\ SentOnOpenSocket' /\ PendingUnregisters'
  BY <1>2 DEF TrInv, ServesNoUnregister, SentOnOpenSocket, PendingUnregisters
<1>7. QED
  BY <1>3, <1>4, <1>5, <1>6, TrunkTypesLemma DEF TrInv, TrunksSafe, TrTypeOK, TrunkTypes

\* The next host is one that nobody knows.
LEMMA NextHost ==
    ASSUME TrInv, made + 1 \in Hosts
    PROVE  /\ reg[made + 1] = NoReg /\ regTx[made + 1] = 0
           /\ made + 1 \notin pending \cup useReg \cup timer \cup bound
           /\ made + 1 # trunk /\ made + 1 # reusing /\ made + 1 # 0
           /\ \A h \in Hosts : h > made + 1 => h > made /\ h # made + 1
           /\ trunk <= made + 1 /\ reusing <= made + 1
<1>1. TrunkTypes
  BY TrunkTypesLemma DEF TrInv, TrunksSafe
<1>2. made \in Nat /\ trunk \in Nat /\ reusing \in Nat /\ \A h \in Hosts : h \in Nat
  BY <1>1, HostLemma
<1>3. made + 1 > made /\ trunk <= made /\ reusing <= made
  BY <1>2 DEF TrInv, HostsInOrder
<1>4. QED
  BY <1>2, <1>3 DEF TrInv, Unmade

\* A new trunk registers at once, or needs no registration.
LEMMA ActivateTrunkStep ==
    ASSUME TrInv, ActivateTrunk
    PROVE  TrInv'
<1>. DEFINE h == made + 1
<1>1. TrunkTypes /\ trunk = 0 /\ h \in Hosts
  BY TrunkTypesLemma DEF TrInv, TrunksSafe, ActivateTrunk, ActivatesOnce
<1>2. /\ reg[h] = NoReg /\ regTx[h] = 0
      /\ h \notin pending \cup useReg \cup timer \cup bound
      /\ h # trunk /\ h # reusing /\ h # 0
      /\ \A g \in Hosts : g > h => g > made /\ g # h
      /\ trunk <= h /\ reusing <= h
  BY <1>1, NextHost
<1>3. h <= h
  BY <1>1, HostLemma
<1>4. /\ made' = h /\ trunk' = h /\ listener' = TRUE /\ bound' = bound \cup {h}
      /\ binding' = binding \ {"trunk"} /\ UNCHANGED <<ext, pending, reusing, flaws>>
  BY DEF ActivateTrunk
<1>5. \/ /\ useReg' = useReg \cup {h}
         /\ \/ /\ reg' = [reg EXCEPT ![h] = Sent(@, FALSE, FALSE, TRUE)]
               /\ regTx' = [regTx EXCEPT ![h] = @ + 1] /\ timer' = timer
            \/ /\ reg' = [reg EXCEPT ![h] = Sent(@, FALSE, FALSE, FALSE)]
               /\ timer' = timer \cup {h} /\ UNCHANGED regTx
      \/ UNCHANGED <<useReg, reg, regTx, timer>>
  BY DEF ActivateTrunk, SendTrunkRegister
<1>. HIDE DEF h
<1>. DEFINE Starts(r, n) ==
              /\ r.state # "unregistering"
              /\ reg' = [reg EXCEPT ![h] = r] /\ regTx' = [regTx EXCEPT ![h] = n]
              /\ timer' = timer \/ timer' = timer \cup {h}
              /\ useReg' = useReg \/ useReg' = useReg \cup {h}
              /\ h \in useReg' => n > 0 \/ h \in timer'
<1>6. \E r \in Regs, n \in 0 .. 2 : Starts(r, n)
  <2>. DEFINE sent == Sent(NoReg, FALSE, FALSE, TRUE)
              failed == Sent(NoReg, FALSE, FALSE, FALSE)
  <2>1. /\ sent \in Regs /\ sent.state # "unregistering"
        /\ failed \in Regs /\ failed.state # "unregistering"
    BY NoRegLemma, SentLemma
  <2>2. CASE /\ useReg' = useReg \cup {h}
             /\ reg' = [reg EXCEPT ![h] = Sent(@, FALSE, FALSE, TRUE)]
             /\ regTx' = [regTx EXCEPT ![h] = @ + 1] /\ timer' = timer
    <3>1. reg' = [reg EXCEPT ![h] = sent] /\ regTx' = [regTx EXCEPT ![h] = 1]
      BY <1>1, <1>2, <2>2 DEF TrunkTypes
    <3>. HIDE DEF sent, failed
    <3>2. 1 > 0 /\ 1 \in 0 .. 2
      OBVIOUS
    <3>3. Starts(sent, 1)
      BY <2>1, <2>2, <3>1, <3>2
    <3>. HIDE DEF Starts
    <3>4. QED
      BY <2>1, <3>2, <3>3
  <2>3. CASE /\ useReg' = useReg \cup {h}
             /\ reg' = [reg EXCEPT ![h] = Sent(@, FALSE, FALSE, FALSE)]
             /\ timer' = timer \cup {h} /\ UNCHANGED regTx
    <3>1. reg' = [reg EXCEPT ![h] = failed] /\ regTx' = [regTx EXCEPT ![h] = 0]
      BY <1>1, <1>2, <2>3 DEF TrunkTypes
    <3>. HIDE DEF sent, failed
    <3>2. Starts(failed, 0)
      BY <2>1, <2>3, <3>1
    <3>. HIDE DEF Starts
    <3>3. QED
      BY <2>1, <3>2
  <2>4. CASE UNCHANGED <<useReg, reg, regTx, timer>>
    <3>1. reg' = [reg EXCEPT ![h] = NoReg] /\ regTx' = [regTx EXCEPT ![h] = 0]
      BY <1>1, <1>2, <2>4 DEF TrunkTypes
    <3>2. Starts(NoReg, 0)
      BY <1>2, <2>4, <3>1, NoRegLemma
    <3>. HIDE DEF Starts
    <3>3. QED
      BY <3>2, NoRegLemma
  <2>5. QED
    BY <1>5, <2>2, <2>3, <2>4
<1>7. PICK r \in Regs, n \in 0 .. 2 : Starts(r, n)
  BY <1>6
<1>8. \A g \in Hosts : /\ reg'[g] = IF g = h THEN r ELSE reg[g]
                       /\ regTx'[g] = IF g = h THEN n ELSE regTx[g]
  BY <1>1, <1>7 DEF TrunkTypes
<1>9. TrunkTypes'
  BY <1>1, <1>4, <1>7 DEF TrunkTypes
<1>10. ListenerIffUsed' /\ HostsInOrder' /\ ActivatesOnce'
  BY <1>2, <1>3, <1>4 DEF ListenerIffUsed, HostsInOrder, ActivatesOnce
<1>11. KeepsRegistering' /\ ServesNoUnregister'
  BY <1>1, <1>2, <1>4, <1>7, <1>8 DEF KeepsRegistering, ServesNoUnregister
<1>12. UnregisterUnderWay' /\ PendingUnregisters'
  BY <1>1, <1>2, <1>4, <1>7, <1>8
  DEF TrInv, TrunksSafe, UnregisterUnderWay, PendingUnregisters, TrunkTypes
<1>13. Unmade'
  BY <1>1, <1>2, <1>4, <1>7, <1>8 DEF TrInv, Unmade
<1>14. SentOnOpenSocket'
  BY <1>4, <1>8 DEF TrInv, SentOnOpenSocket
<1>15. QED
  BY <1>9, <1>10, <1>11, <1>12, <1>13, <1>14, TrunkTypesLemma
  DEF TrInv, TrunksSafe, TrTypeOK, TrunkTypes

\* The trunk registers again, or a clone of it unregisters first.
LEMMA ReuseTrunkStep ==
    ASSUME TrInv, ReuseTrunk
    PROVE  TrInv'
<1>1. /\ TrunkTypes /\ trunk # 0 /\ trunk \in Hosts /\ reusing = 0
      /\ UNCHANGED <<ext, trunk, listener, binding, flaws>>
  BY TrunkTypesLemma DEF TrInv, TrunksSafe, ReuseTrunk, TrunkTypes
<1>2. /\ reg[trunk] \in Regs /\ regTx[trunk] \in 0 .. 2 /\ trunk <= made
      /\ trunk \in bound /\ trunk \notin pending
  BY <1>1, OneHost, MadeLemma
<1>3. CASE /\ useReg' = useReg \cup {trunk} /\ UNCHANGED <<bound, made, pending, reusing>>
           /\ SendTrunkRegister(trunk, FALSE, FALSE, timer \ {trunk}, useReg')
  <2>1. /\ useReg' \in {useReg, useReg \cup {trunk}, useReg \ {trunk}}
        /\ flaws \subseteq flaws' /\ flaws' \subseteq Flaws
    BY <1>1, <1>3 DEF TrunkTypes
  <2>2. ASSUME NEW out \in BOOLEAN, NEW n \in 0 .. 2,
               reg' = [reg EXCEPT ![trunk] = Sent(@, FALSE, FALSE, out)],
               regTx' = [regTx EXCEPT ![trunk] = n],
               timer' = timer \ {trunk} \/ timer' = timer \cup {trunk},
               n > 0 \/ trunk \in timer'
        PROVE  TrInv'
    <3>. DEFINE r == Sent(reg[trunk], FALSE, FALSE, out)
    <3>1. r \in Regs /\ r.state = "registering" /\ reg' = [reg EXCEPT ![trunk] = r]
      BY <1>1, <1>2, <2>2, SentLemma DEF TrunkTypes
    <3>2. timer' \in {timer, timer \cup {trunk}, timer \ {trunk}}
      BY <2>2
    <3>. HIDE DEF r
    <3>3. QED
      BY <1>1, <1>2, <1>3, <2>1, <2>2, <3>1, <3>2, HostStep
  <2>3. CASE /\ regTx[trunk] < 2
             /\ reg' = [reg EXCEPT ![trunk] = Sent(@, FALSE, FALSE, TRUE)]
             /\ regTx' = [regTx EXCEPT ![trunk] = @ + 1] /\ timer' = timer \ {trunk}
    <3>1. regTx[trunk] + 1 \in 0 .. 2 /\ regTx' = [regTx EXCEPT ![trunk] = regTx[trunk] + 1]
          /\ regTx[trunk] + 1 > 0
      BY <1>2, <2>3
    <3>2. QED
      BY <2>2, <2>3, <3>1
  <2>4. CASE /\ reg' = [reg EXCEPT ![trunk] = Sent(@, FALSE, FALSE, FALSE)]
             /\ timer' = (timer \ {trunk}) \cup {trunk} /\ UNCHANGED regTx
    <3>1. regTx' = [regTx EXCEPT ![trunk] = regTx[trunk]] /\ timer' = timer \cup {trunk}
      BY <1>1, <2>4 DEF TrunkTypes
    <3>2. QED
      BY <1>2, <2>2, <2>4, <3>1
  <2>5. QED
    BY <1>3, <2>3, <2>4 DEF SendTrunkRegister
<1>4. CASE /\ made + 1 \in Hosts /\ reg[trunk].state # "none"
           /\ made' = made + 1 /\ reusing' = trunk
           /\ bound' = bound \cup {made + 1} /\ timer' = timer \ {trunk}
           /\ \/ /\ pending' = pending \cup {made + 1}
                 /\ useReg' = useReg \cup {made + 1}
                 /\ reg' = [reg EXCEPT ![made + 1] = Sent(reg[trunk], TRUE, FALSE, TRUE)]
                 /\ regTx' = [regTx EXCEPT ![made + 1] = 1]
              \/ UNCHANGED <<pending, useReg, reg, regTx>>
  <2>. DEFINE h == made + 1
  <2>1. /\ reg[h] = NoReg /\ regTx[h] = 0 /\ h \in Hosts
        /\ h \notin pending \cup useReg \cup timer \cup bound
        /\ h # trunk /\ h # 0
        /\ \A g \in Hosts : g > h => g > made /\ g # h
        /\ trunk <= h /\ reusing <= h
    BY <1>4, NextHost
  <2>. DEFINE r == Sent(reg[trunk], TRUE, FALSE, TRUE)
  <2>2. r \in Regs /\ r.state = "unregistering"
    BY <1>2, SentLemma
  <2>3. /\ made' = h /\ reusing' = trunk /\ bound' = bound \cup {h} /\ timer' = timer \ {trunk}
        /\ \/ /\ pending' = pending \cup {h} /\ useReg' = useReg \cup {h}
              /\ reg' = [reg EXCEPT ![h] = r] /\ regTx' = [regTx EXCEPT ![h] = 1]
           \/ UNCHANGED <<pending, useReg, reg, regTx>>
    BY <1>4
  <2>. HIDE DEF h, r
  <2>4. TrunkTypes' /\ \A g \in Hosts : g # h => reg'[g] = reg[g] /\ regTx'[g] = regTx[g]
    <3>1. reg' \in [Hosts -> Regs] /\ \A g \in Hosts : g # h => reg'[g] = reg[g]
      BY <1>1, <2>2, <2>3 DEF TrunkTypes
    <3>2. regTx' \in [Hosts -> 0 .. 2] /\ \A g \in Hosts : g # h => regTx'[g] = regTx[g]
      BY <1>1, <2>3 DEF TrunkTypes
    <3>3. QED
      BY <1>1, <2>1, <2>3, <3>1, <3>2 DEF TrunkTypes
  <2>5. h \in pending' => reg'[h].state = "unregistering" /\ regTx'[h] > 0
    BY <1>1, <2>1, <2>2, <2>3 DEF TrunkTypes
  <2>6. listener = TRUE /\ ListenerIffUsed'
    BY <1>1, <2>3 DEF TrInv, TrunksSafe, ListenerIffUsed, TrunkTypes
  <2>7. KeepsRegistering' /\ HostsInOrder' /\ ActivatesOnce'
    BY <1>1, <2>1, <2>3 DEF KeepsRegistering, HostsInOrder, ActivatesOnce, TrInv
  <2>8. ServesNoUnregister'
    BY <1>1, <1>2, <2>1, <2>3, <2>4 DEF TrInv, ServesNoUnregister
  <2>9. UnregisterUnderWay'
    BY <1>1, <2>3, <2>4, <2>5 DEF TrInv, TrunksSafe, UnregisterUnderWay, TrunkTypes
  <2>10. PendingUnregisters'
    BY <1>1, <2>1, <2>3, <2>4, <2>5 DEF TrInv, PendingUnregisters, TrunkTypes
  <2>11. Unmade'
    BY <2>1, <2>3, <2>4 DEF TrInv, Unmade
  <2>12. SentOnOpenSocket'
    BY <1>1, <2>3, <2>4, <2>6 DEF TrInv, SentOnOpenSocket
  <2>13. QED
    BY <2>4, <2>6, <2>7, <2>8, <2>9, <2>10, <2>11, <2>12, TrunkTypesLemma
    DEF TrInv, TrunksSafe, TrTypeOK, TrunkTypes
<1>5. QED
  BY <1>3, <1>4 DEF ReuseTrunk

\* The extensions leave; without a trunk the listener goes, under whatever
\* unregisters.
LEMMA DeactivateExtensionsStep ==
    ASSUME TrInv, DeactivateExtensions
    PROVE  TrInv'
<1>1. TrunkTypes /\ 0 \notin Hosts
  BY TrunkTypesLemma, HostLemma DEF TrInv, TrunksSafe
<1>2. UNCHANGED <<trunk, made, pending, binding, reusing, reg, useReg, timer>> /\ ext' = FALSE
  BY DEF DeactivateExtensions
<1>3. HostsInOrder' /\ ActivatesOnce'
  BY <1>2 DEF TrInv, HostsInOrder, ActivatesOnce
<1>4. CASE trunk = 0
  <2>1. /\ listener' = FALSE /\ bound' = {} /\ regTx' = [h \in Hosts |-> 0]
        /\ flaws' = flaws \cup (IF pending # {} THEN {"stranded"} ELSE {})
    BY <1>4 DEF DeactivateExtensions, CloseUdpListener
  <2>2. TrunkTypes'
    <3>1. regTx' \in [Hosts -> 0 .. 2]
      BY <2>1
    <3>2. QED
      BY <1>1, <1>2, <2>1, <3>1 DEF TrunkTypes, Flaws
  <2>3. ListenerIffUsed' /\ SentOnOpenSocket'
    BY <1>2, <1>4, <2>1 DEF ListenerIffUsed, SentOnOpenSocket
  <2>4. KeepsRegistering' /\ ServesNoUnregister'
    BY <1>1, <1>2, <1>4 DEF KeepsRegistering, ServesNoUnregister, TrunkTypes
  <2>5. UnregisterUnderWay' /\ PendingUnregisters'
    BY <1>2, <2>1 DEF UnregisterUnderWay, PendingUnregisters
  <2>6. Unmade'
    BY <1>2, <2>1 DEF TrInv, Unmade
  <2>7. QED
    BY <1>3, <2>2, <2>3, <2>4, <2>5, <2>6, TrunkTypesLemma
    DEF TrInv, TrunksSafe, TrTypeOK, TrunkTypes
<1>5. CASE trunk # 0
  <2>1. UNCHANGED <<listener, bound, regTx, flaws>>
    BY <1>1, <1>5 DEF DeactivateExtensions, sockets, TrunkTypes
  <2>2. TrunkTypes'
    BY <1>1, <1>2, <2>1 DEF TrunkTypes
  <2>3. ListenerIffUsed' /\ SentOnOpenSocket' /\ KeepsRegistering' /\ ServesNoUnregister'
    BY <1>2, <1>5, <2>1 DEF TrInv, TrunksSafe, ListenerIffUsed, SentOnOpenSocket,
       KeepsRegistering, ServesNoUnregister
  <2>4. UnregisterUnderWay' /\ PendingUnregisters' /\ Unmade'
    BY <1>2, <2>1 DEF TrInv, TrunksSafe, UnregisterUnderWay, PendingUnregisters, Unmade
  <2>5. QED
    BY <1>3, <2>2, <2>3, <2>4, TrunkTypesLemma DEF TrInv, TrunksSafe, TrTypeOK, TrunkTypes
<1>6. QED
  BY <1>4, <1>5

\* The trunk leaves: it unregisters in the background, or it is forgotten and
\* the last user closes the listener.
LEMMA DeactivateTrunkStep ==
    ASSUME TrInv, DeactivateTrunk
    PROVE  TrInv'
<1>1. /\ TrunkTypes /\ 0 \notin Hosts /\ trunk \in Hosts /\ trunk # 0 /\ made \in Nat
      /\ listener = TRUE
  BY TrunkTypesLemma, HostLemma
  DEF TrInv, TrunksSafe, DeactivateTrunk, TrunkTypes, ListenerIffUsed
<1>2. /\ reg[trunk] \in Regs /\ regTx[trunk] \in 0 .. 2 /\ trunk <= made
      /\ trunk \in bound /\ trunk \notin pending
  BY <1>1, OneHost, MadeLemma
<1>3. UNCHANGED <<ext, made, binding, reusing, useReg, flaws>> /\ trunk' = 0
      /\ timer' = timer \ {trunk}
  BY DEF DeactivateTrunk
<1>4. HostsInOrder' /\ ActivatesOnce' /\ KeepsRegistering' /\ ServesNoUnregister'
  BY <1>1, <1>3 DEF TrInv, HostsInOrder, ActivatesOnce, KeepsRegistering, ServesNoUnregister,
     TrunkTypes
<1>5. \A h \in Hosts : h > made => h # trunk
  BY <1>2, HostLemma, <1>1
<1>. DEFINE Rests == /\ reg' \in [Hosts -> Regs] /\ pending' = pending
                    /\ \A h \in Hosts : h # trunk => reg'[h] = reg[h]
<1>6. ASSUME Rests, ext \/ pending # {}, UNCHANGED <<listener, bound, regTx>>
      PROVE  TrInv'
  <2>1. TrunkTypes'
    BY <1>1, <1>3, <1>6 DEF TrunkTypes
  <2>2. ListenerIffUsed' /\ SentOnOpenSocket'
    BY <1>1, <1>3, <1>6 DEF ListenerIffUsed, TrInv, SentOnOpenSocket
  <2>3. UnregisterUnderWay'
    BY <1>3, <1>6 DEF TrInv, TrunksSafe, UnregisterUnderWay
  <2>4. PendingUnregisters' /\ Unmade'
    BY <1>1, <1>2, <1>3, <1>5, <1>6 DEF TrInv, PendingUnregisters, Unmade, TrunkTypes
  <2>5. QED
    BY <1>4, <2>1, <2>2, <2>3, <2>4, TrunkTypesLemma
    DEF TrInv, TrunksSafe, TrTypeOK, TrunkTypes
<1>7. ASSUME Rests, ~ext, pending = {}, CloseUdpListener
      PROVE  TrInv'
  <2>1. listener' = FALSE /\ bound' = {} /\ regTx' = [h \in Hosts |-> 0]
    BY <1>7 DEF CloseUdpListener
  <2>2. TrunkTypes'
    <3>1. regTx' \in [Hosts -> 0 .. 2]
      BY <2>1
    <3>2. QED
      BY <1>1, <1>3, <1>7, <2>1, <3>1 DEF TrunkTypes
  <2>3. ListenerIffUsed' /\ SentOnOpenSocket' /\ UnregisterUnderWay' /\ PendingUnregisters'
    BY <1>3, <1>7, <2>1 DEF ListenerIffUsed, SentOnOpenSocket, UnregisterUnderWay,
       PendingUnregisters
  <2>4. Unmade'
    BY <1>3, <1>5, <1>7, <2>1 DEF TrInv, Unmade
  <2>5. QED
    BY <1>4, <2>2, <2>3, <2>4, TrunkTypesLemma DEF TrInv, TrunksSafe, TrTypeOK, TrunkTypes
<1>8. CASE reg[trunk].state = "none"
  <2>1. Rests
    BY <1>1, <1>8 DEF DeactivateTrunk, TrunkTypes
  <2>2. IF ~ext /\ pending = {} THEN CloseUdpListener ELSE UNCHANGED <<listener, bound, regTx>>
    BY <1>8 DEF DeactivateTrunk, sockets
  <2>. HIDE DEF Rests
  <2>3. QED
    BY <1>6, <1>7, <2>1, <2>2
<1>9. CASE /\ pending' = pending /\ reg' = [reg EXCEPT ![trunk] = NoReg]
           /\ IF ~ext /\ pending = {} THEN CloseUdpListener ELSE UNCHANGED <<sockets, regTx>>
  <2>1. Rests
    BY <1>1, <1>9, NoRegLemma DEF TrunkTypes
  <2>2. IF ~ext /\ pending = {} THEN CloseUdpListener ELSE UNCHANGED <<listener, bound, regTx>>
    BY <1>9 DEF sockets
  <2>. HIDE DEF Rests
  <2>3. QED
    BY <1>6, <1>7, <2>1, <2>2
<1>10. CASE /\ regTx[trunk] < 2 /\ pending' = pending \cup {trunk}
            /\ reg' = [reg EXCEPT ![trunk] = Sent(@, TRUE, FALSE, TRUE)]
            /\ regTx' = [regTx EXCEPT ![trunk] = @ + 1] /\ UNCHANGED sockets
  <2>. DEFINE r == Sent(reg[trunk], TRUE, FALSE, TRUE)
  <2>1. r \in Regs /\ r.state = "unregistering"
    BY <1>2, SentLemma
  <2>2. reg' = [reg EXCEPT ![trunk] = r] /\ UNCHANGED <<listener, bound>>
    BY <1>1, <1>10 DEF TrunkTypes, sockets
  <2>. HIDE DEF r
  <2>3. reg' \in [Hosts -> Regs] /\ reg'[trunk].state = "unregistering"
        /\ \A h \in Hosts : h # trunk => reg'[h] = reg[h]
    BY <1>1, <2>1, <2>2 DEF TrunkTypes
  <2>4. regTx[trunk] + 1 \in 0 .. 2 /\ regTx[trunk] + 1 > 0
    BY <1>2, <1>10
  <2>5. regTx' \in [Hosts -> 0 .. 2] /\ regTx'[trunk] > 0
        /\ \A h \in Hosts : h # trunk => regTx'[h] = regTx[h]
    BY <1>1, <1>10, <2>4 DEF TrunkTypes
  <2>6. TrunkTypes'
    BY <1>1, <1>3, <1>10, <2>2, <2>3, <2>5 DEF TrunkTypes
  <2>7. ListenerIffUsed' /\ SentOnOpenSocket'
    BY <1>1, <1>2, <1>3, <1>10, <2>2, <2>5 DEF ListenerIffUsed, TrInv, SentOnOpenSocket
  <2>8. UnregisterUnderWay'
    BY <1>1, <1>3, <1>10, <2>5 DEF TrInv, TrunksSafe, UnregisterUnderWay, TrunkTypes
  <2>9. PendingUnregisters'
    BY <1>1, <1>3, <1>10, <2>3 DEF TrInv, PendingUnregisters, TrunkTypes
  <2>10. Unmade'
    BY <1>3, <1>5, <1>10, <2>2, <2>3, <2>5 DEF TrInv, Unmade
  <2>11. QED
    BY <1>4, <2>6, <2>7, <2>8, <2>9, <2>10, TrunkTypesLemma
    DEF TrInv, TrunksSafe, TrTypeOK, TrunkTypes
<1>11. QED
  BY <1>8, <1>9, <1>10 DEF DeactivateTrunk

-----------------------------------------------------------------------------
LEMMA TrInitHolds == TrInit => TrInv
<1>. SUFFICES ASSUME TrInit PROVE TrInv
  OBVIOUS
<1>1. 0 \notin Hosts /\ NoReg \in Regs
  BY HostLemma, NoRegLemma
<1>2. reg \in [Hosts -> Regs] /\ regTx \in [Hosts -> 0 .. 2]
  BY <1>1 DEF TrInit
<1>3. TrunkTypes
  BY <1>2 DEF TrInit, TrunkTypes, Flaws
<1>4. ListenerIffUsed /\ KeepsRegistering /\ UnregisterUnderWay
  BY DEF TrInit, ListenerIffUsed, KeepsRegistering, UnregisterUnderWay
<1>5. HostsInOrder /\ ActivatesOnce /\ ServesNoUnregister
  BY DEF TrInit, HostsInOrder, ActivatesOnce, ServesNoUnregister
<1>6. SentOnOpenSocket /\ PendingUnregisters /\ Unmade
  BY DEF TrInit, SentOnOpenSocket, PendingUnregisters, Unmade
<1>7. QED
  BY <1>3, <1>4, <1>5, <1>6, TrunkTypesLemma DEF TrInv, TrunksSafe

LEMMA TrStepHolds ==
    ASSUME TrInv, [TrNext]_trVars
    PROVE  TrInv'
<1>1. CASE TrNext
  <2>1. CASE Continuations
    BY <2>1, EndpointStep, ActivateTrunkStep, ReuseEndsStep, RegisterFailsStep,
       OrphanTimesOutStep, TimerFiresStep DEF Continuations
  <2>2. CASE \E kind \in {"ext", "trunk"} : BeginBinding(kind)
    BY <2>2, EndpointStep
  <2>3. CASE BindFails \/ ReuseTrunk \/ DeactivateExtensions \/ DeactivateTrunk
    BY <2>3, EndpointStep, ReuseTrunkStep, DeactivateExtensionsStep, DeactivateTrunkStep
  <2>4. CASE \E h \in Hosts : \/ RegisterAccepted(h) \/ IntervalTooBrief(h)
                              \/ Challenged(h) \/ ChallengedInVain(h) \/ NonceExpires(h)
    BY <2>4, RegisterAcceptedStep, IntervalTooBriefStep, ChallengedStep, ChallengedInVainStep,
       NonceExpiresStep
  <2>5. QED
    BY <1>1, <2>1, <2>2, <2>3, <2>4 DEF TrNext
<1>2. CASE UNCHANGED trVars
  <2>1. UNCHANGED <<ext, trunk, made, pending, listener, bound, binding, reusing, reg, useReg,
                    regTx, timer, flaws>>
    BY <1>2 DEF trVars
  <2>2. TrTypeOK' /\ ListenerIffUsed' /\ KeepsRegistering' /\ UnregisterUnderWay'
    BY <2>1 DEF TrInv, TrunksSafe, TrTypeOK, ListenerIffUsed, KeepsRegistering,
       UnregisterUnderWay
  <2>3. Unmade' /\ HostsInOrder' /\ ActivatesOnce' /\ ServesNoUnregister'
        /\ SentOnOpenSocket' /\ PendingUnregisters'
    BY <2>1 DEF TrInv, Unmade, HostsInOrder, ActivatesOnce, ServesNoUnregister,
       SentOnOpenSocket, PendingUnregisters
  <2>4. QED
    BY <2>2, <2>3 DEF TrInv, TrunksSafe
<1>3. QED
  BY <1>1, <1>2

\* For any number of activations, whatever the registrar answers or does not,
\* and however activations, deactivations, refreshes and time-outs interleave:
\* the listener is open exactly while somebody uses it, a trunk that registers
\* always has a REGISTER or a timer, and an unregister has one under way, unless
\* one of the named mishaps happened (activateTrunkTrigger, deactivateTrunkTrigger,
\* handleTrunkRegisterResponse, finalizePendingTrunkUnregister).
THEOREM TrunksAreSafe == TrSpec => []TrunksSafe
<1>1. TrInit => TrInv
  BY TrInitHolds
<1>2. TrInv /\ [TrNext]_trVars => TrInv'
  BY TrStepHolds
<1>3. TrInv => TrunksSafe
  BY DEF TrInv
<1>4. QED
  BY <1>1, <1>2, <1>3, PTL DEF TrSpec

-----------------------------------------------------------------------------
(* The attempt.                                                            *)

\* Before the session nothing was sent and no socket was closed.
NothingYet ==
    startup # "off" => /\ session = "none" /\ tx = {} /\ asked = {} /\ closes = 0
                       /\ accepting = 0 /\ mishaps = {}
                       /\ \A k \in Invites : refusing[k] = 0

\* The INVITEs go out one after the other, each for a challenge of the last.
InvitesInOrder ==
    /\ \A k \in Invites : /\ INVITE(k) \in asked => k <= cseq
                          /\ k < cseq => verdict[k] = "challenge"
                          /\ verdict[k] # "none" => INVITE(k) \in asked
                          /\ refusing[k] > 0 => verdict[k] \in {"challenge", "refused"}
    /\ remote \in {"accepted", "talking"} => verdict[cseq] = "200"
    /\ session = "answered" \/ accepting > 0 => verdict[cseq] = "200"
    /\ remote \in {"idle", "ringing"} => \A k \in Invites : verdict[k] \in {"none", "challenge"}
    /\ hungUp => remote = "over" /\ verdict[cseq] = "200"

\* A handler of a 200 OK finds an answered session, or none.
AcceptsAnswered == accepting > 0 => session \in {"answered", "none"}

\* Nobody is left on the line, at any time.
NobodyIsLeft ==
    mishaps = {} /\ session = "none" =>
        /\ Current = {}
        /\ remote \in {"accepted", "talking"} => BYE \in asked

\* A leg that was hung up has a session no more, or one that is cancelled.
HungUpLegs ==
    leg \in {"told", "cleaned", "gone"} =>
        /\ startup = "media" => cancelled
        /\ session \in {"none", "cancelling"} \/ mishaps # {}

\* The transaction of a BYE is all that is left of a session, and its end
\* closes the socket.
ByeClosesSocket ==
    /\ BYE \in tx => session = "none"
    /\ own /\ BYE \in tx => closes = 0
    /\ own /\ startup = "off" /\ session = "none" /\ closes = 0 => BYE \in tx
    /\ own /\ closes > 1 => mishaps \cap {"twice", "unsent"} # {}
    /\ own /\ closes > 0 => session = "none" \/ "unsent" \in mishaps

\* A session that waits for an answer has a transaction, or a refusal.
UnderATimer ==
    session \in {"inviting", "cancelling"} =>
        \/ \E k \in Invites : INVITE(k) \in tx \/ refusing[k] > 0
        \/ mishaps \cap {"shut", "unsent"} # {}

OutInv ==
    /\ OutTypeOK /\ NothingYet /\ InvitesInOrder /\ AcceptsAnswered /\ NobodyIsLeft
    /\ HungUpLegs /\ ByeClosesSocket /\ UnderATimer

\* The requests of a call are told apart by their method and number.
LEMMA RequestsDiffer ==
    /\ CANCEL # BYE /\ CANCEL # ACK /\ BYE # ACK
    /\ CANCEL[1] # "INVITE" /\ BYE[1] # "INVITE" /\ ACK[1] # "INVITE"
    /\ \A k \in Invites : /\ INVITE(k) # CANCEL /\ INVITE(k) # BYE /\ INVITE(k) # ACK
                          /\ INVITE(k)[1] = "INVITE"
                          /\ \A j \in Invites : INVITE(j) = INVITE(k) => j = k
    /\ {CANCEL, ACK, BYE} \subseteq Requests /\ \A k \in Invites : INVITE(k) \in Requests
    /\ \A t \in Requests : t \in {CANCEL, ACK, BYE} \/ \E k \in Invites : t = INVITE(k)
BY DEF INVITE, CANCEL, ACK, BYE, Requests

\* What a report does to a leg, and a close to its socket.
LEMMA Reporting ==
    ASSUME OutTypeOK, NEW outcome \in {"answered", "rejected", "failed"}, Report(outcome)
    PROVE  /\ reports' \subseteq {"answered", "rejected", "failed"}
           /\ leg' = leg \/ leg' = "ended"
           /\ leg' \in {"live", "ended", "told", "cleaned", "gone"}
           /\ leg \in {"told", "cleaned", "gone"} <=> leg' \in {"told", "cleaned", "gone"}
BY DEF OutTypeOK, Report

LEMMA Closing ==
    ASSUME OutTypeOK, Close
    PROVE  /\ closes' \in 0 .. 2 /\ (~own => closes' = closes)
           /\ own => closes' > 0 /\ (closes = 0 => closes' = 1)
BY DEF OutTypeOK, Close

\* What sending an INVITE leaves: a transaction and a datagram, or a mishap.
LEMMA Inviting ==
    ASSUME OutTypeOK, NEW k \in Invites, SendInvite(k)
    PROVE  /\ asked' \subseteq Requests /\ tx' \subseteq Requests \ {ACK} /\ mishaps' \subseteq Mishaps
           /\ mishaps \subseteq mishaps'
           /\ mishaps' \cap {"shut", "unsent"} = {} => INVITE(k) \in tx'
           /\ asked \subseteq asked' /\ asked' \subseteq asked \cup {INVITE(k)}
           /\ tx \subseteq tx' /\ tx' \subseteq tx \cup {INVITE(k)}
           /\ mishaps' = {} => INVITE(k) \in asked' /\ ~(k > 1 /\ session = "none")
BY RequestsDiffer DEF OutTypeOK, SendInvite, Mishaps

\* An INVITE that went out was answered before the next one.
LEMMA NoneIsOpen ==
    ASSUME OutInv, verdict[cseq] # "none", NEW k \in Invites, INVITE(k) \in asked
    PROVE  verdict[k] # "none"
<1>1. k <= cseq /\ k \in Nat /\ cseq \in Nat
    BY DEF OutInv, OutTypeOK, InvitesInOrder, Invites
<1> QED
    BY <1>1 DEF OutInv, OutTypeOK, InvitesInOrder

\* One lemma for every step of the daemon, one leaf for every part.
LEMMA StartAttemptKeeps ==
    ASSUME OutInv, StartAttempt
    PROVE  OutInv'
<1>1. OutTypeOK'
    <2>1. /\ reports' \subseteq {"answered", "rejected", "failed"}
          /\ leg' \in {"live", "ended", "told", "cleaned", "gone"}
        BY Reporting DEF OutInv, OutTypeOK, StartAttempt
    <2> QED
        BY <2>1 DEF OutInv, OutTypeOK, StartAttempt, outSettings, outWorld
<1>2. NothingYet'
    BY RequestsDiffer DEF OutInv, NothingYet, OutTypeOK, StartAttempt, Report, outSettings,
       outWorld
<1>3. InvitesInOrder'
    BY RequestsDiffer DEF OutInv, InvitesInOrder, OutTypeOK, NothingYet, StartAttempt,
       Report, outSettings, outWorld
<1>4. AcceptsAnswered'
    BY RequestsDiffer DEF OutInv, AcceptsAnswered, OutTypeOK, NothingYet, StartAttempt,
       Report, outSettings, outWorld
<1>5. NobodyIsLeft'
    BY RequestsDiffer DEF OutInv, NobodyIsLeft, Current, OutTypeOK, NothingYet,
       InvitesInOrder, HungUpLegs, StartAttempt, Report, outSettings, outWorld
<1>6. HungUpLegs'
    BY RequestsDiffer DEF OutInv, HungUpLegs, OutTypeOK, NothingYet, StartAttempt, Report,
       outSettings, outWorld
<1>7. ByeClosesSocket'
    BY RequestsDiffer DEF OutInv, ByeClosesSocket, OutTypeOK, NothingYet, StartAttempt,
       Report, outSettings, outWorld
<1>8. UnderATimer'
    BY RequestsDiffer DEF OutInv, UnderATimer, OutTypeOK, NothingYet, AcceptsAnswered,
       StartAttempt, Report, outSettings, outWorld
<1> QED
    BY <1>1, <1>2, <1>3, <1>4, <1>5, <1>6, <1>7, <1>8 DEF OutInv

LEMMA RegisterStartupKeeps ==
    ASSUME OutInv, RegisterStartup
    PROVE  OutInv'
<1>1. OutTypeOK'
    BY RequestsDiffer, CopiesAssumption DEF OutInv, OutTypeOK, NothingYet, Mishaps,
       RegisterStartup, Close, outSettings, outWorld
<1>2. NothingYet'
    BY RequestsDiffer DEF OutInv, NothingYet, OutTypeOK, RegisterStartup, Close,
       outSettings, outWorld
<1>3. InvitesInOrder'
    BY RequestsDiffer DEF OutInv, InvitesInOrder, OutTypeOK, NothingYet, RegisterStartup,
       Close, outSettings, outWorld
<1>4. AcceptsAnswered'
    BY RequestsDiffer DEF OutInv, AcceptsAnswered, OutTypeOK, NothingYet, RegisterStartup,
       Close, outSettings, outWorld
<1>5. NobodyIsLeft'
    BY RequestsDiffer DEF OutInv, NobodyIsLeft, Current, OutTypeOK, NothingYet,
       InvitesInOrder, HungUpLegs, RegisterStartup, Close, outSettings, outWorld
<1>6. HungUpLegs'
    BY RequestsDiffer DEF OutInv, HungUpLegs, OutTypeOK, NothingYet, RegisterStartup, Close,
       outSettings, outWorld
<1>7. ByeClosesSocket'
    BY RequestsDiffer DEF OutInv, ByeClosesSocket, OutTypeOK, NothingYet, RegisterStartup,
       Close, outSettings, outWorld
<1>8. UnderATimer'
    BY RequestsDiffer DEF OutInv, UnderATimer, OutTypeOK, NothingYet, AcceptsAnswered,
       RegisterStartup, Close, outSettings, outWorld
<1> QED
    BY <1>1, <1>2, <1>3, <1>4, <1>5, <1>6, <1>7, <1>8 DEF OutInv

LEMMA InstallSessionKeeps ==
    ASSUME OutInv, InstallSession
    PROVE  OutInv'
<1>0. /\ startup = "media" /\ startup' = "off" /\ session = "none" /\ tx = {} /\ asked = {}
      /\ closes = 0 /\ accepting = 0 /\ mishaps = {} /\ \A k \in Invites : refusing[k] = 0
      /\ UNCHANGED <<cancelled, cseq, accepting, refusing>>
      /\ UNCHANGED <<own, auth, reachable, remote, verdict, hungUp, byeOk>>
      /\ OutTypeOK /\ 1 \in Invites /\ 1 <= cseq
    BY DEF OutInv, OutTypeOK, NothingYet, InstallSession, outSettings, outWorld, Invites
<1>1. CASE \/ Close /\ Report("failed") /\ UNCHANGED <<session, tx, asked, mishaps>>
           \/ cancelled /\ Close /\ UNCHANGED <<session, tx, asked, mishaps, reports, leg>>
    <2>0. /\ UNCHANGED <<session, tx, asked, mishaps>>
          /\ closes' \in 0 .. 2 /\ (~own => closes' = 0) /\ (own => closes' = 1)
          /\ reports' \subseteq {"answered", "rejected", "failed"}
          /\ leg' \in {"live", "ended", "told", "cleaned", "gone"}
          /\ leg \in {"told", "cleaned", "gone"} <=> leg' \in {"told", "cleaned", "gone"}
        BY <1>0, <1>1, Reporting, Closing DEF OutTypeOK
    <2>1. OutTypeOK'
        BY <1>0, <2>0, RequestsDiffer, CopiesAssumption DEF OutInv, OutTypeOK, NothingYet,
           Mishaps
    <2>2. NothingYet'
        BY <1>0, <2>0, RequestsDiffer DEF OutInv, NothingYet, OutTypeOK
    <2>3. InvitesInOrder'
        BY <1>0, <2>0, RequestsDiffer DEF OutInv, InvitesInOrder, OutTypeOK, NothingYet
    <2>4. AcceptsAnswered'
        BY <1>0, <2>0, RequestsDiffer DEF OutInv, AcceptsAnswered, OutTypeOK, NothingYet
    <2>5. NobodyIsLeft'
        BY <1>0, <2>0, RequestsDiffer DEF OutInv, NobodyIsLeft, Current, OutTypeOK,
           NothingYet, InvitesInOrder, HungUpLegs
    <2>6. HungUpLegs'
        BY <1>0, <2>0, RequestsDiffer DEF OutInv, HungUpLegs, OutTypeOK, NothingYet
    <2>7. ByeClosesSocket'
        BY <1>0, <2>0, RequestsDiffer DEF OutInv, ByeClosesSocket, OutTypeOK, NothingYet
    <2>8. UnderATimer'
        BY <1>0, <2>0, RequestsDiffer DEF OutInv, UnderATimer, OutTypeOK, NothingYet,
           AcceptsAnswered
    <2> QED
        BY <2>1, <2>2, <2>3, <2>4, <2>5, <2>6, <2>7, <2>8 DEF OutInv
<1>2. CASE /\ ~cancelled /\ session' = "inviting" /\ SendInvite(1) /\ UNCHANGED closes
           /\ UNCHANGED <<reports, leg>> \/ Report("failed")
    <2>0. /\ asked' \subseteq Requests /\ tx' \subseteq Requests \ {ACK} /\ mishaps' \subseteq Mishaps
          /\ asked' \subseteq {INVITE(1)} /\ tx' \subseteq {INVITE(1)}
          /\ mishaps' \cap {"shut", "unsent"} = {} => INVITE(1) \in tx'
          /\ reports' \subseteq {"answered", "rejected", "failed"}
          /\ leg' \in {"live", "ended", "told", "cleaned", "gone"}
          /\ leg \in {"told", "cleaned", "gone"} <=> leg' \in {"told", "cleaned", "gone"}
        BY <1>0, <1>2, Reporting, Inviting DEF OutTypeOK
    <2>1. OutTypeOK'
        BY <1>0, <1>2, <2>0, RequestsDiffer, CopiesAssumption DEF OutInv, OutTypeOK,
           NothingYet, Mishaps
    <2>2. NothingYet'
        BY <1>0, <1>2, <2>0, RequestsDiffer DEF OutInv, NothingYet, OutTypeOK
    <2>3. InvitesInOrder'
        BY <1>0, <1>2, <2>0, RequestsDiffer DEF OutInv, InvitesInOrder, OutTypeOK,
           NothingYet
    <2>4. AcceptsAnswered'
        BY <1>0, <1>2, <2>0, RequestsDiffer DEF OutInv, AcceptsAnswered, OutTypeOK,
           NothingYet
    <2>5. NobodyIsLeft'
        BY <1>0, <1>2, <2>0, RequestsDiffer DEF OutInv, NobodyIsLeft, Current, OutTypeOK,
           NothingYet, InvitesInOrder, HungUpLegs
    <2>6. HungUpLegs'
        BY <1>0, <1>2, <2>0, RequestsDiffer DEF OutInv, HungUpLegs, OutTypeOK, NothingYet
    <2>7. ByeClosesSocket'
        BY <1>0, <1>2, <2>0, RequestsDiffer DEF OutInv, ByeClosesSocket, OutTypeOK,
           NothingYet
    <2>8. UnderATimer'
        BY <1>0, <1>2, <2>0, RequestsDiffer DEF OutInv, UnderATimer, OutTypeOK,
           NothingYet, AcceptsAnswered
    <2> QED
        BY <2>1, <2>2, <2>3, <2>4, <2>5, <2>6, <2>7, <2>8 DEF OutInv
<1> QED
    BY <1>1, <1>2 DEF InstallSession

LEMMA AcceptedKeeps ==
    ASSUME OutInv, Accepted
    PROVE  OutInv'
<1>1. OutTypeOK'
    BY RequestsDiffer, CopiesAssumption DEF OutInv, OutTypeOK, NothingYet, Mishaps,
       Accepted, Delivered, outSettings, outWorld
<1>2. NothingYet'
    BY RequestsDiffer DEF OutInv, NothingYet, OutTypeOK, Accepted, Delivered, outSettings,
       outWorld
<1>3. InvitesInOrder'
    <2>1. PICK k \in Invites : verdict[k] = "200" /\ Delivered(k)
        BY DEF Accepted
    <2>2. k = cseq
        BY <2>1 DEF OutInv, OutTypeOK, InvitesInOrder, Delivered, Invites
    <2> QED
        BY <2>1, <2>2, RequestsDiffer
        DEF OutInv, InvitesInOrder, OutTypeOK, Accepted, outSettings, outWorld
<1>4. AcceptsAnswered'
    BY RequestsDiffer DEF OutInv, AcceptsAnswered, OutTypeOK, NothingYet, Accepted,
       Delivered, outSettings, outWorld
<1>5. NobodyIsLeft'
    BY RequestsDiffer DEF OutInv, NobodyIsLeft, Current, OutTypeOK, NothingYet,
       InvitesInOrder, HungUpLegs, Accepted, Delivered, outSettings, outWorld
<1>6. HungUpLegs'
    BY RequestsDiffer DEF OutInv, HungUpLegs, OutTypeOK, NothingYet, Accepted, Delivered,
       outSettings, outWorld
<1>7. ByeClosesSocket'
    BY RequestsDiffer DEF OutInv, ByeClosesSocket, OutTypeOK, NothingYet, Accepted,
       Delivered, outSettings, outWorld
<1>8. UnderATimer'
    BY RequestsDiffer DEF OutInv, UnderATimer, OutTypeOK, NothingYet, AcceptsAnswered,
       Accepted, Delivered, outSettings, outWorld
<1> QED
    BY <1>1, <1>2, <1>3, <1>4, <1>5, <1>6, <1>7, <1>8 DEF OutInv

LEMMA AcceptEndsKeeps ==
    ASSUME OutInv, AcceptEnds
    PROVE  OutInv'
<1>1. OutTypeOK'
    <2>1. accepting' \in 0 .. MaxCopies
        BY CopiesAssumption DEF OutInv, OutTypeOK, AcceptEnds
    <2>2. asked' \subseteq Requests /\ mishaps' \subseteq Mishaps
          /\ reports' \subseteq {"answered", "rejected", "failed"}
        BY RequestsDiffer DEF OutInv, OutTypeOK, Mishaps, AcceptEnds
    <2> QED
        BY <2>1, <2>2 DEF OutInv, OutTypeOK, AcceptEnds, outSettings, outWorld
<1>2. NothingYet'
    BY RequestsDiffer DEF OutInv, NothingYet, OutTypeOK, AcceptEnds, CanSend, outSettings,
       outWorld
<1>3. InvitesInOrder'
    BY RequestsDiffer DEF OutInv, InvitesInOrder, OutTypeOK, NothingYet, AcceptEnds,
       CanSend, outSettings, outWorld
<1>4. AcceptsAnswered'
    BY RequestsDiffer DEF OutInv, AcceptsAnswered, OutTypeOK, NothingYet, AcceptEnds,
       CanSend, outSettings, outWorld
<1>5. NobodyIsLeft'
    BY RequestsDiffer DEF OutInv, NobodyIsLeft, Current, OutTypeOK, NothingYet,
       InvitesInOrder, HungUpLegs, AcceptEnds, CanSend, outSettings, outWorld
<1>6. HungUpLegs'
    BY RequestsDiffer DEF OutInv, HungUpLegs, OutTypeOK, NothingYet, AcceptEnds, CanSend,
       outSettings, outWorld
<1>7. ByeClosesSocket'
    BY RequestsDiffer DEF OutInv, ByeClosesSocket, OutTypeOK, NothingYet, AcceptEnds,
       CanSend, outSettings, outWorld
<1>8. UnderATimer'
    BY RequestsDiffer DEF OutInv, UnderATimer, OutTypeOK, NothingYet, AcceptsAnswered,
       AcceptEnds, CanSend, outSettings, outWorld
<1> QED
    BY <1>1, <1>2, <1>3, <1>4, <1>5, <1>6, <1>7, <1>8 DEF OutInv

LEMMA RefusalArrivesKeeps ==
    ASSUME OutInv, RefusalArrives
    PROVE  OutInv'
<1>1. OutTypeOK'
    BY RequestsDiffer, CopiesAssumption DEF OutInv, OutTypeOK, NothingYet, Mishaps,
       RefusalArrives, Delivered, outSettings, outWorld
<1>2. NothingYet'
    BY RequestsDiffer DEF OutInv, NothingYet, OutTypeOK, RefusalArrives, Delivered,
       outSettings, outWorld
<1>3. InvitesInOrder'
    BY RequestsDiffer DEF OutInv, InvitesInOrder, OutTypeOK, NothingYet, RefusalArrives,
       Delivered, outSettings, outWorld
<1>4. AcceptsAnswered'
    BY RequestsDiffer DEF OutInv, AcceptsAnswered, OutTypeOK, NothingYet, RefusalArrives,
       Delivered, outSettings, outWorld
<1>5. NobodyIsLeft'
    BY RequestsDiffer DEF OutInv, NobodyIsLeft, Current, OutTypeOK, NothingYet,
       InvitesInOrder, HungUpLegs, RefusalArrives, Delivered, outSettings, outWorld
<1>6. HungUpLegs'
    BY RequestsDiffer DEF OutInv, HungUpLegs, OutTypeOK, NothingYet, RefusalArrives,
       Delivered, outSettings, outWorld
<1>7. ByeClosesSocket'
    BY RequestsDiffer DEF OutInv, ByeClosesSocket, OutTypeOK, NothingYet, RefusalArrives,
       Delivered, outSettings, outWorld
<1>8. UnderATimer'
    BY RequestsDiffer DEF OutInv, UnderATimer, OutTypeOK, NothingYet, AcceptsAnswered,
       RefusalArrives, Delivered, outSettings, outWorld
<1> QED
    BY <1>1, <1>2, <1>3, <1>4, <1>5, <1>6, <1>7, <1>8 DEF OutInv

LEMMA RefusalAckedKeeps ==
    ASSUME OutInv, NEW k \in Invites, RefusalAcked(k)
    PROVE  OutInv'
<1>0. /\ OutTypeOK /\ refusing[k] > 0 /\ refusing' = [refusing EXCEPT ![k] = @ - 1]
      /\ refusing' \in [Invites -> 0 .. MaxCopies]
      /\ \A j \in Invites : refusing'[j] > 0 => refusing[j] > 0
      /\ UNCHANGED <<startup, cancelled, accepting>>
      /\ UNCHANGED <<own, auth, reachable, remote, verdict, hungUp, byeOk>>
      /\ startup = "off" /\ verdict[k] \in {"challenge", "refused"} /\ INVITE(k) \in asked
      /\ k <= cseq /\ k \in Nat /\ cseq \in Nat
    BY CopiesAssumption
    DEF OutInv, OutTypeOK, NothingYet, InvitesInOrder, RefusalAcked, outSettings, outWorld, Invites
<1>1. CASE Retries(k)
    <2>0. /\ session \in {"none", "inviting"} /\ accepting = 0 /\ remote \notin {"accepted", "talking"}
          /\ ~hungUp /\ verdict[k] = "challenge" /\ cseq = k /\ cseq' = k + 1 /\ cseq' \in Invites
          /\ UNCHANGED <<session, closes, reports, leg>>
          /\ SendInvite(cseq') /\ cseq' > 1 /\ \A j \in Invites : j < cseq' => j <= k
        BY <1>0, <1>1
        DEF OutInv, OutTypeOK, InvitesInOrder, RefusalAcked, Retries, Invites
    <2>a. /\ asked' \subseteq Requests /\ tx' \subseteq Requests \ {ACK} /\ mishaps' \subseteq Mishaps
          /\ mishaps \subseteq mishaps' /\ asked \subseteq asked' /\ tx \subseteq tx'
          /\ mishaps' \cap {"shut", "unsent"} = {} => INVITE(cseq') \in tx'
          /\ asked' \subseteq asked \cup {INVITE(cseq')} /\ tx' \subseteq tx \cup {INVITE(cseq')}
          /\ mishaps' = {} => session # "none"
        <3>1. PICK n \in Invites : n = cseq'
            BY <2>0
        <3> QED
            BY <1>0, <2>0, <3>1, Inviting
    <2>1. OutTypeOK'
        BY <1>0, <2>0, <2>a, RequestsDiffer, CopiesAssumption DEF OutInv, OutTypeOK,
           NothingYet, Mishaps
    <2>2. NothingYet'
        BY <1>0, <2>0, <2>a, RequestsDiffer DEF OutInv, NothingYet, OutTypeOK
    <2>3. InvitesInOrder'
        BY <1>0, <2>0, <2>a, RequestsDiffer DEF OutInv, InvitesInOrder, OutTypeOK,
           NothingYet
    <2>4. AcceptsAnswered'
        BY <1>0, <2>0, <2>a, RequestsDiffer DEF OutInv, AcceptsAnswered, OutTypeOK,
           NothingYet
    <2>5. NobodyIsLeft'
        BY <1>0, <2>0, <2>a, RequestsDiffer DEF OutInv, NobodyIsLeft, Current, OutTypeOK,
           NothingYet, InvitesInOrder, HungUpLegs
    <2>6. HungUpLegs'
        BY <1>0, <2>0, <2>a, RequestsDiffer DEF OutInv, HungUpLegs, OutTypeOK, NothingYet
    <2>7. ByeClosesSocket'
        BY <1>0, <2>0, <2>a, RequestsDiffer DEF OutInv, ByeClosesSocket, OutTypeOK,
           NothingYet
    <2>8. UnderATimer'
        BY <1>0, <2>0, <2>a, RequestsDiffer DEF OutInv, UnderATimer, OutTypeOK,
           NothingYet, AcceptsAnswered
    <2> QED
        BY <2>1, <2>2, <2>3, <2>4, <2>5, <2>6, <2>7, <2>8 DEF OutInv
<1>2. CASE ~Retries(k)
    <2>0. /\ session' = "none" /\ tx' = {} /\ UNCHANGED <<cseq, asked>>
          /\ closes' \in 0 .. 2 /\ (~own => closes' = closes)
          /\ own => closes' > 0 /\ (closes = 0 => closes' = 1)
          /\ reports' \subseteq {"answered", "rejected", "failed"}
          /\ leg' \in {"live", "ended", "told", "cleaned", "gone"}
          /\ leg \in {"told", "cleaned", "gone"} <=> leg' \in {"told", "cleaned", "gone"}
          /\ mishaps \subseteq mishaps' /\ mishaps' \subseteq Mishaps
          /\ session = "none" => "twice" \in mishaps'
          /\ mishaps' = {} => session # "none" /\ k = cseq
        <3>1. /\ session' = "none" /\ tx' = {} /\ UNCHANGED <<cseq, asked>> /\ Close
              /\ UNCHANGED <<reports, leg>> \/ Report("rejected")
              /\ mishaps' = mishaps
                     \cup (IF k < cseq /\ session # "none" THEN {"stale"} ELSE {})
                     \cup (IF session = "none" THEN {"twice"} ELSE {})
            BY <1>2 DEF RefusalAcked, FinalizeOutboundSession
        <3>2. /\ mishaps \subseteq mishaps' /\ mishaps' \subseteq Mishaps
              /\ session = "none" => "twice" \in mishaps'
              /\ mishaps' = {} => session # "none" /\ k = cseq
            BY <1>0, <3>1 DEF OutTypeOK, Mishaps
        <3> QED
            BY <1>0, <3>1, <3>2, Reporting, Closing DEF OutTypeOK
    <2>1. OutTypeOK'
        BY <1>0, <2>0, RequestsDiffer, CopiesAssumption DEF OutInv, OutTypeOK, NothingYet,
           Mishaps
    <2>2. NothingYet'
        BY <1>0, <2>0, RequestsDiffer DEF OutInv, NothingYet, OutTypeOK
    <2>3. InvitesInOrder'
        BY <1>0, <2>0, RequestsDiffer DEF OutInv, InvitesInOrder, OutTypeOK, NothingYet
    <2>4. AcceptsAnswered'
        BY <1>0, <2>0, RequestsDiffer DEF OutInv, AcceptsAnswered, OutTypeOK, NothingYet
    <2>5. NobodyIsLeft'
        BY <1>0, <2>0, NoneIsOpen DEF OutInv, NobodyIsLeft, Current, OutTypeOK, InvitesInOrder
    <2>6. HungUpLegs'
        BY <1>0, <2>0, RequestsDiffer DEF OutInv, HungUpLegs, OutTypeOK, NothingYet
    <2>7. ByeClosesSocket'
        BY <1>0, <2>0, RequestsDiffer DEF OutInv, ByeClosesSocket, OutTypeOK, NothingYet
    <2>8. UnderATimer'
        BY <1>0, <2>0, RequestsDiffer DEF OutInv, UnderATimer, OutTypeOK, NothingYet,
           AcceptsAnswered
    <2> QED
        BY <2>1, <2>2, <2>3, <2>4, <2>5, <2>6, <2>7, <2>8 DEF OutInv
<1> QED
    BY <1>1, <1>2

LEMMA RemoteByeKeeps ==
    ASSUME OutInv, RemoteBye
    PROVE  OutInv'
<1>1. OutTypeOK'
    BY RequestsDiffer, CopiesAssumption DEF OutInv, OutTypeOK, NothingYet, Mishaps,
       RemoteBye, FinalizeOutboundSession, outSettings, outWorld, Close
<1>2. NothingYet'
    BY RequestsDiffer DEF OutInv, NothingYet, OutTypeOK, RemoteBye, FinalizeOutboundSession,
       outSettings, outWorld, Close
<1>3. InvitesInOrder'
    BY RequestsDiffer DEF OutInv, InvitesInOrder, OutTypeOK, NothingYet, RemoteBye,
       FinalizeOutboundSession, outSettings, outWorld, Close
<1>4. AcceptsAnswered'
    BY RequestsDiffer DEF OutInv, AcceptsAnswered, OutTypeOK, NothingYet, RemoteBye,
       FinalizeOutboundSession, outSettings, outWorld, Close
<1>5. NobodyIsLeft'
    <2>1. /\ hungUp /\ UNCHANGED <<mishaps, asked, verdict, remote>>
        BY DEF RemoteBye, outWorld
    <2> QED
        BY <2>1, NoneIsOpen DEF OutInv, NobodyIsLeft, InvitesInOrder, Current
<1>6. HungUpLegs'
    BY RequestsDiffer DEF OutInv, HungUpLegs, OutTypeOK, NothingYet, RemoteBye,
       FinalizeOutboundSession, outSettings, outWorld, Close
<1>7. ByeClosesSocket'
    BY RequestsDiffer DEF OutInv, ByeClosesSocket, OutTypeOK, NothingYet, RemoteBye,
       FinalizeOutboundSession, outSettings, outWorld, Close
<1>8. UnderATimer'
    BY RequestsDiffer DEF OutInv, UnderATimer, OutTypeOK, NothingYet, AcceptsAnswered,
       RemoteBye, FinalizeOutboundSession, outSettings, outWorld, Close
<1> QED
    BY <1>1, <1>2, <1>3, <1>4, <1>5, <1>6, <1>7, <1>8 DEF OutInv

LEMMA ByeAnsweredKeeps ==
    ASSUME OutInv, ByeAnswered
    PROVE  OutInv'
<1>1. OutTypeOK'
    BY RequestsDiffer, CopiesAssumption DEF OutInv, OutTypeOK, NothingYet, Mishaps,
       ByeAnswered, Close, outSettings, outWorld
<1>2. NothingYet'
    BY RequestsDiffer DEF OutInv, NothingYet, OutTypeOK, ByeAnswered, Close, outSettings,
       outWorld
<1>3. InvitesInOrder'
    BY RequestsDiffer DEF OutInv, InvitesInOrder, OutTypeOK, NothingYet, ByeAnswered, Close,
       outSettings, outWorld
<1>4. AcceptsAnswered'
    BY RequestsDiffer DEF OutInv, AcceptsAnswered, OutTypeOK, NothingYet, ByeAnswered,
       Close, outSettings, outWorld
<1>5. NobodyIsLeft'
    BY RequestsDiffer DEF OutInv, NobodyIsLeft, Current, OutTypeOK, NothingYet,
       InvitesInOrder, HungUpLegs, ByeAnswered, Close, outSettings, outWorld
<1>6. HungUpLegs'
    BY RequestsDiffer DEF OutInv, HungUpLegs, OutTypeOK, NothingYet, ByeAnswered, Close,
       outSettings, outWorld
<1>7. ByeClosesSocket'
    BY RequestsDiffer DEF OutInv, ByeClosesSocket, OutTypeOK, NothingYet, ByeAnswered,
       Close, outSettings, outWorld
<1>8. UnderATimer'
    BY RequestsDiffer DEF OutInv, UnderATimer, OutTypeOK, NothingYet, AcceptsAnswered,
       ByeAnswered, Close, outSettings, outWorld
<1> QED
    BY <1>1, <1>2, <1>3, <1>4, <1>5, <1>6, <1>7, <1>8 DEF OutInv

LEMMA TransactionTimesOutKeeps ==
    ASSUME OutInv, TransactionTimesOut
    PROVE  OutInv'
<1>0. PICK t \in tx :
        /\ IF t[1] = "INVITE" /\ session # "none"
           THEN /\ FinalizeOutboundSession
                /\ Report("rejected")
                /\ mishaps' = mishaps \cup {"gaveUp"}
           ELSE /\ tx' = IF t = BYE THEN {} ELSE tx \ {t}
                /\ IF t = BYE THEN Close ELSE UNCHANGED closes
                /\ UNCHANGED <<session, reports, leg, mishaps>>
    BY DEF TransactionTimesOut
<1>a. /\ UNCHANGED <<startup, cancelled, cseq, accepting, refusing, asked>>
      /\ UNCHANGED <<own, auth, reachable, remote, verdict, hungUp, byeOk>>
      /\ OutTypeOK /\ startup = "off"
    BY DEF OutInv, OutTypeOK, NothingYet, TransactionTimesOut, outSettings, outWorld
<1>1. CASE t[1] = "INVITE" /\ session # "none"
    <2>0. /\ session' = "none" /\ tx' = {}
          /\ closes' \in 0 .. 2 /\ (~own => closes' = closes)
          /\ own => closes' > 0 /\ (closes = 0 => closes' = 1)
          /\ reports' \subseteq {"answered", "rejected", "failed"}
          /\ leg' \in {"live", "ended", "told", "cleaned", "gone"}
          /\ leg \in {"told", "cleaned", "gone"} <=> leg' \in {"told", "cleaned", "gone"}
          /\ mishaps \subseteq mishaps' /\ mishaps' \subseteq Mishaps /\ "gaveUp" \in mishaps'
        BY <1>0, <1>a, <1>1, Reporting, Closing DEF OutTypeOK, FinalizeOutboundSession, Mishaps
    <2>1. OutTypeOK'
        BY <1>a, <1>1, <2>0, RequestsDiffer, CopiesAssumption DEF OutInv, OutTypeOK,
           NothingYet, Mishaps
    <2>2. NothingYet'
        BY <1>a, <1>1, <2>0, RequestsDiffer DEF OutInv, NothingYet, OutTypeOK
    <2>3. InvitesInOrder'
        BY <1>a, <1>1, <2>0, RequestsDiffer DEF OutInv, InvitesInOrder, OutTypeOK,
           NothingYet
    <2>4. AcceptsAnswered'
        BY <1>a, <1>1, <2>0, RequestsDiffer DEF OutInv, AcceptsAnswered, OutTypeOK,
           NothingYet
    <2>5. NobodyIsLeft'
        BY <1>a, <1>1, <2>0, RequestsDiffer DEF OutInv, NobodyIsLeft, Current, OutTypeOK,
           NothingYet, InvitesInOrder, HungUpLegs
    <2>6. HungUpLegs'
        BY <1>a, <1>1, <2>0, RequestsDiffer DEF OutInv, HungUpLegs, OutTypeOK, NothingYet
    <2>7. ByeClosesSocket'
        BY <1>a, <1>1, <2>0, RequestsDiffer DEF OutInv, ByeClosesSocket, OutTypeOK,
           NothingYet
    <2>8. UnderATimer'
        BY <1>a, <1>1, <2>0, RequestsDiffer DEF OutInv, UnderATimer, OutTypeOK,
           NothingYet, AcceptsAnswered
    <2> QED
        BY <2>1, <2>2, <2>3, <2>4, <2>5, <2>6, <2>7, <2>8 DEF OutInv
<1>2. CASE t = BYE
    <2>0. /\ session = "none" /\ tx' = {} /\ UNCHANGED <<session, reports, leg, mishaps>>
          /\ closes' \in 0 .. 2 /\ (own => closes = 0 /\ closes' = 1)
        BY <1>0, <1>a, <1>2, RequestsDiffer, Closing DEF OutInv, ByeClosesSocket
    <2>1. OutTypeOK'
        BY <1>a, <2>0, RequestsDiffer, CopiesAssumption DEF OutInv, OutTypeOK, NothingYet,
           Mishaps
    <2>2. NothingYet'
        BY <1>a, <2>0, RequestsDiffer DEF OutInv, NothingYet, OutTypeOK
    <2>3. InvitesInOrder'
        BY <1>a, <2>0, RequestsDiffer DEF OutInv, InvitesInOrder, OutTypeOK, NothingYet
    <2>4. AcceptsAnswered'
        BY <1>a, <2>0, RequestsDiffer DEF OutInv, AcceptsAnswered, OutTypeOK, NothingYet
    <2>5. NobodyIsLeft'
        BY <1>a, <2>0, RequestsDiffer DEF OutInv, NobodyIsLeft, Current, OutTypeOK,
           NothingYet, InvitesInOrder, HungUpLegs
    <2>6. HungUpLegs'
        BY <1>a, <2>0, RequestsDiffer DEF OutInv, HungUpLegs, OutTypeOK, NothingYet
    <2>7. ByeClosesSocket'
        BY <1>a, <2>0, RequestsDiffer DEF OutInv, ByeClosesSocket, OutTypeOK, NothingYet
    <2>8. UnderATimer'
        BY <1>a, <2>0, RequestsDiffer DEF OutInv, UnderATimer, OutTypeOK, NothingYet,
           AcceptsAnswered
    <2> QED
        BY <2>1, <2>2, <2>3, <2>4, <2>5, <2>6, <2>7, <2>8 DEF OutInv
<1>3. CASE t # BYE /\ ~(t[1] = "INVITE" /\ session # "none")
    <2>0. /\ tx' \subseteq tx /\ UNCHANGED <<session, reports, leg, mishaps, closes>>
          /\ BYE \in tx' <=> BYE \in tx
          /\ session # "none" => \A j \in Invites : INVITE(j) \in tx' <=> INVITE(j) \in tx
        BY <1>0, <1>3, RequestsDiffer
    <2>1. OutTypeOK'
        BY <1>a, <2>0, RequestsDiffer, CopiesAssumption DEF OutInv, OutTypeOK, NothingYet,
           Mishaps
    <2>2. NothingYet'
        BY <1>a, <2>0, RequestsDiffer DEF OutInv, NothingYet, OutTypeOK
    <2>3. InvitesInOrder'
        BY <1>a, <2>0, RequestsDiffer DEF OutInv, InvitesInOrder, OutTypeOK, NothingYet
    <2>4. AcceptsAnswered'
        BY <1>a, <2>0, RequestsDiffer DEF OutInv, AcceptsAnswered, OutTypeOK, NothingYet
    <2>5. NobodyIsLeft'
        BY <1>a, <2>0, RequestsDiffer DEF OutInv, NobodyIsLeft, Current, OutTypeOK,
           NothingYet, InvitesInOrder, HungUpLegs
    <2>6. HungUpLegs'
        BY <1>a, <2>0, RequestsDiffer DEF OutInv, HungUpLegs, OutTypeOK, NothingYet
    <2>7. ByeClosesSocket'
        BY <1>a, <2>0, RequestsDiffer DEF OutInv, ByeClosesSocket, OutTypeOK, NothingYet
    <2>8. UnderATimer'
        BY <1>a, <2>0, RequestsDiffer DEF OutInv, UnderATimer, OutTypeOK, NothingYet,
           AcceptsAnswered
    <2> QED
        BY <2>1, <2>2, <2>3, <2>4, <2>5, <2>6, <2>7, <2>8 DEF OutInv
<1> QED
    BY <1>1, <1>2, <1>3

LEMMA HangUpKeeps ==
    ASSUME OutInv, HangUp
    PROVE  OutInv'
<1>1. OutTypeOK'
    BY RequestsDiffer, CopiesAssumption DEF OutInv, OutTypeOK, NothingYet, Mishaps, HangUp,
       outSettings, outWorld
<1>2. NothingYet'
    BY RequestsDiffer DEF OutInv, NothingYet, OutTypeOK, HangUp, outSettings, outWorld
<1>3. InvitesInOrder'
    BY RequestsDiffer DEF OutInv, InvitesInOrder, OutTypeOK, NothingYet, HangUp,
       outSettings, outWorld
<1>4. AcceptsAnswered'
    BY RequestsDiffer DEF OutInv, AcceptsAnswered, OutTypeOK, NothingYet, HangUp,
       outSettings, outWorld
<1>5. NobodyIsLeft'
    BY RequestsDiffer DEF OutInv, NobodyIsLeft, Current, OutTypeOK, NothingYet,
       InvitesInOrder, HungUpLegs, HangUp, outSettings, outWorld
<1>6. HungUpLegs'
    BY RequestsDiffer DEF OutInv, HungUpLegs, OutTypeOK, NothingYet, HangUp, outSettings,
       outWorld
<1>7. ByeClosesSocket'
    BY RequestsDiffer DEF OutInv, ByeClosesSocket, OutTypeOK, NothingYet, HangUp,
       outSettings, outWorld
<1>8. UnderATimer'
    BY RequestsDiffer DEF OutInv, UnderATimer, OutTypeOK, NothingYet, AcceptsAnswered,
       HangUp, outSettings, outWorld
<1> QED
    BY <1>1, <1>2, <1>3, <1>4, <1>5, <1>6, <1>7, <1>8 DEF OutInv

LEMMA RejectOrHangupLegKeeps ==
    ASSUME OutInv, RejectOrHangupLeg
    PROVE  OutInv'
<1>0. /\ OutTypeOK /\ leg = "ended" /\ leg' = "told" /\ cancelled' = (startup = "media")
      /\ cancelled' \in BOOLEAN /\ startup = "media" => cancelled'
      /\ UNCHANGED <<startup, cseq, accepting, refusing, reports>>
      /\ UNCHANGED <<own, auth, reachable, remote, verdict, hungUp, byeOk>>
    BY DEF OutInv, RejectOrHangupLeg, outSettings, outWorld
<1>1. CASE startup = "media" \/ session \in {"none", "cancelling"}
    <2>0. UNCHANGED <<session, tx, closes, asked, mishaps>>
        BY <1>1 DEF RejectOrHangupLeg, OutInv, NothingYet
    <2>1. OutTypeOK'
        BY <1>0, <1>1, <2>0, RequestsDiffer, CopiesAssumption DEF OutInv, OutTypeOK,
           NothingYet, Mishaps
    <2>2. NothingYet'
        BY <1>0, <1>1, <2>0, RequestsDiffer DEF OutInv, NothingYet, OutTypeOK
    <2>3. InvitesInOrder'
        BY <1>0, <1>1, <2>0, RequestsDiffer DEF OutInv, InvitesInOrder, OutTypeOK,
           NothingYet
    <2>4. AcceptsAnswered'
        BY <1>0, <1>1, <2>0, RequestsDiffer DEF OutInv, AcceptsAnswered, OutTypeOK,
           NothingYet
    <2>5. NobodyIsLeft'
        BY <1>0, <1>1, <2>0, RequestsDiffer DEF OutInv, NobodyIsLeft, Current, OutTypeOK,
           NothingYet, InvitesInOrder, HungUpLegs
    <2>6. HungUpLegs'
        BY <1>0, <1>1, <2>0, RequestsDiffer DEF OutInv, HungUpLegs, OutTypeOK, NothingYet
    <2>7. ByeClosesSocket'
        BY <1>0, <1>1, <2>0, RequestsDiffer DEF OutInv, ByeClosesSocket, OutTypeOK,
           NothingYet
    <2>8. UnderATimer'
        BY <1>0, <1>1, <2>0, RequestsDiffer DEF OutInv, UnderATimer, OutTypeOK,
           NothingYet, AcceptsAnswered
    <2> QED
        BY <2>1, <2>2, <2>3, <2>4, <2>5, <2>6, <2>7, <2>8 DEF OutInv
<1>2. CASE startup # "media" /\ session = "answered"
    <2>0. /\ session' = "none" /\ tx' \subseteq {BYE} /\ closes' \in 0 .. 2
          /\ asked \subseteq asked' /\ asked' \subseteq asked \cup {BYE}
          /\ mishaps \subseteq mishaps' /\ mishaps' \subseteq Mishaps
          /\ mishaps' = {} => BYE \in asked'
          /\ own => /\ BYE \in tx' <=> closes' = 0
                    /\ closes' > 1 => "unsent" \in mishaps'
        BY <1>0, <1>2, Closing, RequestsDiffer DEF OutTypeOK, RejectOrHangupLeg, CanSend, Mishaps
    <2>1. OutTypeOK'
        BY <1>0, <1>2, <2>0, RequestsDiffer, CopiesAssumption DEF OutInv, OutTypeOK,
           NothingYet, Mishaps
    <2>2. NothingYet'
        BY <1>0, <1>2, <2>0, RequestsDiffer DEF OutInv, NothingYet, OutTypeOK
    <2>3. InvitesInOrder'
        BY <1>0, <1>2, <2>0, RequestsDiffer DEF OutInv, InvitesInOrder, OutTypeOK,
           NothingYet
    <2>4. AcceptsAnswered'
        BY <1>0, <1>2, <2>0, RequestsDiffer DEF OutInv, AcceptsAnswered, OutTypeOK,
           NothingYet
    <2>5. NobodyIsLeft'
        BY <1>0, <1>2, <2>0, NoneIsOpen, RequestsDiffer
        DEF OutInv, NobodyIsLeft, Current, OutTypeOK, InvitesInOrder
    <2>6. HungUpLegs'
        BY <1>0, <1>2, <2>0, RequestsDiffer DEF OutInv, HungUpLegs, OutTypeOK, NothingYet
    <2>7. ByeClosesSocket'
        BY <1>0, <1>2, <2>0, RequestsDiffer DEF OutInv, ByeClosesSocket, OutTypeOK,
           NothingYet
    <2>8. UnderATimer'
        BY <1>0, <1>2, <2>0, RequestsDiffer DEF OutInv, UnderATimer, OutTypeOK,
           NothingYet, AcceptsAnswered
    <2> QED
        BY <2>1, <2>2, <2>3, <2>4, <2>5, <2>6, <2>7, <2>8 DEF OutInv
<1>3. CASE startup # "media" /\ session = "inviting"
    <2>0. /\ session' = "cancelling" /\ tx' \subseteq tx \cup {CANCEL} /\ closes' \in 0 .. 2
          /\ asked \subseteq asked' /\ asked' \subseteq asked \cup {CANCEL}
          /\ mishaps \subseteq mishaps' /\ mishaps' \subseteq Mishaps
          /\ tx \subseteq tx' \/ "unsent" \in mishaps'
          /\ closes' = closes \/ "unsent" \in mishaps'
        BY <1>0, <1>3, Closing, RequestsDiffer DEF OutTypeOK, RejectOrHangupLeg, Mishaps
    <2>1. OutTypeOK'
        BY <1>0, <1>3, <2>0, RequestsDiffer, CopiesAssumption DEF OutInv, OutTypeOK,
           NothingYet, Mishaps
    <2>2. NothingYet'
        BY <1>0, <1>3, <2>0, RequestsDiffer DEF OutInv, NothingYet, OutTypeOK
    <2>3. InvitesInOrder'
        BY <1>0, <1>3, <2>0, RequestsDiffer DEF OutInv, InvitesInOrder, OutTypeOK,
           NothingYet
    <2>4. AcceptsAnswered'
        BY <1>0, <1>3, <2>0, RequestsDiffer DEF OutInv, AcceptsAnswered, OutTypeOK,
           NothingYet
    <2>5. NobodyIsLeft'
        BY <1>0, <1>3, <2>0, RequestsDiffer DEF OutInv, NobodyIsLeft, Current, OutTypeOK,
           NothingYet, InvitesInOrder, HungUpLegs
    <2>6. HungUpLegs'
        BY <1>0, <1>3, <2>0, RequestsDiffer DEF OutInv, HungUpLegs, OutTypeOK, NothingYet
    <2>7. ByeClosesSocket'
        BY <1>0, <1>3, <2>0, RequestsDiffer DEF OutInv, ByeClosesSocket, OutTypeOK,
           NothingYet
    <2>8. UnderATimer'
        BY <1>0, <1>3, <2>0, RequestsDiffer DEF OutInv, UnderATimer, OutTypeOK,
           NothingYet, AcceptsAnswered
    <2> QED
        BY <2>1, <2>2, <2>3, <2>4, <2>5, <2>6, <2>7, <2>8 DEF OutInv
<1> QED
    BY <1>1, <1>2, <1>3 DEF OutInv, OutTypeOK

LEMMA HandleLegEndedKeeps ==
    ASSUME OutInv, HandleLegEnded
    PROVE  OutInv'
<1>1. OutTypeOK'
    BY RequestsDiffer, CopiesAssumption DEF OutInv, OutTypeOK, NothingYet, Mishaps,
       HandleLegEnded, FinalizeOutboundSession, outSettings, outWorld, Close
<1>2. NothingYet'
    BY RequestsDiffer DEF OutInv, NothingYet, OutTypeOK, HandleLegEnded,
       FinalizeOutboundSession, outSettings, outWorld, Close
<1>3. InvitesInOrder'
    BY RequestsDiffer DEF OutInv, InvitesInOrder, OutTypeOK, NothingYet, HandleLegEnded,
       FinalizeOutboundSession, outSettings, outWorld, Close
<1>4. AcceptsAnswered'
    BY RequestsDiffer DEF OutInv, AcceptsAnswered, OutTypeOK, NothingYet, HandleLegEnded,
       FinalizeOutboundSession, outSettings, outWorld, Close
<1>5. NobodyIsLeft'
    BY RequestsDiffer DEF OutInv, NobodyIsLeft, Current, OutTypeOK, NothingYet,
       InvitesInOrder, HungUpLegs, HandleLegEnded, FinalizeOutboundSession, outSettings,
       outWorld, Close
<1>6. HungUpLegs'
    BY RequestsDiffer DEF OutInv, HungUpLegs, OutTypeOK, NothingYet, HandleLegEnded,
       FinalizeOutboundSession, outSettings, outWorld, Close
<1>7. ByeClosesSocket'
    BY RequestsDiffer DEF OutInv, ByeClosesSocket, OutTypeOK, NothingYet, HandleLegEnded,
       FinalizeOutboundSession, outSettings, outWorld, Close
<1>8. UnderATimer'
    BY RequestsDiffer DEF OutInv, UnderATimer, OutTypeOK, NothingYet, AcceptsAnswered,
       HandleLegEnded, FinalizeOutboundSession, outSettings, outWorld, Close
<1> QED
    BY <1>1, <1>2, <1>3, <1>4, <1>5, <1>6, <1>7, <1>8 DEF OutInv

LEMMA RemovedKeeps ==
    ASSUME OutInv, Removed
    PROVE  OutInv'
<1>1. OutTypeOK'
    BY RequestsDiffer, CopiesAssumption DEF OutInv, OutTypeOK, NothingYet, Mishaps, Removed,
       outSettings, outWorld
<1>2. NothingYet'
    BY RequestsDiffer DEF OutInv, NothingYet, OutTypeOK, Removed, outSettings, outWorld
<1>3. InvitesInOrder'
    BY RequestsDiffer DEF OutInv, InvitesInOrder, OutTypeOK, NothingYet, Removed,
       outSettings, outWorld
<1>4. AcceptsAnswered'
    BY RequestsDiffer DEF OutInv, AcceptsAnswered, OutTypeOK, NothingYet, Removed,
       outSettings, outWorld
<1>5. NobodyIsLeft'
    BY RequestsDiffer DEF OutInv, NobodyIsLeft, Current, OutTypeOK, NothingYet,
       InvitesInOrder, HungUpLegs, Removed, outSettings, outWorld
<1>6. HungUpLegs'
    BY RequestsDiffer DEF OutInv, HungUpLegs, OutTypeOK, NothingYet, Removed, outSettings,
       outWorld
<1>7. ByeClosesSocket'
    BY RequestsDiffer DEF OutInv, ByeClosesSocket, OutTypeOK, NothingYet, Removed,
       outSettings, outWorld
<1>8. UnderATimer'
    BY RequestsDiffer DEF OutInv, UnderATimer, OutTypeOK, NothingYet, AcceptsAnswered,
       Removed, outSettings, outWorld
<1> QED
    BY <1>1, <1>2, <1>3, <1>4, <1>5, <1>6, <1>7, <1>8 DEF OutInv

LEMMA ListenerClosesKeeps ==
    ASSUME OutInv, ListenerCloses
    PROVE  OutInv'
<1>1. OutTypeOK'
    BY RequestsDiffer, CopiesAssumption DEF OutInv, OutTypeOK, NothingYet, Mishaps,
       ListenerCloses, outSettings, outWorld
<1>2. NothingYet'
    BY RequestsDiffer DEF OutInv, NothingYet, OutTypeOK, ListenerCloses, outSettings,
       outWorld
<1>3. InvitesInOrder'
    BY RequestsDiffer DEF OutInv, InvitesInOrder, OutTypeOK, NothingYet, ListenerCloses,
       outSettings, outWorld
<1>4. AcceptsAnswered'
    BY RequestsDiffer DEF OutInv, AcceptsAnswered, OutTypeOK, NothingYet, ListenerCloses,
       outSettings, outWorld
<1>5. NobodyIsLeft'
    BY RequestsDiffer DEF OutInv, NobodyIsLeft, Current, OutTypeOK, NothingYet,
       InvitesInOrder, HungUpLegs, ListenerCloses, outSettings, outWorld
<1>6. HungUpLegs'
    BY RequestsDiffer DEF OutInv, HungUpLegs, OutTypeOK, NothingYet, ListenerCloses,
       outSettings, outWorld
<1>7. ByeClosesSocket'
    BY RequestsDiffer DEF OutInv, ByeClosesSocket, OutTypeOK, NothingYet, ListenerCloses,
       outSettings, outWorld
<1>8. UnderATimer'
    BY RequestsDiffer DEF OutInv, UnderATimer, OutTypeOK, NothingYet, AcceptsAnswered,
       ListenerCloses, outSettings, outWorld
<1> QED
    BY <1>1, <1>2, <1>3, <1>4, <1>5, <1>6, <1>7, <1>8 DEF OutInv

LEMMA SocketErrorKeeps ==
    ASSUME OutInv, SocketError
    PROVE  OutInv'
<1>1. OutTypeOK'
    <2>1. /\ reports' \subseteq {"answered", "rejected", "failed"}
          /\ leg' \in {"live", "ended", "told", "cleaned", "gone"} /\ closes' \in 0 .. 2
        BY Reporting, Closing DEF OutInv, SocketError
    <2> QED
        BY <2>1 DEF OutInv, OutTypeOK, Mishaps, SocketError, outSettings, outWorld
<1>2. NothingYet'
    BY RequestsDiffer DEF OutInv, NothingYet, OutTypeOK, SocketError, Close, Report,
       outSettings, outWorld
<1>3. InvitesInOrder'
    BY RequestsDiffer DEF OutInv, InvitesInOrder, OutTypeOK, NothingYet, SocketError, Close,
       Report, outSettings, outWorld
<1>4. AcceptsAnswered'
    BY RequestsDiffer DEF OutInv, AcceptsAnswered, OutTypeOK, NothingYet, SocketError,
       Close, Report, outSettings, outWorld
<1>5. NobodyIsLeft'
    BY RequestsDiffer DEF OutInv, NobodyIsLeft, Current, OutTypeOK, NothingYet,
       InvitesInOrder, HungUpLegs, SocketError, Close, Report, outSettings, outWorld
<1>6. HungUpLegs'
    BY RequestsDiffer DEF OutInv, HungUpLegs, OutTypeOK, NothingYet, SocketError, Close,
       Report, outSettings, outWorld
<1>7. ByeClosesSocket'
    BY RequestsDiffer DEF OutInv, ByeClosesSocket, OutTypeOK, NothingYet, SocketError,
       Close, Report, outSettings, outWorld
<1>8. UnderATimer'
    BY RequestsDiffer DEF OutInv, UnderATimer, OutTypeOK, NothingYet, AcceptsAnswered,
       SocketError, Close, Report, outSettings, outWorld
<1> QED
    BY <1>1, <1>2, <1>3, <1>4, <1>5, <1>6, <1>7, <1>8 DEF OutInv

\* The remote party answers the last INVITE only, and only once.
LEMMA RemoteSideKeeps ==
    ASSUME OutInv, RemoteSide
    PROVE  OutInv'
<1>0. /\ UNCHANGED <<leg, startup, cancelled, session, cseq, tx, closes, accepting, refusing>>
      /\ UNCHANGED <<reports, asked, own, auth, reachable, mishaps>>
      /\ cseq \in Invites /\ OutTypeOK
    BY DEF OutInv, OutTypeOK, RemoteSide, LocalSide, outSettings, Challenges, Rings, Refuses,
       PicksUp, HearsAck, HearsBye, Leaves
<1>1. CASE Challenges \/ Refuses \/ PicksUp
    <2>0. /\ \E k \in Invites, answer \in {"challenge", "200", "refused"} :
                /\ k \in Current /\ verdict' = [verdict EXCEPT ![k] = answer]
                /\ \/ answer = "challenge" /\ remote = "idle" /\ remote' = "idle"
                   \/ answer = "refused" /\ remote = "ringing" /\ remote' = "over"
                   \/ answer = "200" /\ remote = "ringing" /\ remote' = "accepted"
          /\ UNCHANGED <<hungUp, byeOk>>
        BY <1>1 DEF Challenges, Refuses, PicksUp, Current, LocalSide
    <2>1. OutTypeOK'
        BY <1>0, <2>0, RequestsDiffer, CopiesAssumption DEF OutInv, OutTypeOK, NothingYet,
           Mishaps
    <2>2. NothingYet'
        BY <1>0, <2>0, RequestsDiffer DEF OutInv, NothingYet, OutTypeOK
    <2>3. InvitesInOrder'
        <3>1. PICK k \in Invites, answer \in {"challenge", "200", "refused"} :
                /\ k \in Current /\ verdict' = [verdict EXCEPT ![k] = answer]
                /\ \/ answer = "challenge" /\ remote = "idle" /\ remote' = "idle"
                   \/ answer = "refused" /\ remote = "ringing" /\ remote' = "over"
                   \/ answer = "200" /\ remote = "ringing" /\ remote' = "accepted"
            BY <2>0
        <3>2. k = cseq /\ INVITE(k) \in asked /\ verdict[k] = "none"
            BY <3>1 DEF OutInv, OutTypeOK, InvitesInOrder, Current, Invites
        <3>3. /\ session # "answered" /\ accepting = 0 /\ ~hungUp /\ refusing[k] = 0
              /\ \A j \in Invites : j # k => verdict'[j] = verdict[j]
              /\ verdict'[k] = answer
            BY <3>1, <3>2 DEF OutInv, OutTypeOK, InvitesInOrder
        <3> QED
            BY <1>0, <2>0, <3>1, <3>2, <3>3, RequestsDiffer
            DEF OutInv, OutTypeOK, InvitesInOrder, Invites
    <2>4. AcceptsAnswered'
        BY <1>0, <2>0, RequestsDiffer DEF OutInv, AcceptsAnswered, OutTypeOK, NothingYet
    <2>5. NobodyIsLeft'
        BY <1>0, <2>0, RequestsDiffer DEF OutInv, NobodyIsLeft, Current, OutTypeOK,
           NothingYet, InvitesInOrder, HungUpLegs
    <2>6. HungUpLegs'
        BY <1>0, <2>0, RequestsDiffer DEF OutInv, HungUpLegs, OutTypeOK, NothingYet
    <2>7. ByeClosesSocket'
        BY <1>0, <2>0, RequestsDiffer DEF OutInv, ByeClosesSocket, OutTypeOK, NothingYet
    <2>8. UnderATimer'
        BY <1>0, <2>0, RequestsDiffer DEF OutInv, UnderATimer, OutTypeOK, NothingYet,
           AcceptsAnswered
    <2> QED
        BY <2>1, <2>2, <2>3, <2>4, <2>5, <2>6, <2>7, <2>8 DEF OutInv
<1>2. CASE Rings \/ HearsAck \/ HearsBye \/ Leaves
    <2>0. /\ UNCHANGED verdict /\ hungUp' \in BOOLEAN /\ byeOk' \in BOOLEAN
          /\ remote' \in {"ringing", "talking", "over"}
          /\ remote' = "ringing" => remote = "idle"
          /\ remote' = "talking" => remote = "accepted"
          /\ hungUp' # hungUp => remote \in {"accepted", "talking"} /\ remote' = "over"
          /\ hungUp => remote' = "over"
        BY <1>0, <1>2 DEF Rings, HearsAck, HearsBye, Leaves, LocalSide, OutInv, OutTypeOK, InvitesInOrder
    <2>1. OutTypeOK'
        BY <1>0, <2>0, RequestsDiffer, CopiesAssumption DEF OutInv, OutTypeOK, NothingYet,
           Mishaps
    <2>2. NothingYet'
        BY <1>0, <2>0, RequestsDiffer DEF OutInv, NothingYet, OutTypeOK
    <2>3. InvitesInOrder'
        BY <1>0, <2>0, RequestsDiffer DEF OutInv, InvitesInOrder, OutTypeOK, NothingYet
    <2>4. AcceptsAnswered'
        BY <1>0, <2>0, RequestsDiffer DEF OutInv, AcceptsAnswered, OutTypeOK, NothingYet
    <2>5. NobodyIsLeft'
        BY <1>0, <2>0, RequestsDiffer DEF OutInv, NobodyIsLeft, Current, OutTypeOK,
           NothingYet, InvitesInOrder, HungUpLegs
    <2>6. HungUpLegs'
        BY <1>0, <2>0, RequestsDiffer DEF OutInv, HungUpLegs, OutTypeOK, NothingYet
    <2>7. ByeClosesSocket'
        BY <1>0, <2>0, RequestsDiffer DEF OutInv, ByeClosesSocket, OutTypeOK, NothingYet
    <2>8. UnderATimer'
        BY <1>0, <2>0, RequestsDiffer DEF OutInv, UnderATimer, OutTypeOK, NothingYet,
           AcceptsAnswered
    <2> QED
        BY <2>1, <2>2, <2>3, <2>4, <2>5, <2>6, <2>7, <2>8 DEF OutInv
<1> QED
    BY <1>1, <1>2 DEF RemoteSide

LEMMA OutStutters ==
    ASSUME OutInv, UNCHANGED outVars
    PROVE  OutInv'
BY DEF OutInv, OutTypeOK, NothingYet, InvitesInOrder, AcceptsAnswered, NobodyIsLeft, Current,
   HungUpLegs, ByeClosesSocket, UnderATimer, outVars

LEMMA OutStarts == OutInit => OutInv
<1> SUFFICES ASSUME OutInit PROVE OutInv
    OBVIOUS
<1>1. OutTypeOK
    <2>1. cseq \in Invites /\ accepting \in 0 .. MaxCopies /\ closes \in 0 .. 2
          /\ refusing \in [Invites -> 0 .. MaxCopies]
          /\ verdict \in [Invites -> {"none", "challenge", "200", "refused"}]
        BY CopiesAssumption DEF OutInit, Invites
    <2> QED
        BY <2>1 DEF OutInit, OutTypeOK
<1>2. NothingYet /\ InvitesInOrder /\ AcceptsAnswered
    BY DEF OutInit, NothingYet, InvitesInOrder, AcceptsAnswered, Invites
<1>3. NobodyIsLeft /\ HungUpLegs /\ ByeClosesSocket /\ UnderATimer
    BY DEF OutInit, NobodyIsLeft, Current, HungUpLegs, ByeClosesSocket, UnderATimer
<1> QED
    BY <1>1, <1>2, <1>3 DEF OutInv

\* A leg that is gone with nothing under way is a session that ended.
LEMMA OutInvIsSafe == OutInv => OutboundSafe
<1> SUFFICES ASSUME OutInv PROVE OutboundSafe
    OBVIOUS
<1>1. RemoteIsTold
    BY DEF OutInv, NobodyIsLeft, RemoteIsTold
<1>2. WaitsUnderATimer
    BY RequestsDiffer DEF OutInv, UnderATimer, WaitsUnderATimer
<1>3. SocketFollowsSession
    BY DEF OutInv, OutTypeOK, ByeClosesSocket, SocketFollowsSession, OutIdle
<1> QED
    BY <1>1, <1>2, <1>3 DEF OutInv, OutboundSafe

\* Nobody is left on the line, no session waits without a timer and no socket
\* outlives its session, whatever is lost, delayed or copied: the handlers of
\* one attempt of a dial in sip-transport-service.ts.
THEOREM OutboundIsSafe == OutInit /\ [][OutNext]_outVars => []OutboundSafe
<1>1. OutInv /\ [OutNext]_outVars => OutInv'
    BY StartAttemptKeeps, RegisterStartupKeeps, InstallSessionKeeps, AcceptedKeeps,
       AcceptEndsKeeps, RefusalArrivesKeeps, RefusalAckedKeeps, RemoteByeKeeps, ByeAnsweredKeeps,
       TransactionTimesOutKeeps, HangUpKeeps, RejectOrHangupLegKeeps, HandleLegEndedKeeps,
       RemovedKeeps, ListenerClosesKeeps, SocketErrorKeeps, RemoteSideKeeps, OutStutters
    DEF OutNext, OutSystem
<1> QED
    BY <1>1, OutStarts, OutInvIsSafe, PTL
=============================================================================
