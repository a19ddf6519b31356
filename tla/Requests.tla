------------------------------ MODULE Requests ------------------------------
(* What the daemon asks a workflow and waits for: an authorisation, whether   *)
(* to record a call, the result of an AI tool, the result of a voice agent's  *)
(* tool call.  Each request is stored, published on the trigger's stream and  *)
(* taken out once: by the answer, its time-out, the end of its leg, a newer   *)
(* request, or the end of the stream.                                         *)
(*   extensions-auth/interactive-auth-service.ts     "auth"                   *)
(*   sip-pbx-daemon.ts, record requests              "record"                 *)
(*   sip-pbx-daemon.ts, AI tool requests             "aiTool"                 *)
(*   sip-pbx-daemon.ts, voice agent controllers      "toolCall"               *)
(* Each behaviour follows one kind, on one leg and one trigger.               *)
EXTENDS Integers, FiniteSets

CONSTANTS Reqs,      \* requests of a behaviour
          MaxStreams \* streams of the trigger, one after the other

ASSUME ReqsAssumption == IsFiniteSet(Reqs) /\ MaxStreams \in Nat \ {0}

VARIABLES
    kind,    \* the kind of request
    req,     \* by request: stored or not, whose stream it went to, what its asker hears
    node,    \* by request: what the workflow's node knows of it
    stream,  \* the trigger's stream: its number, negative when closed
    leg,     \* the leg: live, ending while its signalling is cleaned up, cleared, out of the registry
    attach,  \* voice agent commands of the leg: two may run
    owner,   \* activeVoiceAgentControllers: the attach whose controller is kept, 0 none
    rqFlaws  \* what happened that the code has no answer to

rqVars == <<kind, req, node, stream, leg, attach, owner, rqFlaws>>

Kinds == {"auth", "record", "aiTool", "toolCall"}
Attaches == 1..2
Legs == {"live", "ending", "cleared", "gone"}
RqFlaws == {"startFailed", "silent", "undelivered", "stolen", "deadWinner"}

RqTypeOK ==
    /\ kind \in Kinds
    /\ req \in [Reqs -> [stored : BOOLEAN, key : 0..MaxStreams,
                         asker : {"none", "waiting", "answer", "timeout", "rejected"}]]
    /\ node \in [Reqs -> {"unaware", "asked", "accepted", "done", "refused"}]
    /\ stream \in (-MaxStreams)..MaxStreams
    /\ leg \in Legs
    /\ attach \in [Attaches -> {"none", "running", "ended"}]
    /\ owner \in {0} \cup Attaches
    /\ rqFlaws \subseteq RqFlaws

RqInit ==
    /\ kind \in Kinds
    /\ req = [r \in Reqs |-> [stored |-> FALSE, key |-> 0, asker |-> "none"]]
    /\ node = [r \in Reqs |-> "unaware"]
    /\ stream = 1
    /\ leg = "live"
    /\ attach = [n \in Attaches |-> "none"]
    /\ owner = 0
    /\ rqFlaws = {}

Stored == {r \in Reqs : req[r].stored}

\* createRequest and invokeAiTool give their caller a promise.
HasAsker == kind \in {"auth", "aiTool"}

\* Takes requests out of every index and clears their time-outs.
Dropped(S) == [r \in Reqs |-> IF r \in S THEN [req[r] EXCEPT !.stored = FALSE] ELSE req[r]]

\* The same, with the promise of those who wait rejected.
RejectedWith(S, outcome) ==
    [r \in Reqs |-> IF r \in S
                    THEN [req[r] EXCEPT !.stored = FALSE,
                                        !.asker = IF HasAsker THEN outcome ELSE @]
                    ELSE req[r]]

(* --------------------------------- asking -------------------------------- *)

\* A request needs the trigger's stream.  A tool needs the live leg, a tool call a controller; a
\* record request is of a leg that answers, also of one that ended and became the winner of its
\* dial before it left the registry.  It takes the place of the leg's last one.
Ask(r) ==
    /\ node[r] = "unaware" /\ ~req[r].stored /\ req[r].asker = "none"
    /\ stream > 0
    /\ kind = "aiTool" => leg = "live"
    /\ kind = "toolCall" => owner # 0
    /\ kind = "record" => leg # "gone"
    /\ req' = [IF kind = "record" THEN Dropped(Stored) ELSE req
               EXCEPT ![r] = [stored |-> TRUE, key |-> stream,
                              asker |-> IF HasAsker THEN "waiting" ELSE "none"]]
    /\ node' = [node EXCEPT ![r] = "asked"]
    /\ rqFlaws' = IF kind = "record" /\ leg = "cleared" THEN rqFlaws \cup {"deadWinner"} ELSE rqFlaws
    /\ UNCHANGED <<kind, stream, leg, attach, owner>>

(* -------------------------------- answering ------------------------------ *)

\* respond.toAuth, respond.toAiTool: the asker is told.
AnswerAsker(r) ==
    /\ HasAsker /\ node[r] = "asked" /\ r \in Stored
    /\ req' = [req EXCEPT ![r].stored = FALSE, ![r].asker = "answer"]
    /\ node' = [node EXCEPT ![r] = "done"]
    /\ UNCHANGED <<kind, stream, leg, attach, owner, rqFlaws>>

\* respond.toRecord, respondVoiceAgentToolCall: the request is taken out before its effect.
Consume(r) ==
    /\ ~HasAsker /\ node[r] = "asked" /\ r \in Stored
    /\ req' = Dropped({r})
    /\ node' = [node EXCEPT ![r] = "accepted"]
    /\ UNCHANGED <<kind, stream, leg, attach, owner, rqFlaws>>

\* The effect: the recording starts, or the result is sent to the model.  A missing file path, a
\* leg out of the registry, a failed start or an unsent message throws, and nobody can answer
\* again; a result for a leg that ended or has no controller is dropped, the node told it was taken.
TakeEffect(r) ==
    /\ node[r] = "accepted"
    /\ \/ /\ kind = "record" => leg # "gone"
          /\ kind = "toolCall" => owner # 0 /\ leg = "live"
          /\ node' = [node EXCEPT ![r] = "done"] /\ UNCHANGED rqFlaws
       \/ /\ kind = "record"
          /\ node' = [node EXCEPT ![r] = "refused"]
          /\ rqFlaws' = rqFlaws \cup {"startFailed"}
       \/ /\ kind = "toolCall" /\ (owner = 0 \/ leg # "live")
          /\ node' = [node EXCEPT ![r] = "done"]
          /\ rqFlaws' = rqFlaws \cup {"silent"}
       \/ /\ kind = "toolCall" /\ owner # 0 /\ leg = "live"
          /\ node' = [node EXCEPT ![r] = "refused"]
          /\ rqFlaws' = rqFlaws \cup {"undelivered"}
    /\ UNCHANGED <<kind, req, stream, leg, attach, owner>>

\* An answer to a request that is gone is refused.
AnswerTooLate(r) ==
    /\ node[r] = "asked" /\ r \notin Stored
    /\ node' = [node EXCEPT ![r] = "refused"]
    /\ UNCHANGED <<kind, req, stream, leg, attach, owner, rqFlaws>>

\* A tool call has no time-out of its own.
TimesOut(r) ==
    /\ r \in Stored /\ kind # "toolCall"
    /\ req' = RejectedWith({r}, "timeout")
    /\ UNCHANGED <<kind, node, stream, leg, attach, owner, rqFlaws>>

(* ----------------------------- legs and streams -------------------------- *)

\* The leg ends; onLegEnded awaits the clean-up of its signalling, which may send a CANCEL or a
\* BYE, and the requests of the leg can still be answered.
LegEnds ==
    /\ leg = "live"
    /\ leg' = "ending"
    /\ UNCHANGED <<kind, req, node, stream, attach, owner, rqFlaws>>

\* Then, whether that failed or not, the record request is cleared and the AI tool requests of
\* the leg are rejected.
LegCleared ==
    /\ leg = "ending"
    /\ leg' = "cleared"
    /\ req' = CASE kind = "record" -> Dropped(Stored)
                [] kind = "aiTool" -> RejectedWith(Stored, "rejected")
                [] OTHER -> req
    /\ UNCHANGED <<kind, node, stream, attach, owner, rqFlaws>>

\* The media of the leg is cleaned up, and the leg leaves the registry.
LegGone ==
    /\ leg = "cleared"
    /\ leg' = "gone"
    /\ UNCHANGED <<kind, req, node, stream, attach, owner, rqFlaws>>

ClosesWithoutReject ==
    /\ stream > 0
    /\ stream' = -stream
    /\ req' = CASE kind \in {"record", "aiTool"} -> Dropped({r \in Stored : req[r].key = stream})
                [] kind = "toolCall" -> Dropped(Stored)
                [] OTHER -> req
    /\ owner' = 0
    /\ UNCHANGED <<kind, node, leg, attach, rqFlaws>>

\* removeTriggerStream: the requests of the stream's key go; a voice agent is detached.
StreamGone ==
    /\ stream > 0
    /\ stream' = -stream
    /\ req' = CASE kind = "record" -> Dropped({r \in Stored : req[r].key = stream})
                [] kind = "aiTool" -> RejectedWith({r \in Stored : req[r].key = stream}, "rejected")
                [] kind = "toolCall" -> Dropped(Stored)
                [] OTHER -> req
    /\ owner' = 0
    /\ UNCHANGED <<kind, node, leg, attach, rqFlaws>>

StreamOpens ==
    /\ stream < 0 /\ -stream < MaxStreams
    /\ stream' = 1 - stream
    /\ UNCHANGED <<kind, req, node, leg, attach, owner, rqFlaws>>

(* ------------------------------ voice agents ----------------------------- *)

\* attachVoiceAgent: the leg's controller is set, over that of an attach that still runs.
AttachVoiceAgent(n) ==
    /\ kind = "toolCall" /\ leg = "live" /\ stream > 0
    /\ attach[n] = "none"
    /\ attach' = [attach EXCEPT ![n] = "running"]
    /\ owner' = n
    /\ UNCHANGED <<kind, req, node, stream, leg, rqFlaws>>

DetachForgetsCalls(n) ==
    /\ attach[n] = "running"
    /\ attach' = [attach EXCEPT ![n] = "ended"]
    /\ owner' = 0
    /\ rqFlaws' = IF \E m \in Attaches \ {n} : attach[m] = "running" THEN rqFlaws \cup {"stolen"} ELSE rqFlaws
    /\ UNCHANGED <<kind, req, node, stream, leg>>

\* The leg ended, the command was cancelled or failed: the leg is detached, whoever's it is by now.
Detach(n) ==
    /\ attach[n] = "running"
    /\ attach' = [attach EXCEPT ![n] = "ended"]
    /\ owner' = 0
    /\ req' = Dropped(Stored)
    /\ rqFlaws' = IF \E m \in Attaches \ {n} : attach[m] = "running" THEN rqFlaws \cup {"stolen"} ELSE rqFlaws
    /\ UNCHANGED <<kind, node, stream, leg>>

RqNext ==
    \/ \E r \in Reqs : Ask(r) \/ AnswerAsker(r) \/ Consume(r) \/ TakeEffect(r) \/ AnswerTooLate(r) \/ TimesOut(r)
    \/ \E n \in Attaches : AttachVoiceAgent(n) \/ Detach(n)
    \/ LegEnds \/ LegCleared \/ LegGone \/ StreamGone \/ StreamOpens

RqSpec == RqInit /\ [][RqNext]_rqVars

(* ------------------------------ properties ------------------------------- *)

\* A node whose answer was taken had an effect: whoever asked for the authorisation or the tool
\* hears that answer, not the time-out or the end that came beside it.
TakenIsHeard ==
    HasAsker => \A r \in Reqs : node[r] = "done" => req[r].asker = "answer"

\* An answer is refused only when its request was taken out for another reason: not for a request
\* still stored, and not when the asker heard an answer.
RefusedIsGone ==
    \A r \in Reqs : node[r] = "refused" => r \notin Stored /\ req[r].asker # "answer"

\* Somebody waits exactly while the request is stored: no promise is left behind, none settled twice.
WaitsWhileStored ==
    HasAsker => \A r \in Reqs : (req[r].asker = "waiting") <=> (r \in Stored)

\* A stored request can still be answered to some purpose: its stream is the one it was published
\* on, and from the clean-up of its leg on there is none, unless the dead leg became the winner of
\* its dial after it; a leg has one record request; a tool call has a controller.
StoredIsAnswerable ==
    /\ kind \in {"record", "aiTool"} => \A r \in Stored : req[r].key = stream
    /\ kind \in {"record", "aiTool"} /\ leg \in {"cleared", "gone"} /\ "deadWinner" \notin rqFlaws =>
           Stored = {}
    /\ kind = "record" => Cardinality(Stored) <= 1
    /\ kind = "toolCall" /\ Stored # {} => owner # 0

\* A running voice agent has its controller, so its tool calls reach the workflow, until its
\* stream closes or another attach of the same leg ends.
AgentIsHeard ==
    (kind = "toolCall" /\ "stolen" \notin rqFlaws /\ stream = 1) =>
        ((\E n \in Attaches : attach[n] = "running") => owner # 0)

RequestsSafe ==
    /\ RqTypeOK
    /\ TakenIsHeard
    /\ RefusedIsGone
    /\ WaitsWhileStored
    /\ StoredIsAnswerable
    /\ AgentIsHeard

\* Whoever asks for an authorisation or a tool hears something.
AskerHears ==
    \A r \in Reqs : []<>(req[r].asker # "waiting")
=============================================================================
