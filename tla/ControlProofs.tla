---------------------------- MODULE ControlProofs ----------------------------
(***************************************************************************)
(* What the machines around the calls keep in every state, for any number  *)
(* of requests and streams, of phones and REGISTERs, of client processes   *)
(* and daemons, of activations and faults: the requests to a workflow, the *)
(* bindings of an extension, the daemon processes behind one socket path   *)
(* and the streams of the triggers.                                        *)
(*                                                                         *)
(* Each property is stated up to the flaws the history records; the proofs *)
(* show that the recorded steps are the only ways to break it.             *)
(***************************************************************************)
EXTENDS DaemonProcess, TriggerStreams, Bindings, Requests, FiniteSetTheorems, TLAPS

-----------------------------------------------------------------------------
(* Requests to a workflow.                                                 *)

\* A stored request was published and neither answered nor refused.
StoredIsAsked == \A r \in Stored : node[r] = "asked"

\* An asker has its answer from the node that gave it.
AnsweredIsDone == \A r \in Reqs : req[r].asker = "answer" => node[r] = "done"

\* Where an asker waits, the answer is its effect: none is outstanding.
AskersHaveNoEffect == HasAsker => \A r \in Reqs : node[r] # "accepted"

\* Only a voice agent attaches.
OnlyAgentsAttach == kind # "toolCall" => \A n \in Attaches : attach[n] = "none"

RqInv ==
    RequestsSafe /\ StoredIsAsked /\ AnsweredIsDone /\ AskersHaveNoEffect /\ OnlyAgentsAttach

\* Requests leave the store, some of them with the promise of their asker
\* settled; nothing else of them changes.
LEMMA RequestsGo ==
    ASSUME ReqsAssumption, RqInv, NEW S \in SUBSET Stored, NEW outcome \in {"none", "timeout", "rejected"},
           \/ req' = Dropped(S) /\ ~HasAsker
           \/ req' = RejectedWith(S, outcome) /\ outcome # "none"
           \/ UNCHANGED req /\ S = {}
    PROVE  /\ req' \in [Reqs -> [stored : BOOLEAN, key : 0..MaxStreams,
                         asker : {"none", "waiting", "answer", "timeout", "rejected"}]]
           /\ Stored' = Stored \ S
           /\ \A r \in Reqs : /\ req'[r].stored <=> req[r].stored /\ r \notin S
                              /\ req'[r].key = req[r].key
                              /\ req'[r].asker = IF r \in S /\ HasAsker THEN outcome ELSE req[r].asker
<1>1. RqTypeOK
  BY DEF RqInv, RequestsSafe
<1>2. \A r \in Reqs : /\ req[r] \in [stored : BOOLEAN, key : 0..MaxStreams,
                         asker : {"none", "waiting", "answer", "timeout", "rejected"}]
                      /\ r \in S => r \in Stored
  BY <1>1 DEF RqTypeOK
<1>3. CASE req' = Dropped(S) /\ ~HasAsker
  <2>1. \A r \in Reqs : req'[r] = IF r \in S THEN [req[r] EXCEPT !.stored = FALSE] ELSE req[r]
    BY <1>3 DEF Dropped
  <2>2. \A r \in Reqs : /\ req'[r].stored = IF r \in S THEN FALSE ELSE req[r].stored
                        /\ req'[r].key = req[r].key /\ req'[r].asker = req[r].asker
                        /\ req'[r] \in [stored : BOOLEAN, key : 0..MaxStreams,
                               asker : {"none", "waiting", "answer", "timeout", "rejected"}]
    BY <1>2, <2>1
  <2>3. req' = [r \in Reqs |-> req'[r]]
    BY <1>3 DEF Dropped
  <2>4. QED
    BY <1>3, <2>2, <2>3 DEF Stored
<1>4. CASE req' = RejectedWith(S, outcome) /\ outcome # "none"
  <2>1. \A r \in Reqs : req'[r] =
           IF r \in S THEN [req[r] EXCEPT !.stored = FALSE,
                                          !.asker = IF HasAsker THEN outcome ELSE req[r].asker]
           ELSE req[r]
    BY <1>4 DEF RejectedWith
  <2>2. \A r \in Reqs : /\ req'[r].stored = IF r \in S THEN FALSE ELSE req[r].stored
                        /\ req'[r].key = req[r].key
                        /\ req'[r].asker = IF r \in S /\ HasAsker THEN outcome ELSE req[r].asker
                        /\ req'[r] \in [stored : BOOLEAN, key : 0..MaxStreams,
                               asker : {"none", "waiting", "answer", "timeout", "rejected"}]
    BY <1>2, <2>1
  <2>3. req' = [r \in Reqs |-> req'[r]]
    BY <1>4 DEF RejectedWith
  <2>4. QED
    BY <2>2, <2>3 DEF Stored
<1>5. CASE UNCHANGED req /\ S = {}
  BY <1>1, <1>5 DEF RqTypeOK, Stored
<1>6. QED
  BY <1>3, <1>4, <1>5

\* A leg keeps at most one record request while none is added.
LEMMA FewerStored ==
    ASSUME ReqsAssumption, RqInv, Stored' \subseteq Stored, UNCHANGED kind, kind = "record"
    PROVE  Cardinality(Stored') <= 1
<1>1. Cardinality(Stored) <= 1
  BY DEF RqInv, RequestsSafe, StoredIsAnswerable
<1>2. IsFiniteSet(Stored)
  BY FS_Subset DEF Stored, ReqsAssumption
<1>3. /\ IsFiniteSet(Stored') /\ Cardinality(Stored') <= Cardinality(Stored)
      /\ Cardinality(Stored) \in Nat /\ Cardinality(Stored') \in Nat
  BY <1>2, FS_Subset, FS_CardinalityType
<1>4. QED
  BY <1>1, <1>3

LEMMA RqInitHolds ==
    ASSUME ReqsAssumption, RqInit
    PROVE  RqInv
<1>1. Stored = {} /\ Cardinality(Stored) = 0
  BY FS_EmptySet DEF RqInit, Stored
<1>2. RqTypeOK
  BY DEF RqInit, RqTypeOK, Kinds, Legs, Attaches, RqFlaws, ReqsAssumption
<1>3. QED
  BY <1>1, <1>2 DEF RqInit, RqInv, RequestsSafe, TakenIsHeard, RefusedIsGone, WaitsWhileStored,
     StoredIsAnswerable, AgentIsHeard, StoredIsAsked, AnsweredIsDone, AskersHaveNoEffect,
     OnlyAgentsAttach

LEMMA AskStep ==
    ASSUME ReqsAssumption, RqInv, NEW r \in Reqs, Ask(r)
    PROVE  RqInv'
<1>. DEFINE old == IF kind = "record" THEN Dropped(Stored) ELSE req
<1>. DEFINE new == [stored |-> TRUE, key |-> stream, asker |-> IF HasAsker THEN "waiting" ELSE "none"]
<1>. DEFINE RT == [stored : BOOLEAN, key : 0..MaxStreams,
                   asker : {"none", "waiting", "answer", "timeout", "rejected"}]
<1>1. /\ RqTypeOK /\ node[r] = "unaware" /\ stream > 0 /\ req' = [old EXCEPT ![r] = new]
      /\ node' = [node EXCEPT ![r] = "asked"] /\ HasAsker' = HasAsker
      /\ UNCHANGED <<kind, stream, leg, attach, owner>>
      /\ rqFlaws' \in {rqFlaws, rqFlaws \cup {"deadWinner"}}
  BY DEF RqInv, RequestsSafe, Ask, HasAsker
<1>2. /\ old \in [Reqs -> RT]
      /\ \A s \in Reqs : /\ old[s].asker = req[s].asker /\ old[s].key = req[s].key
                         /\ old[s].stored <=> req[s].stored /\ kind # "record"
  <2>1. CASE kind = "record"
    <3>1. \A s \in Reqs : req[s] \in RT
      BY <1>1 DEF RqTypeOK
    <3>2. \A s \in Reqs : old[s] = IF s \in Stored THEN [req[s] EXCEPT !.stored = FALSE] ELSE req[s]
      BY <2>1 DEF Dropped
    <3>3. \A s \in Reqs : old[s] \in RT /\ ~old[s].stored
                         /\ old[s].asker = req[s].asker /\ old[s].key = req[s].key
      BY <3>1, <3>2 DEF Stored
    <3>4. old = [s \in Reqs |-> old[s]]
      BY <2>1 DEF Dropped
    <3>. HIDE DEF old
    <3>5. QED
      BY <2>1, <3>3, <3>4
  <2>2. CASE kind # "record"
    BY <1>1, <2>2 DEF RqTypeOK
  <2>3. QED
    BY <2>1, <2>2
<1>3. new \in RT /\ new.stored /\ new.key = stream /\ new.asker = IF HasAsker THEN "waiting" ELSE "none"
  BY <1>1 DEF RqTypeOK, ReqsAssumption
<1>. HIDE DEF old, new
<1>4. /\ req' \in [Reqs -> RT] /\ req'[r] = new
      /\ \A s \in Reqs \ {r} : req'[s] = old[s]
  BY <1>1, <1>2, <1>3
<1>5. RqTypeOK'
  <2>1. rqFlaws' \subseteq RqFlaws
    BY <1>1 DEF RqTypeOK, RqFlaws
  <2>2. QED
    BY <1>1, <1>4, <2>1 DEF RqTypeOK
<1>6. /\ Stored' \subseteq Stored \cup {r} /\ r \in Stored'
      /\ kind = "record" => Stored' = {r}
      /\ kind # "record" => Stored' = Stored \cup {r}
  BY <1>2, <1>3, <1>4 DEF Stored
<1>7. /\ node' \in [Reqs -> {"unaware", "asked", "accepted", "done", "refused"}]
      /\ node'[r] = "asked" /\ \A s \in Reqs \ {r} : node'[s] = node[s]
  BY <1>1 DEF RqTypeOK
<1>8. (TakenIsHeard /\ RefusedIsGone /\ AnsweredIsDone /\ AskersHaveNoEffect /\ StoredIsAsked)'
  <2>1. \A s \in Reqs \ {r} : req'[s].asker = req[s].asker
    BY <1>2, <1>4
  <2>2. req'[r].asker \in {"waiting", "none"}
    BY <1>3, <1>4
  <2>3. \A s \in Stored' \ {r} : s \in Stored
    BY <1>6
  <2>4. QED
    BY <1>1, <1>6, <1>7, <2>1, <2>2, <2>3 DEF RqInv, RequestsSafe, TakenIsHeard, RefusedIsGone,
       AnsweredIsDone, AskersHaveNoEffect, StoredIsAsked
<1>9. WaitsWhileStored'
  <2>1. HasAsker => kind # "record"
    BY DEF HasAsker
  <2>2. QED
    BY <1>1, <1>2, <1>3, <1>4, <1>6, <2>1 DEF RqInv, RequestsSafe, WaitsWhileStored
<1>10. StoredIsAnswerable'
  <2>1. kind = "record" => Cardinality(Stored') <= 1
    <3>1. Cardinality({r}) = 1
      BY FS_Singleton
    <3>2. QED
      BY <1>6, <3>1
  <2>2. kind \in {"record", "aiTool"} => \A s \in Stored' : req'[s].key = stream
    <3>1. CASE kind = "record"
      BY <1>3, <1>4, <1>6, <3>1
    <3>2. CASE kind = "aiTool"
      <4>1. \A s \in Stored : req[s].key = stream
        BY <3>2 DEF RqInv, RequestsSafe, StoredIsAnswerable
      <4>2. \A s \in Stored' \ {r} : s \in Stored /\ s \in Reqs
        BY <1>6 DEF Stored
      <4>3. QED
        BY <1>2, <1>3, <1>4, <4>1, <4>2
    <3>3. QED
      BY <3>1, <3>2
  <2>3. /\ kind = "toolCall" => owner # 0
        /\ kind = "aiTool" => leg = "live"
        /\ kind = "record" /\ leg \in {"cleared", "gone"} => "deadWinner" \in rqFlaws'
    BY DEF Ask
  <2>4. QED
    BY <1>1, <2>1, <2>2, <2>3 DEF StoredIsAnswerable
<1>11. (AgentIsHeard /\ OnlyAgentsAttach)'
  BY <1>1 DEF RqInv, RequestsSafe, AgentIsHeard, OnlyAgentsAttach
<1>12. QED
  BY <1>5, <1>8, <1>9, <1>10, <1>11 DEF RqInv, RequestsSafe

\* The steps that only take requests out: what is left must still be
\* answerable.
LEMMA GoStep ==
    ASSUME ReqsAssumption, RqInv, NEW S \in SUBSET Stored, NEW outcome \in {"none", "timeout", "rejected"},
           \/ req' = Dropped(S) /\ ~HasAsker
           \/ req' = RejectedWith(S, outcome) /\ outcome # "none"
           \/ UNCHANGED req /\ S = {},
           UNCHANGED <<kind, node>>,
           stream' \in (-MaxStreams)..MaxStreams, leg' \in Legs,
           attach' \in [Attaches -> {"none", "running", "ended"}],
           owner' \in {0} \cup Attaches, rqFlaws' \subseteq RqFlaws,
           kind \in {"record", "aiTool"} => \A r \in Stored \ S : req[r].key = stream',
           (/\ kind \in {"record", "aiTool"} /\ leg' \in {"cleared", "gone"}
            /\ "deadWinner" \notin rqFlaws') => Stored \ S = {},
           kind = "toolCall" /\ Stored \ S # {} => owner' # 0,
           AgentIsHeard', OnlyAgentsAttach'
    PROVE  RqInv'
<1>1. RqTypeOK
  BY DEF RqInv, RequestsSafe
<1>2. /\ req' \in [Reqs -> [stored : BOOLEAN, key : 0..MaxStreams,
                    asker : {"none", "waiting", "answer", "timeout", "rejected"}]]
      /\ Stored' = Stored \ S
      /\ \A r \in Reqs : /\ req'[r].stored <=> req[r].stored /\ r \notin S
                         /\ req'[r].key = req[r].key
                         /\ req'[r].asker = IF r \in S /\ HasAsker THEN outcome ELSE req[r].asker
  BY RequestsGo
<1>3. RqTypeOK' /\ HasAsker' = HasAsker
  BY <1>1, <1>2 DEF RqTypeOK, HasAsker
<1>4. \A r \in S : node[r] = "asked" /\ (HasAsker => req[r].asker = "waiting")
  <2>1. \A r \in S : r \in Stored /\ r \in Reqs
    BY DEF Stored
  <2>2. QED
    BY <2>1 DEF RqInv, RequestsSafe, WaitsWhileStored, StoredIsAsked
<1>5. HasAsker /\ S # {} => outcome # "none"
  BY <1>2
<1>6. WaitsWhileStored'
  <2>1. SUFFICES ASSUME HasAsker, NEW r \in Reqs
                 PROVE  (req'[r].asker = "waiting") <=> (r \in Stored \ S)
    BY <1>2, <1>3 DEF WaitsWhileStored
  <2>2. (req[r].asker = "waiting") <=> (r \in Stored)
    BY <2>1 DEF RqInv, RequestsSafe, WaitsWhileStored
  <2>3. QED
    BY <1>2, <2>1, <2>2
<1>7. (TakenIsHeard /\ RefusedIsGone /\ AnsweredIsDone /\ AskersHaveNoEffect /\ StoredIsAsked)'
  BY <1>2, <1>3, <1>4 DEF RqInv, RequestsSafe, TakenIsHeard, RefusedIsGone, AnsweredIsDone,
     AskersHaveNoEffect, StoredIsAsked, Stored
<1>8. StoredIsAnswerable'
  <2>1. kind = "record" => Cardinality(Stored') <= 1
    BY <1>2, FewerStored
  <2>2. QED
    BY <1>2, <2>1 DEF StoredIsAnswerable, Stored
<1>9. QED
  BY <1>3, <1>6, <1>7, <1>8 DEF RqInv, RequestsSafe

\* The steps that take a request out of the store, if it is there, and write
\* down what the node knows of it.
LEMMA NodeStep ==
    ASSUME ReqsAssumption, RqInv, NEW r \in Reqs,
           NEW what \in {"accepted", "done", "refused"}, node' = [node EXCEPT ![r] = what],
           req' \in [Reqs -> [stored : BOOLEAN, key : 0..MaxStreams,
                     asker : {"none", "waiting", "answer", "timeout", "rejected"}]],
           \A s \in Reqs \ {r} : req'[s] = req[s],
           ~req'[r].stored, req'[r].key = req[r].key,
           \/ HasAsker /\ what = "done" /\ req'[r].asker = "answer"
           \/ ~HasAsker /\ req'[r].asker = req[r].asker /\ node[r] \in {"asked", "accepted"}
           \/ HasAsker /\ what = "refused" /\ UNCHANGED req /\ node[r] = "asked",
           UNCHANGED <<kind, stream, leg, attach, owner>>, rqFlaws \subseteq rqFlaws',
           rqFlaws' \subseteq RqFlaws
    PROVE  RqInv'
<1>1. RqTypeOK /\ HasAsker' = HasAsker
  BY DEF RqInv, RequestsSafe, HasAsker
<1>2. RqTypeOK' /\ \A s \in Reqs : node'[s] = IF s = r THEN what ELSE node[s]
  BY <1>1 DEF RqTypeOK
<1>3. Stored' = Stored \ {r}
  BY DEF Stored
<1>4. ~HasAsker => req[r].asker # "answer"
  BY <1>2 DEF RqInv, AnsweredIsDone
<1>5. HasAsker /\ UNCHANGED req => req[r].asker # "waiting" /\ r \notin Stored
  BY DEF RqInv, RequestsSafe, WaitsWhileStored, Stored
<1>6. (TakenIsHeard /\ RefusedIsGone /\ AnsweredIsDone /\ AskersHaveNoEffect /\ StoredIsAsked)'
  <2>1. TakenIsHeard' /\ AskersHaveNoEffect' /\ StoredIsAsked'
    BY <1>1, <1>2, <1>3 DEF RqInv, RequestsSafe, TakenIsHeard, AskersHaveNoEffect, StoredIsAsked
  <2>2. RefusedIsGone' /\ AnsweredIsDone'
    BY <1>1, <1>2, <1>3, <1>4 DEF RqInv, RequestsSafe, RefusedIsGone, AnsweredIsDone, Stored
  <2>3. QED
    BY <2>1, <2>2
<1>7. WaitsWhileStored'
  BY <1>1, <1>3, <1>5 DEF RqInv, RequestsSafe, WaitsWhileStored
<1>8. StoredIsAnswerable'
  <2>1. kind = "record" => Cardinality(Stored') <= 1
    BY <1>3, FewerStored
  <2>2. QED
    BY <1>3, <2>1 DEF RqInv, RequestsSafe, StoredIsAnswerable, Stored
<1>9. (AgentIsHeard /\ OnlyAgentsAttach)'
  BY DEF RqInv, RequestsSafe, AgentIsHeard, OnlyAgentsAttach
<1>10. QED
  BY <1>2, <1>6, <1>7, <1>8, <1>9 DEF RqInv, RequestsSafe

\* An answer is taken, by the asker or for its effect, refused because it
\* comes too late, or has its effect.
LEMMA NodeSteps ==
    ASSUME ReqsAssumption, RqInv, NEW r \in Reqs,
           AnswerAsker(r) \/ Consume(r) \/ TakeEffect(r) \/ AnswerTooLate(r)
    PROVE  RqInv'
<1>1. RqTypeOK
  BY DEF RqInv, RequestsSafe
<1>2. req[r] \in [stored : BOOLEAN, key : 0..MaxStreams,
                 asker : {"none", "waiting", "answer", "timeout", "rejected"}]
  BY <1>1 DEF RqTypeOK
<1>3. CASE AnswerAsker(r)
  <2>1. /\ req' \in [Reqs -> [stored : BOOLEAN, key : 0..MaxStreams,
                     asker : {"none", "waiting", "answer", "timeout", "rejected"}]]
        /\ \A s \in Reqs \ {r} : req'[s] = req[s]
        /\ req'[r] = [req[r] EXCEPT !.stored = FALSE, !.asker = "answer"]
    BY <1>1, <1>3 DEF AnswerAsker, RqTypeOK
  <2>2. req'[r].stored = FALSE /\ req'[r].key = req[r].key /\ req'[r].asker = "answer"
    BY <1>2, <2>1
  <2>3. /\ node' = [node EXCEPT ![r] = "done"] /\ HasAsker
        /\ UNCHANGED <<kind, stream, leg, attach, owner, rqFlaws>>
    BY <1>3 DEF AnswerAsker
  <2>4. QED
    BY <1>1, <2>1, <2>2, <2>3, NodeStep DEF RqTypeOK
<1>4. CASE Consume(r)
  <2>1. {r} \in SUBSET Stored /\ ~HasAsker /\ req' = Dropped({r})
    BY <1>4 DEF Consume
  <2>2. /\ req' \in [Reqs -> [stored : BOOLEAN, key : 0..MaxStreams,
                     asker : {"none", "waiting", "answer", "timeout", "rejected"}]]
        /\ req'[r].stored <=> req[r].stored /\ r \notin {r}
        /\ req'[r].key = req[r].key /\ req'[r].asker = req[r].asker
    BY <2>1, RequestsGo
  <2>3. \A s \in Reqs \ {r} : req'[s] = req[s]
    BY <2>1 DEF Dropped
  <2>4. /\ node' = [node EXCEPT ![r] = "accepted"] /\ node[r] = "asked"
        /\ UNCHANGED <<kind, stream, leg, attach, owner, rqFlaws>>
    BY <1>4 DEF Consume
  <2>5. QED
    BY <1>1, <2>1, <2>2, <2>3, <2>4, NodeStep DEF RqTypeOK
<1>5. CASE TakeEffect(r)
  <2>1. node[r] = "accepted" /\ UNCHANGED <<kind, req, stream, leg, attach, owner>>
    BY <1>5 DEF TakeEffect
  <2>2. ~HasAsker /\ r \notin Stored
    BY <2>1 DEF RqInv, AskersHaveNoEffect, StoredIsAsked
  <2>3. req[r].stored = FALSE
    BY <1>2, <2>2 DEF Stored
  <2>4. PICK what \in {"done", "refused"} : node' = [node EXCEPT ![r] = what]
    BY <1>5 DEF TakeEffect
  <2>5. rqFlaws \subseteq rqFlaws' /\ rqFlaws' \subseteq RqFlaws
    BY <1>1, <1>5 DEF TakeEffect, RqTypeOK, RqFlaws
  <2>6. QED
    BY <1>1, <2>1, <2>2, <2>3, <2>4, <2>5, NodeStep DEF RqTypeOK
<1>6. CASE AnswerTooLate(r)
  <2>1. /\ node[r] = "asked" /\ r \notin Stored /\ node' = [node EXCEPT ![r] = "refused"]
        /\ UNCHANGED <<kind, req, stream, leg, attach, owner, rqFlaws>>
    BY <1>6 DEF AnswerTooLate
  <2>2. req[r].stored = FALSE
    BY <1>2, <2>1 DEF Stored
  <2>3. QED
    BY <1>1, <2>1, <2>2, NodeStep DEF RqTypeOK
<1>7. QED
  BY <1>3, <1>4, <1>5, <1>6

\* A time-out, the steps of the end of a leg, and a detach.
LEMMA GoSteps ==
    ASSUME ReqsAssumption, RqInv,
           \/ \E r \in Reqs : TimesOut(r)
           \/ LegEnds \/ LegCleared \/ LegGone
           \/ \E n \in Attaches : Detach(n)
    PROVE  RqInv'
<1>1. RqTypeOK /\ Stored \subseteq Stored
  BY DEF RqInv, RequestsSafe
<1>2. ASSUME NEW r \in Reqs, TimesOut(r)
      PROVE  RqInv'
  <2>1. /\ {r} \in SUBSET Stored /\ kind # "toolCall" /\ req' = RejectedWith({r}, "timeout")
        /\ UNCHANGED <<kind, node, stream, leg, attach, owner, rqFlaws>>
    BY <1>2 DEF TimesOut
  <2>2. /\ kind \in {"record", "aiTool"} => \A s \in Stored \ {r} : req[s].key = stream'
        /\ (/\ kind \in {"record", "aiTool"} /\ leg' \in {"cleared", "gone"}
            /\ "deadWinner" \notin rqFlaws') => Stored \ {r} = {}
    BY <2>1 DEF RqInv, RequestsSafe, StoredIsAnswerable
  <2>3. AgentIsHeard' /\ OnlyAgentsAttach'
    BY <2>1 DEF RqInv, RequestsSafe, AgentIsHeard, OnlyAgentsAttach
  <2>4. QED
    BY <1>1, <2>1, <2>2, <2>3, GoStep DEF RqTypeOK
<1>3. CASE LegEnds \/ LegGone
  <2>1. /\ UNCHANGED <<kind, req, node, stream, attach, owner, rqFlaws>>
        /\ leg' \in Legs /\ (leg' \in {"cleared", "gone"} => leg \in {"cleared", "gone"})
    BY <1>3 DEF LegEnds, LegGone, Legs
  <2>2. AgentIsHeard' /\ OnlyAgentsAttach' /\ {} \in SUBSET Stored /\ Stored \ {} = Stored
    BY <2>1 DEF RqInv, RequestsSafe, AgentIsHeard, OnlyAgentsAttach
  <2>3. /\ kind \in {"record", "aiTool"} => \A s \in Stored \ {} : req[s].key = stream'
        /\ (/\ kind \in {"record", "aiTool"} /\ leg' \in {"cleared", "gone"}
            /\ "deadWinner" \notin rqFlaws') => Stored \ {} = {}
        /\ kind = "toolCall" /\ Stored \ {} # {} => owner' # 0
    BY <2>1 DEF RqInv, RequestsSafe, StoredIsAnswerable
  <2>4. QED
    BY <1>1, <2>1, <2>2, <2>3, GoStep DEF RqTypeOK
<1>5. CASE LegCleared
  <2>1. UNCHANGED <<kind, node, stream, attach, owner, rqFlaws>> /\ leg' \in Legs
    BY <1>5 DEF LegCleared, Legs
  <2>2. AgentIsHeard' /\ OnlyAgentsAttach'
    BY <2>1 DEF RqInv, RequestsSafe, AgentIsHeard, OnlyAgentsAttach
  <2>3. CASE kind \in {"record", "aiTool"}
    <3>1. \/ req' = Dropped(Stored) /\ ~HasAsker
          \/ req' = RejectedWith(Stored, "rejected")
      BY <1>5, <2>3 DEF LegCleared, HasAsker
    <3>2. Stored \in SUBSET Stored /\ Stored \ Stored = {}
      OBVIOUS
    <3>3. QED
      BY <1>1, <2>1, <2>2, <3>1, <3>2, GoStep DEF RqTypeOK
  <2>4. CASE kind \notin {"record", "aiTool"}
    <3>1. UNCHANGED req /\ {} \in SUBSET Stored
      BY <1>5, <2>4 DEF LegCleared
    <3>2. kind = "toolCall" /\ Stored \ {} # {} => owner' # 0
      BY <2>1 DEF RqInv, RequestsSafe, StoredIsAnswerable
    <3>3. QED
      BY <1>1, <2>1, <2>2, <2>4, <3>1, <3>2, GoStep DEF RqTypeOK
  <2>5. QED
    BY <2>3, <2>4
<1>4. ASSUME NEW n \in Attaches, Detach(n)
      PROVE  RqInv'
  <2>1. /\ attach' = [attach EXCEPT ![n] = "ended"] /\ owner' = 0 /\ req' = Dropped(Stored)
        /\ UNCHANGED <<kind, node, stream, leg>> /\ attach[n] = "running"
        /\ \/ \A m \in Attaches \ {n} : attach[m] # "running"
           \/ "stolen" \in rqFlaws'
    BY <1>4 DEF Detach
  <2>2. kind = "toolCall"
    BY <2>1 DEF RqInv, OnlyAgentsAttach
  <2>3. /\ attach' \in [Attaches -> {"none", "running", "ended"}]
        /\ \A m \in Attaches : attach'[m] = IF m = n THEN "ended" ELSE attach[m]
        /\ rqFlaws' \subseteq RqFlaws
    BY <1>1, <1>4, <2>1 DEF RqTypeOK, RqFlaws, Detach
  <2>4. AgentIsHeard' /\ OnlyAgentsAttach'
    BY <2>1, <2>2, <2>3 DEF AgentIsHeard, OnlyAgentsAttach
  <2>5. ~HasAsker /\ Stored \in SUBSET Stored /\ Stored \ Stored = {}
    BY <2>2 DEF HasAsker
  <2>6. QED
    BY <1>1, <2>1, <2>2, <2>3, <2>4, <2>5, GoStep DEF RqTypeOK
<1>6. QED
  BY <1>2, <1>3, <1>4, <1>5

\* The trigger's stream closes or opens again, or a voice agent attaches.
LEMMA StreamSteps ==
    ASSUME ReqsAssumption, RqInv,
           StreamGone \/ StreamOpens \/ \E n \in Attaches : AttachVoiceAgent(n)
    PROVE  RqInv'
<1>1. RqTypeOK
  BY DEF RqInv, RequestsSafe
<1>2. CASE StreamGone
  <2>. DEFINE S == CASE kind \in {"record", "aiTool"} -> {r \in Stored : req[r].key = stream}
                     [] kind = "toolCall" -> Stored
                     [] OTHER -> {}
  <2>1. /\ UNCHANGED <<kind, node, leg, attach, rqFlaws>> /\ owner' = 0
        /\ stream > 0 /\ stream' = -stream
    BY <1>2 DEF StreamGone
  <2>2. stream' \in (-MaxStreams)..MaxStreams /\ stream' # 1
    BY <1>1, <2>1 DEF RqTypeOK, ReqsAssumption
  <2>3. AgentIsHeard' /\ OnlyAgentsAttach'
    BY <2>1, <2>2 DEF RqInv, AgentIsHeard, OnlyAgentsAttach
  <2>4. S \in SUBSET Stored
    OBVIOUS
  <2>5. \/ req' = Dropped(S) /\ ~HasAsker
        \/ req' = RejectedWith(S, "rejected")
        \/ UNCHANGED req /\ S = {}
    BY <1>1, <1>2 DEF StreamGone, HasAsker, RqTypeOK, Kinds
  <2>6. /\ kind \in {"record", "aiTool"} => Stored \ S = {}
        /\ kind = "toolCall" => Stored \ S = {}
    BY DEF RqInv, RequestsSafe, StoredIsAnswerable
  <2>. HIDE DEF S
  <2>7. QED
    BY <1>1, <2>1, <2>2, <2>3, <2>4, <2>5, <2>6, GoStep DEF RqTypeOK
<1>3. CASE StreamOpens
  <2>1. /\ UNCHANGED <<kind, req, node, leg, attach, owner, rqFlaws>>
        /\ stream < 0 /\ -stream < MaxStreams /\ stream' = 1 - stream
    BY <1>3 DEF StreamOpens
  <2>2. stream' \in (-MaxStreams)..MaxStreams /\ stream' # 1
    BY <1>1, <2>1 DEF RqTypeOK, ReqsAssumption
  <2>3. AgentIsHeard' /\ OnlyAgentsAttach'
    BY <2>1, <2>2 DEF RqInv, AgentIsHeard, OnlyAgentsAttach
  <2>4. \A r \in Stored : req[r].key # stream
    <3>1. \A r \in Reqs : req[r].key \in 0..MaxStreams
      BY <1>1 DEF RqTypeOK
    <3>2. QED
      BY <2>1, <3>1 DEF Stored, ReqsAssumption
  <2>5. kind \in {"record", "aiTool"} => Stored = {}
    BY <2>4 DEF RqInv, RequestsSafe, StoredIsAnswerable
  <2>6. {} \in SUBSET Stored /\ (kind = "toolCall" /\ Stored \ {} # {} => owner' # 0)
    BY <2>1 DEF RqInv, RequestsSafe, StoredIsAnswerable
  <2>7. QED
    BY <1>1, <2>1, <2>2, <2>3, <2>5, <2>6, GoStep DEF RqTypeOK
<1>4. ASSUME NEW n \in Attaches, AttachVoiceAgent(n)
      PROVE  RqInv'
  <2>1. /\ UNCHANGED <<kind, req, node, stream, leg, rqFlaws>> /\ kind = "toolCall"
        /\ attach' = [attach EXCEPT ![n] = "running"] /\ owner' = n
        /\ n # 0
    BY <1>4 DEF AttachVoiceAgent, Attaches
  <2>2. attach' \in [Attaches -> {"none", "running", "ended"}]
    BY <1>1, <2>1 DEF RqTypeOK
  <2>3. AgentIsHeard' /\ OnlyAgentsAttach' /\ {} \in SUBSET Stored
    BY <2>1 DEF AgentIsHeard, OnlyAgentsAttach
  <2>4. QED
    BY <1>1, <2>1, <2>2, <2>3, GoStep DEF RqTypeOK
<1>5. QED
  BY <1>2, <1>3, <1>4

\* A request is taken out of the store once, and whoever it was taken out for
\* hears of it: an answer that was taken had its asker hear it, an answer is
\* refused only when the request is gone, nobody waits for a request that is
\* not stored, and a stored one can still be answered to some purpose.
THEOREM RequestsAreSafe == RqSpec => []RequestsSafe
<1>1. RqInit => RqInv
  BY ReqsAssumption, RqInitHolds
<1>2. RqInv /\ [RqNext]_rqVars => RqInv'
  <2>1. SUFFICES ASSUME RqInv, [RqNext]_rqVars PROVE RqInv'
    OBVIOUS
  <2>2. CASE UNCHANGED rqVars
    BY <2>1, <2>2 DEF rqVars, RqInv, RequestsSafe, RqTypeOK, TakenIsHeard, RefusedIsGone,
       WaitsWhileStored, StoredIsAnswerable, AgentIsHeard, StoredIsAsked, AnsweredIsDone,
       AskersHaveNoEffect, OnlyAgentsAttach, Stored, HasAsker
  <2>3. QED
    BY <2>1, <2>2, ReqsAssumption, AskStep, NodeSteps, GoSteps, StreamSteps DEF RqNext
<1>3. RqInv => RequestsSafe
  BY DEF RqInv
<1>4. QED
  BY <1>1, <1>2, <1>3, PTL DEF RqSpec

-----------------------------------------------------------------------------
(* Bindings.                                                               *)

\* The grace is over when the trigger is served again.
NoGraceWhileServed == trigger = "active" => ~grace

EbInv == BindingsSafe /\ NoGraceWhileServed

\* A sweep removes what is stale and nothing else.
LEMMA SweepIsSafe ==
    ASSUME NEW b \in [Phones -> {"none", "fresh", "stale"}]
    PROVE  /\ Swept(b) \in [Phones -> {"none", "fresh", "stale"}]
           /\ \A p \in Phones : /\ Swept(b)[p] = "fresh" <=> b[p] = "fresh"
                                /\ Swept(b)[p] # "none" <=> b[p] = "fresh"
           /\ Online(Swept(b)) \subseteq Online(b)
BY DEF Swept, Online

LEMMA EbInitHolds ==
    ASSUME PhonesAssumption, EbInit
    PROVE  EbInv
<1>1. EbTypeOK
  <2>1. 0 \in 0..MaxSent
    BY DEF PhonesAssumption
  <2>2. QED
    BY <2>1, Zenon DEF EbInit, EbTypeOK
<1>2. Online(binding) = {}
  BY DEF EbInit, Online
<1>3. QED
  BY <1>1, <1>2 DEF EbInit, EbInv, BindingsSafe, ToldPhonesAreBound, OnlyToldPhonesAreBound,
     NoBindingAfterGrace, AvailabilityTold, NoGraceWhileServed

\* A REGISTER is sent, is lost, or waits for its authorisation.
LEMMA UnderWay ==
    ASSUME PhonesAssumption, EbInv,
           \/ \E p \in Phones : Send(p, "register") \/ Send(p, "remove")
           \/ \E m \in net : Lose(m) \/ Arrive(m)
           \/ \E m \in auth : Refuse(m)
    PROVE  EbInv'
<1>1. EbTypeOK /\ UNCHANGED <<binding, trigger, grace, told, ebFlaws>>
  BY DEF EbInv, BindingsSafe, Send, Lose, Arrive, Refuse
<1>2. /\ net' \subseteq Requests /\ auth' \subseteq Requests
      /\ phone' \in [Phones -> [on : BOOLEAN, sent : 0..MaxSent, heard : 0..MaxSent]]
      /\ \A p \in Phones : phone'[p].on = phone[p].on
  <2>1. ASSUME NEW p \in Phones, NEW k \in {"register", "remove"}, Send(p, k)
        PROVE  <1>2
    <3>1. /\ phone[p] \in [on : BOOLEAN, sent : 0..MaxSent, heard : 0..MaxSent]
          /\ phone[p].sent < MaxSent
          /\ phone' = [phone EXCEPT ![p].sent = @ + 1] /\ UNCHANGED auth
          /\ net' = net \cup {<<p, phone[p].sent + 1, k>>}
      BY <1>1, <2>1 DEF Send, EbTypeOK
    <3>2. phone[p].sent + 1 \in 1..MaxSent /\ phone[p].sent + 1 \in 0..MaxSent
      BY <3>1 DEF PhonesAssumption
    <3>3. <<p, phone[p].sent + 1, k>> \in Requests
      BY <3>2 DEF Requests
    <3>4. QED
      BY <1>1, <3>1, <3>2, <3>3 DEF EbTypeOK
  <2>2. CASE \E m \in net : Lose(m) \/ Arrive(m)
    BY <1>1, <2>2 DEF Lose, Arrive, EbTypeOK
  <2>3. CASE \E m \in auth : Refuse(m)
    BY <1>1, <2>3 DEF Refuse, EbTypeOK
  <2>4. QED
    BY <2>1, <2>2, <2>3
<1>3. QED
  BY <1>1, <1>2 DEF EbInv, BindingsSafe, EbTypeOK, ToldPhonesAreBound, OnlyToldPhonesAreBound,
     NoBindingAfterGrace, AvailabilityTold, NoGraceWhileServed

\* A REGISTER is answered with 200 OK.
LEMMA CompleteStep ==
    ASSUME PhonesAssumption, EbInv, NEW m \in auth, Complete(m)
    PROVE  EbInv'
<1>. DEFINE p == m[1]
<1>. DEFINE put == IF m[3] = "register" THEN "fresh" ELSE "none"
<1>. DEFINE b == [binding EXCEPT ![p] = put]
<1>. DEFINE old == m[2] < phone[p].heard
<1>1. EbTypeOK /\ p \in Phones /\ m[2] \in 1..MaxSent /\ m[3] \in {"register", "remove"}
  BY DEF EbInv, BindingsSafe, EbTypeOK, Requests
<1>2. /\ b \in [Phones -> {"none", "fresh", "stale"}]
      /\ \A q \in Phones : b[q] = IF q = p THEN put ELSE binding[q]
  BY <1>1 DEF EbTypeOK
<1>3. binding' = Swept(b) /\ told' = Online(Swept(b)) /\ UNCHANGED <<net, trigger, grace>>
  BY DEF Complete, Store
<1>4. /\ binding' \in [Phones -> {"none", "fresh", "stale"}]
      /\ \A q \in Phones : /\ binding'[q] = "fresh" <=> b[q] = "fresh"
                           /\ binding'[q] # "none" <=> b[q] = "fresh"
      /\ told' = Online(binding') /\ told' \subseteq Phones
  <2>. HIDE DEF b
  <2>1. QED
    BY <1>2, <1>3, SweepIsSafe DEF Online
<1>5. /\ phone' \in [Phones -> [on : BOOLEAN, sent : 0..MaxSent, heard : 0..MaxSent]]
      /\ \A q \in Phones : phone'[q].on = IF q = p /\ ~old THEN m[3] = "register" ELSE phone[q].on
  <2>1. CASE old
    BY <1>1, <2>1 DEF Complete, EbTypeOK
  <2>2. CASE ~old
    <3>1. phone' = [phone EXCEPT ![p].on = m[3] = "register", ![p].heard = m[2]]
      BY <2>2 DEF Complete
    <3>2. /\ phone[p] \in [on : BOOLEAN, sent : 0..MaxSent, heard : 0..MaxSent]
          /\ m[2] \in 0..MaxSent /\ (m[3] = "register") \in BOOLEAN
      BY <1>1 DEF EbTypeOK, PhonesAssumption
    <3>3. \A q \in Phones \ {p} : phone'[q] = phone[q]
      BY <1>1, <3>1 DEF EbTypeOK
    <3>4. /\ phone'[p] \in [on : BOOLEAN, sent : 0..MaxSent, heard : 0..MaxSent]
          /\ phone'[p].on = (m[3] = "register")
      BY <1>1, <3>1, <3>2 DEF EbTypeOK
    <3>5. phone' = [q \in Phones |-> phone'[q]]
      BY <1>1, <3>1 DEF EbTypeOK
    <3>6. \A q \in Phones : phone'[q] \in [on : BOOLEAN, sent : 0..MaxSent, heard : 0..MaxSent]
      BY <1>1, <3>3, <3>4 DEF EbTypeOK
    <3>7. QED
      BY <2>2, <3>3, <3>4, <3>5, <3>6
  <2>3. QED
    BY <2>1, <2>2
<1>6. /\ ebFlaws \subseteq ebFlaws' /\ ebFlaws' \subseteq EbFlaws
      /\ old => "overtaken" \in ebFlaws'
      /\ trigger # "active" /\ m[3] = "register" => "late" \in ebFlaws'
  BY <1>1 DEF Complete, EbTypeOK, EbFlaws
<1>7. auth' \subseteq auth
  BY DEF Complete
<1>8. EbTypeOK'
  BY <1>1, <1>3, <1>4, <1>5, <1>6, <1>7 DEF EbTypeOK
<1>9. NoBindingAfterGrace'
  <2>1. SUFFICES ASSUME "late" \notin ebFlaws', trigger = "closed", ~grace
                 PROVE  Online(binding') = {}
    BY <1>3 DEF NoBindingAfterGrace
  <2>2. /\ \A q \in Phones : binding[q] = "none"
        /\ m[3] # "register"
    BY <1>6, <2>1 DEF EbInv, BindingsSafe, NoBindingAfterGrace, Online
  <2>3. QED
    BY <1>2, <1>4, <2>2 DEF Online
<1>. HIDE DEF b, old
<1>10. ToldPhonesAreBound'
  BY <1>2, <1>4, <1>5, <1>6 DEF EbInv, BindingsSafe, ToldPhonesAreBound
<1>11. OnlyToldPhonesAreBound'
  BY <1>2, <1>4, <1>5, <1>6 DEF EbInv, BindingsSafe, OnlyToldPhonesAreBound
<1>12. QED
  BY <1>3, <1>4, <1>8, <1>9, <1>10, <1>11 DEF EbInv, BindingsSafe, AvailabilityTold, NoGraceWhileServed

\* A binding expires, or a reader sweeps the expired ones.
LEMMA ExpiryStep ==
    ASSUME PhonesAssumption, EbInv, Read \/ \E p \in Phones : Expire(p)
    PROVE  EbInv'
<1>1. EbTypeOK /\ UNCHANGED <<net, auth, trigger, grace, ebFlaws>>
  BY DEF EbInv, BindingsSafe, Read, Expire
<1>2. CASE Read
  <2>1. binding' = Swept(binding) /\ told' = Online(Swept(binding)) /\ UNCHANGED phone
    BY <1>2 DEF Read, Store
  <2>2. QED
    BY <1>1, <2>1, SweepIsSafe DEF EbInv, BindingsSafe, EbTypeOK, ToldPhonesAreBound,
       OnlyToldPhonesAreBound, NoBindingAfterGrace, AvailabilityTold, NoGraceWhileServed, Online
<1>3. ASSUME NEW p \in Phones, Expire(p)
      PROVE  EbInv'
  <2>1. /\ binding' \in [Phones -> {"none", "fresh", "stale"}] /\ binding[p] = "fresh"
        /\ \A q \in Phones : binding'[q] = IF q = p THEN "stale" ELSE binding[q]
        /\ UNCHANGED told
    BY <1>1, <1>3 DEF Expire, EbTypeOK
  <2>2. /\ phone' \in [Phones -> [on : BOOLEAN, sent : 0..MaxSent, heard : 0..MaxSent]]
        /\ \A q \in Phones : phone'[q].on = IF q = p THEN FALSE ELSE phone[q].on
    <3>1. phone' = [phone EXCEPT ![p].on = FALSE]
      BY <1>3 DEF Expire
    <3>2. phone \in [Phones -> [on : BOOLEAN, sent : 0..MaxSent, heard : 0..MaxSent]]
      BY <1>1 DEF EbTypeOK
    <3>3. phone[p] \in [on : BOOLEAN, sent : 0..MaxSent, heard : 0..MaxSent]
      BY <3>2
    <3>4. phone'[p] = [phone[p] EXCEPT !.on = FALSE]
      BY <3>1, <3>2
    <3>5. /\ phone'[p] \in [on : BOOLEAN, sent : 0..MaxSent, heard : 0..MaxSent]
          /\ phone'[p].on = FALSE
      BY <3>3, <3>4
    <3>6. \A q \in Phones \ {p} : phone'[q] = phone[q]
      BY <3>1, <3>2
    <3>7. phone' = [q \in Phones |-> phone'[q]]
      BY <3>1, <3>2
    <3>8. \A q \in Phones : phone'[q] \in [on : BOOLEAN, sent : 0..MaxSent, heard : 0..MaxSent]
      BY <3>2, <3>5, <3>6
    <3>9. phone' \in [Phones -> [on : BOOLEAN, sent : 0..MaxSent, heard : 0..MaxSent]]
      BY <3>7, <3>8
    <3>10. QED
      BY <3>5, <3>6, <3>9
  <2>3. Online(binding') = Online(binding)
    BY <2>1 DEF Online
  <2>4. QED
    BY <1>1, <2>1, <2>2, <2>3 DEF EbInv, BindingsSafe, EbTypeOK, ToldPhonesAreBound,
       OnlyToldPhonesAreBound, NoBindingAfterGrace, AvailabilityTold, NoGraceWhileServed
<1>4. QED
  BY <1>2, <1>3

\* The trigger's stream closes, and opens again or not.
LEMMA TriggerSteps ==
    ASSUME PhonesAssumption, EbInv, TriggerCloses \/ Reactivates \/ TriggerActivated \/ GraceEnds
    PROVE  EbInv'
<1>1. EbTypeOK
  BY DEF EbInv, BindingsSafe
<1>2. CASE TriggerCloses \/ Reactivates \/ TriggerActivated
  BY <1>1, <1>2 DEF TriggerCloses, Reactivates, TriggerActivated, EbInv, BindingsSafe, EbTypeOK,
     ToldPhonesAreBound, OnlyToldPhonesAreBound, NoBindingAfterGrace, AvailabilityTold,
     NoGraceWhileServed
<1>3. CASE GraceEnds
  <2>1. /\ grace' = FALSE /\ binding' = [p \in Phones |-> "none"]
        /\ UNCHANGED <<net, auth, trigger>> /\ trigger # "active"
    BY <1>3 DEF GraceEnds, EbInv, NoGraceWhileServed
  <2>2. binding' \in [Phones -> {"none", "fresh", "stale"}] /\ Online(binding') = {}
    BY <2>1 DEF Online
  <2>3. told' = {}
    BY <1>3 DEF GraceEnds, EbInv, BindingsSafe, AvailabilityTold
  <2>4. /\ phone' \in [Phones -> [on : BOOLEAN, sent : 0..MaxSent, heard : 0..MaxSent]]
        /\ trigger = "closed" => \A p \in Phones : ~phone'[p].on
    <3>1. CASE trigger = "closed"
      <4>1. phone' = [p \in Phones |-> [phone[p] EXCEPT !.on = FALSE]]
        BY <1>3, <3>1 DEF GraceEnds
      <4>2. \A p \in Phones : phone[p] \in [on : BOOLEAN, sent : 0..MaxSent, heard : 0..MaxSent]
        BY <1>1 DEF EbTypeOK
      <4>3. \A p \in Phones : /\ [phone[p] EXCEPT !.on = FALSE]
                                   \in [on : BOOLEAN, sent : 0..MaxSent, heard : 0..MaxSent]
                              /\ [phone[p] EXCEPT !.on = FALSE].on = FALSE
        BY <4>2
      <4>4. QED
        BY <4>1, <4>3
    <3>2. CASE trigger # "closed"
      BY <1>1, <1>3, <3>2 DEF GraceEnds, EbTypeOK
    <3>3. QED
      BY <3>1, <3>2
  <2>5. /\ ebFlaws' \subseteq EbFlaws
        /\ trigger = "activating" => "wiped" \in ebFlaws'
    BY <1>1, <1>3 DEF GraceEnds, EbTypeOK, EbFlaws
  <2>6. trigger \in {"closed", "activating"}
    BY <1>1, <2>1 DEF EbTypeOK
  <2>7. QED
    BY <1>1, <2>1, <2>2, <2>3, <2>4, <2>5, <2>6 DEF EbInv, BindingsSafe, EbTypeOK,
       ToldPhonesAreBound, OnlyToldPhonesAreBound, NoBindingAfterGrace, AvailabilityTold,
       NoGraceWhileServed
<1>4. QED
  BY <1>2, <1>3

\* A phone that was told it is registered can be dialled and nobody else is
\* offered, bindings do not outlive their trigger, and whoever waits for the
\* extension was told of every phone that came and went.
THEOREM BindingsAreSafe == EbSpec => []BindingsSafe
<1>1. EbInit => EbInv
  BY PhonesAssumption, EbInitHolds
<1>2. EbInv /\ [EbNext]_ebVars => EbInv'
  <2>1. SUFFICES ASSUME EbInv, [EbNext]_ebVars PROVE EbInv'
    OBVIOUS
  <2>2. CASE UNCHANGED ebVars
    BY <2>1, <2>2 DEF ebVars, EbInv, BindingsSafe, EbTypeOK, ToldPhonesAreBound,
       OnlyToldPhonesAreBound, NoBindingAfterGrace, AvailabilityTold, NoGraceWhileServed, Online
  <2>3. QED
    BY <2>1, <2>2, PhonesAssumption, UnderWay, CompleteStep, ExpiryStep, TriggerSteps DEF EbNext
<1>3. EbInv => BindingsSafe
  BY DEF EbInv
<1>4. QED
  BY <1>1, <1>2, <1>3, PTL DEF EbSpec

-----------------------------------------------------------------------------
(* Daemon processes.                                                       *)

\* A socket leads to a daemon.
SocketsLeadSomewhere ==
    \A c \in Procs :
        client[c].pc \in {"sent", "serving", "streaming", "late"} => client[c].to \in Daemons

DpInv == DaemonSafe /\ SocketsLeadSomewhere

\* What a daemon and a client process may look like.
DaemonState == [st : {"none", "starting", "up", "stopping", "gone"}, timer : BOOLEAN, task : BOOLEAN, had : BOOLEAN]
ClientState == [pc : {"idle", "connect", "polling", "sent", "serving", "streaming", "late", "failed"},
                to : {0} \cup Daemons, stream : BOOLEAN]

LEMMA DpInitHolds ==
    ASSUME ProcsAssumption, DpInit
    PROVE  DpInv
<1>1. DpTypeOK
  BY DEF DpInit, DpTypeOK, DpFlaws
<1>2. QED
  BY <1>1 DEF DpInit, DpInv, DaemonSafe, StreamsReachThePath, FailuresExplained, TasksOutliveIdle,
     NoLostDaemon, SocketsLeadSomewhere, Listening

\* The steps that leave every daemon in its phase: a stream is only opened
\* with a daemon that is up, and a task only begun in one that is stopping as
\* the flaw says.
LEMMA SamePhases ==
    ASSUME ProcsAssumption, DpInv,
           daemon' \in [Daemons -> DaemonState], client' \in [Procs -> ClientState],
           UNCHANGED path, dpFlaws \subseteq dpFlaws', dpFlaws' \subseteq DpFlaws,
           \A d \in Daemons : /\ daemon'[d].st = daemon[d].st
                              /\ daemon'[d].task => \/ daemon[d].task
                                                    \/ daemon[d].st = "stopping" => "idle" \in dpFlaws',
           \A c \in Procs :
              \/ client'[c] = client[c]
              \/ client'[c].pc \in {"idle", "connect", "polling"}
              \/ client'[c].pc = "failed" /\ dpFlaws' # {}
              \/ client'[c].pc \in {"sent", "serving", "late"} /\ client'[c].to \in Daemons
              \/ /\ client'[c].pc = "streaming" /\ client'[c].to \in Daemons
                 /\ daemon[client'[c].to].st = "up"
    PROVE  DpInv'
<1>1. DpTypeOK'
  BY DEF DpInv, DaemonSafe, DpTypeOK, DaemonState, ClientState
<1>2. NoLostDaemon'
  BY DEF DpInv, DaemonSafe, NoLostDaemon, Listening
<1>3. SocketsLeadSomewhere'
  BY DEF DpInv, SocketsLeadSomewhere
<1>4. StreamsReachThePath'
  <2>1. SUFFICES ASSUME dpFlaws' \cap {"crash", "split"} = {}, NEW c \in Procs, client'[c].pc = "streaming"
                 PROVE  path = client'[c].to /\ daemon'[path].st = "up"
    BY DEF StreamsReachThePath
  <2>2. dpFlaws \cap {"crash", "split"} = {}
    BY <2>1
  <2>3. CASE client'[c] = client[c]
    <3>1. path = client[c].to /\ daemon[path].st = "up" /\ path \in Daemons
      BY <2>1, <2>2, <2>3 DEF DpInv, DaemonSafe, StreamsReachThePath, SocketsLeadSomewhere
    <3>2. QED
      BY <2>3, <3>1
  <2>4. CASE client'[c].to \in Daemons /\ daemon[client'[c].to].st = "up"
    <3>1. Listening(client'[c].to)
      BY <2>4 DEF Listening, Daemons
    <3>2. QED
      BY <2>2, <2>4, <3>1 DEF DpInv, DaemonSafe, NoLostDaemon
  <2>5. QED
    BY <2>1, <2>3, <2>4
<1>5. FailuresExplained'
  BY DEF DpInv, DaemonSafe, FailuresExplained
<1>6. TasksOutliveIdle'
  BY DEF DpInv, DaemonSafe, TasksOutliveIdle
<1>7. QED
  BY <1>1, <1>2, <1>3, <1>4, <1>5, <1>6 DEF DpInv, DaemonSafe

\* A daemon comes into being or ends, and the socket path stays as it is.
LEMMA PhaseStep ==
    ASSUME ProcsAssumption, DpInv, NEW d \in Daemons,
           daemon' \in [Daemons -> DaemonState], client' \in [Procs -> ClientState],
           \A e \in Daemons \ {d} : daemon'[e] = daemon[e],
           UNCHANGED <<path, dpFlaws>>,
           \/ daemon[d].st \in {"none", "starting"} /\ daemon'[d].st \in {"starting", "gone"}
           \/ daemon[d].st = "up" /\ daemon'[d].st = "up"
           \/ daemon[d].st = "up" /\ daemon'[d].st = "stopping" /\ ~daemon'[d].task /\ Streams(d) = {},
           \A c \in Procs : \/ client'[c] = client[c]
                            \/ client'[c].pc = "polling"
    PROVE  DpInv'
<1>1. DpTypeOK'
  BY DEF DpInv, DaemonSafe, DpTypeOK, DaemonState, ClientState
<1>2. NoLostDaemon'
  BY DEF DpInv, DaemonSafe, NoLostDaemon, Listening
<1>3. SocketsLeadSomewhere' /\ FailuresExplained'
  BY DEF DpInv, DaemonSafe, SocketsLeadSomewhere, FailuresExplained
<1>4. StreamsReachThePath'
  <2>1. SUFFICES ASSUME dpFlaws \cap {"crash", "split"} = {}, NEW c \in Procs, client'[c].pc = "streaming"
                 PROVE  path = client'[c].to /\ daemon'[path].st = "up"
    BY DEF StreamsReachThePath
  <2>2. client'[c] = client[c]
    BY <2>1
  <2>3. path = client[c].to /\ daemon[path].st = "up" /\ path \in Daemons
    BY <2>1, <2>2 DEF DpInv, DaemonSafe, StreamsReachThePath, SocketsLeadSomewhere
  <2>4. c \in Streams(path)
    BY <2>1, <2>2, <2>3 DEF Streams
  <2>5. QED
    BY <2>2, <2>3, <2>4
<1>5. TasksOutliveIdle'
  BY DEF DpInv, DaemonSafe, TasksOutliveIdle
<1>6. QED
  BY <1>1, <1>2, <1>3, <1>4, <1>5 DEF DpInv, DaemonSafe

\* A client process calls, connects, waits for the daemon it started, is
\* served or gives up.
LEMMA ClientSteps ==
    ASSUME ProcsAssumption, DpInv, NEW c \in Procs,
           \/ \E str \in BOOLEAN : Begin(c, str)
           \/ Connects(c) \/ SpawnFails(c) \/ Serve(c) \/ Answer(c) \/ StreamEnds(c)
    PROVE  DpInv'
<1>1. /\ DpTypeOK /\ daemon \in [Daemons -> DaemonState] /\ client \in [Procs -> ClientState]
      /\ client[c] \in ClientState
  BY DEF DpInv, DaemonSafe, DpTypeOK, DaemonState, ClientState
<1>2. CASE (\E str \in BOOLEAN : Begin(c, str)) \/ Connects(c) \/ SpawnFails(c)
  <2>1. UNCHANGED <<daemon, path>> /\ dpFlaws \subseteq dpFlaws' /\ dpFlaws' \subseteq DpFlaws
    BY <1>1, <1>2 DEF Begin, Connects, SpawnFails, DpTypeOK, DpFlaws
  <2>2. client' \in [Procs -> ClientState] /\ \A q \in Procs \ {c} : client'[q] = client[q]
    BY <1>1, <1>2 DEF Begin, Connects, SpawnFails, SetPc, ClientState, DpTypeOK
  <2>3. \/ client'[c].pc = "connect"
        \/ client'[c].pc = "failed" /\ dpFlaws' # {}
        \/ client'[c].pc = "sent" /\ client'[c].to \in Daemons
    <3>1. CASE \E str \in BOOLEAN : Begin(c, str)
      BY <1>1, <3>1 DEF Begin
    <3>2. CASE Connects(c)
      BY <1>1, <3>2 DEF Connects, Listening, ClientState, DpTypeOK
    <3>3. CASE SpawnFails(c)
      BY <1>1, <3>3 DEF SpawnFails, SetPc, ClientState
    <3>4. QED
      BY <1>2, <3>1, <3>2, <3>3
  <2>4. QED
    BY <1>1, <2>1, <2>2, <2>3, SamePhases
<1>3. CASE Serve(c)
  <2>. DEFINE d == client[c].to
  <2>1. d \in Daemons /\ daemon[d] \in DaemonState
    BY <1>1, <1>3 DEF Serve, DpInv, SocketsLeadSomewhere
  <2>2. /\ daemon' \in [Daemons -> DaemonState] /\ UNCHANGED <<path, dpFlaws>>
        /\ \A e \in Daemons : daemon'[e].st = daemon[e].st /\ daemon'[e].task = daemon[e].task
    <3>1. \/ UNCHANGED daemon
          \/ daemon' = [daemon EXCEPT ![d].timer = FALSE, ![d].had = TRUE]
      BY <1>3 DEF Serve
    <3>2. UNCHANGED <<path, dpFlaws>>
      BY <1>3 DEF Serve
    <3>. HIDE DEF d
    <3>3. CASE daemon' = [daemon EXCEPT ![d].timer = FALSE, ![d].had = TRUE]
      BY <1>1, <2>1, <3>2, <3>3 DEF DaemonState
    <3>4. CASE UNCHANGED daemon
      BY <1>1, <3>2, <3>4
    <3>5. QED
      BY <3>1, <3>3, <3>4
  <2>3. /\ client' \in [Procs -> ClientState] /\ \A q \in Procs \ {c} : client'[q] = client[q]
        /\ client'[c].pc \in {"serving", "streaming", "late"} /\ client'[c].to = d
        /\ client'[c].pc = "streaming" => daemon[d].st = "up"
    BY <1>1, <1>3 DEF Serve, SetPc, ClientState
  <2>4. dpFlaws \subseteq dpFlaws' /\ dpFlaws' \subseteq DpFlaws
    BY <1>1, <2>2 DEF DpTypeOK
  <2>5. QED
    BY <1>1, <2>1, <2>2, <2>3, <2>4, SamePhases
<1>4. CASE Answer(c)
  <2>. DEFINE d == client[c].to
  <2>1. d \in Daemons /\ daemon[d] \in DaemonState
    BY <1>1, <1>4 DEF Answer, DpInv, SocketsLeadSomewhere
  <2>2. /\ client' \in [Procs -> ClientState] /\ \A q \in Procs \ {c} : client'[q] = client[q]
        /\ client'[c].pc = "idle" /\ UNCHANGED path
    BY <1>1, <1>4 DEF Answer, ClientState
  <2>3. /\ daemon' \in [Daemons -> DaemonState]
        /\ \A e \in Daemons : daemon'[e].st = daemon[e].st
        /\ \A e \in Daemons \ {d} : daemon'[e].task = daemon[e].task
        /\ \/ daemon'[d].task = daemon[d].task
           \/ daemon[d].st = "stopping" => "idle" \in dpFlaws'
    <3>1. \/ UNCHANGED daemon
          \/ /\ daemon' = [daemon EXCEPT ![d].task = TRUE]
             /\ daemon[d].st = "stopping" => "idle" \in dpFlaws'
      BY <1>4 DEF Answer
    <3>. HIDE DEF d
    <3>2. CASE daemon' = [daemon EXCEPT ![d].task = TRUE]
      BY <1>1, <2>1, <3>1, <3>2 DEF DaemonState
    <3>3. CASE UNCHANGED daemon
      BY <1>1, <3>3
    <3>4. QED
      BY <3>1, <3>2, <3>3
  <2>4. dpFlaws \subseteq dpFlaws' /\ dpFlaws' \subseteq DpFlaws
    BY <1>1, <1>4 DEF Answer, DpTypeOK, DpFlaws
  <2>5. QED
    BY <1>1, <2>1, <2>2, <2>3, <2>4, SamePhases
<1>5. CASE StreamEnds(c)
  <2>. DEFINE d == client[c].to
  <2>. DEFINE t == daemon[d].timer \/ (daemon[d].st = "up" /\ Streams(d) = {c})
  <2>1. d \in Daemons /\ daemon[d] \in DaemonState
    BY <1>1, <1>5 DEF StreamEnds, DpInv, SocketsLeadSomewhere
  <2>2. /\ client' \in [Procs -> ClientState] /\ \A q \in Procs \ {c} : client'[q] = client[q]
        /\ client'[c].pc = "idle" /\ UNCHANGED <<path, dpFlaws>>
    BY <1>1, <1>5 DEF StreamEnds, ClientState
  <2>3. daemon' = [daemon EXCEPT ![d].timer = t] /\ t \in BOOLEAN
    BY <1>1, <1>5, <2>1 DEF StreamEnds, DaemonState
  <2>. HIDE DEF t
  <2>4. /\ daemon' \in [Daemons -> DaemonState]
        /\ \A e \in Daemons : daemon'[e].st = daemon[e].st /\ daemon'[e].task = daemon[e].task
    BY <1>1, <2>1, <2>3 DEF DaemonState
  <2>5. dpFlaws \subseteq dpFlaws' /\ dpFlaws' \subseteq DpFlaws
    BY <1>1, <2>2 DEF DpTypeOK
  <2>6. QED
    BY <1>1, <2>2, <2>4, <2>5, SamePhases
<1>6. QED
  BY <1>2, <1>3, <1>4, <1>5

\* A daemon is spawned, its child exits, a task of it ends, or its idle
\* timer goes off.
LEMMA DaemonSteps ==
    ASSUME ProcsAssumption, DpInv,
           \/ \E c \in Procs : Spawns(c)
           \/ \E d \in Daemons : ChildExits(d) \/ TaskEnds(d) \/ IdleFires(d)
    PROVE  DpInv'
<1>1. /\ DpTypeOK /\ daemon \in [Daemons -> DaemonState] /\ client \in [Procs -> ClientState]
      /\ dpFlaws \subseteq DpFlaws
  BY DEF DpInv, DaemonSafe, DpTypeOK, DaemonState, ClientState
<1>2. ASSUME NEW c \in Procs, Spawns(c)
      PROVE  DpInv'
  <2>1. PICK d \in Daemons : daemon[d].st = "none" /\ daemon' = [daemon EXCEPT ![d].st = "starting"]
    BY <1>2 DEF Spawns
  <2>2. /\ daemon' \in [Daemons -> DaemonState] /\ \A e \in Daemons \ {d} : daemon'[e] = daemon[e]
        /\ daemon'[d].st = "starting"
    BY <1>1, <2>1 DEF DaemonState
  <2>3. /\ client' \in [Procs -> ClientState] /\ \A q \in Procs \ {c} : client'[q] = client[q]
        /\ client'[c].pc = "polling" /\ UNCHANGED <<path, dpFlaws>>
    BY <1>1, <1>2 DEF Spawns, SetPc, ClientState
  <2>4. QED
    BY <1>1, <2>1, <2>2, <2>3, PhaseStep
<1>3. ASSUME NEW d \in Daemons, ChildExits(d)
      PROVE  DpInv'
  <2>1. /\ daemon' \in [Daemons -> DaemonState] /\ \A e \in Daemons \ {d} : daemon'[e] = daemon[e]
        /\ daemon[d].st = "starting" /\ daemon'[d].st = "gone" /\ UNCHANGED <<path, client, dpFlaws>>
    BY <1>1, <1>3 DEF ChildExits, DaemonState
  <2>2. QED
    BY <1>1, <2>1, PhaseStep
<1>4. ASSUME NEW d \in Daemons, TaskEnds(d)
      PROVE  DpInv'
  <2>1. PICK left \in BOOLEAN, ofLeg \in BOOLEAN :
           daemon' = [daemon EXCEPT ![d].task = left, ![d].had = @ \/ ofLeg,
                        ![d].timer = @ \/ (ofLeg /\ daemon[d].st = "up" /\ Streams(d) = {})]
    BY <1>4 DEF TaskEnds
  <2>. DEFINE h == daemon[d].had \/ ofLeg
  <2>. DEFINE t == daemon[d].timer \/ (ofLeg /\ daemon[d].st = "up" /\ Streams(d) = {})
  <2>2. daemon' = [daemon EXCEPT ![d].task = left, ![d].had = h, ![d].timer = t]
    BY <1>1, <2>1
  <2>3. h \in BOOLEAN /\ t \in BOOLEAN /\ daemon[d].task
    BY <1>1, <1>4 DEF DaemonState, TaskEnds
  <2>4. UNCHANGED <<path, client, dpFlaws>>
    BY <1>4 DEF TaskEnds
  <2>. HIDE DEF h, t
  <2>. DEFINE now == [daemon[d] EXCEPT !.task = left, !.had = h, !.timer = t]
  <2>7. /\ daemon' = [daemon EXCEPT ![d] = now] /\ daemon[d] \in DaemonState
        /\ \A e \in Daemons \ {d} : daemon'[e] = daemon[e]
    BY <1>1, <2>2
  <2>8. now \in DaemonState /\ now.st = daemon[d].st
    BY <2>3, <2>7 DEF DaemonState
  <2>. HIDE DEF now
  <2>9. daemon' \in [Daemons -> DaemonState] /\ daemon'[d] = now
    BY <1>1, <2>7, <2>8
  <2>5. /\ daemon' \in [Daemons -> DaemonState]
        /\ \A e \in Daemons : daemon'[e].st = daemon[e].st /\ (daemon'[e].task => daemon[e].task)
    BY <2>3, <2>7, <2>8, <2>9
  <2>6. QED
    BY <1>1, <2>4, <2>5, SamePhases
<1>5. ASSUME NEW d \in Daemons, IdleFires(d)
      PROVE  DpInv'
  <2>. DEFINE t == HasActiveTasks(d) /\ Streams(d) = {}
  <2>. DEFINE s == IF HasActiveTasks(d) THEN "up" ELSE "stopping"
  <2>1. /\ daemon' = [daemon EXCEPT ![d].timer = t, ![d].st = s]
        /\ daemon[d] \in DaemonState /\ daemon[d].st = "up" /\ UNCHANGED <<path, client, dpFlaws>>
    BY <1>1, <1>5 DEF IdleFires
  <2>2. /\ t \in BOOLEAN /\ s \in {"up", "stopping"}
        /\ s = "stopping" => Streams(d) = {} /\ daemon[d].task = FALSE
    BY <2>1 DEF HasActiveTasks, DaemonState
  <2>. HIDE DEF t, s
  <2>3. /\ daemon' \in [Daemons -> DaemonState] /\ \A e \in Daemons \ {d} : daemon'[e] = daemon[e]
        /\ daemon'[d].st = s /\ daemon'[d].task = daemon[d].task
    BY <1>1, <2>1, <2>2 DEF DaemonState
  <2>4. QED
    BY <1>1, <2>1, <2>2, <2>3, PhaseStep
<1>6. QED
  BY <1>2, <1>3, <1>4, <1>5

\* A daemon is told to stop: its streams are closed, the socket path stays.
LEMMA TellStep ==
    ASSUME ProcsAssumption, DpInv, NEW c \in Procs, StopDaemon(c)
    PROVE  DpInv'
<1>. DEFINE d == client[c].to
<1>1. /\ DpTypeOK /\ daemon \in [Daemons -> DaemonState] /\ client \in [Procs -> ClientState]
  BY DEF DpInv, DaemonSafe, DpTypeOK, DaemonState, ClientState
<1>2. d \in Daemons /\ daemon[d].st = "up" /\ UNCHANGED path
  BY DEF StopDaemon, DpInv, SocketsLeadSomewhere
<1>3. daemon' = [daemon EXCEPT ![d].st = "stopping", ![d].timer = FALSE]
  BY DEF StopDaemon
<1>4. client' = [q \in Procs |-> IF q \in Streams(d) \cup {c}
                                 THEN [client[q] EXCEPT !.pc = IF q = c THEN "idle" ELSE "failed", !.to = 0]
                                 ELSE client[q]]
  BY DEF StopDaemon
<1>5. dpFlaws' = IF HasActiveTasks(d) THEN dpFlaws \cup {"told"} ELSE dpFlaws
  BY DEF StopDaemon
<1>6. \A q \in Procs : q \in Streams(d) <=> client[q].to = d /\ client[q].pc \in {"streaming", "late"}
  BY DEF Streams
<1>7. /\ \A q \in Procs : client[q] \in ClientState
      /\ \A x \in ClientState : /\ [x EXCEPT !.pc = "idle", !.to = 0] \in ClientState
                               /\ [x EXCEPT !.pc = "idle", !.to = 0].pc = "idle"
                               /\ [x EXCEPT !.pc = "failed", !.to = 0] \in ClientState
                               /\ [x EXCEPT !.pc = "failed", !.to = 0].pc = "failed"
  BY <1>1 DEF ClientState
<1>. HIDE DEF d
<1>8. /\ client' \in [Procs -> ClientState]
      /\ \A q \in Procs : \/ client'[q].pc = "idle"
                          \/ client'[q].pc = "failed" /\ q \in Streams(d)
                          \/ client'[q] = client[q] /\ q \notin Streams(d)
  <2>1. ASSUME NEW q \in Procs
        PROVE  /\ client'[q] \in ClientState
               /\ \/ client'[q].pc = "idle"
                  \/ client'[q].pc = "failed" /\ q \in Streams(d)
                  \/ client'[q] = client[q] /\ q \notin Streams(d)
    <3>. DEFINE idle == [client[q] EXCEPT !.pc = "idle", !.to = 0]
    <3>. DEFINE failed == [client[q] EXCEPT !.pc = "failed", !.to = 0]
    <3>1. /\ client[q] \in ClientState
          /\ idle \in ClientState /\ idle.pc = "idle"
          /\ failed \in ClientState /\ failed.pc = "failed"
      BY <1>7
    <3>2. client'[q] = IF q \in Streams(d) \cup {c} THEN IF q = c THEN idle ELSE failed ELSE client[q]
      BY <1>4
    <3>. HIDE DEF idle, failed
    <3>3. QED
      BY <3>1, <3>2
  <2>2. client' = [q \in Procs |-> client'[q]]
    BY <1>4
  <2>3. QED
    BY <2>1, <2>2
<1>9. /\ daemon' \in [Daemons -> DaemonState] /\ \A e \in Daemons \ {d} : daemon'[e] = daemon[e]
      /\ daemon'[d].st = "stopping" /\ daemon'[d].task = daemon[d].task
  BY <1>1, <1>2, <1>3 DEF DaemonState
<1>10. /\ dpFlaws \subseteq dpFlaws' /\ dpFlaws' \subseteq DpFlaws
       /\ dpFlaws' \cap {"crash", "split"} = dpFlaws \cap {"crash", "split"}
       /\ Streams(d) # {} \/ daemon[d].task => "told" \in dpFlaws'
  BY <1>1, <1>5 DEF DpTypeOK, DpFlaws, HasActiveTasks
<1>11. DpTypeOK'
  BY <1>1, <1>2, <1>8, <1>9, <1>10 DEF DpTypeOK, DaemonState, ClientState
<1>12. NoLostDaemon'
  <2>1. \A e \in Daemons : Listening(e)' => Listening(e)
    BY <1>2, <1>9 DEF Listening
  <2>2. QED
    BY <1>2, <1>10, <2>1 DEF DpInv, DaemonSafe, NoLostDaemon
<1>13. SocketsLeadSomewhere'
  BY <1>8 DEF DpInv, SocketsLeadSomewhere
<1>14. StreamsReachThePath'
  <2>1. SUFFICES ASSUME dpFlaws' \cap {"crash", "split"} = {}, NEW q \in Procs, client'[q].pc = "streaming"
                 PROVE  path' = client'[q].to /\ daemon'[path'].st = "up"
    BY DEF StreamsReachThePath
  <2>2. client'[q] = client[q] /\ q \notin Streams(d)
    BY <1>8, <2>1
  <2>3. path = client[q].to /\ daemon[path].st = "up" /\ path \in Daemons
    BY <1>10, <2>1, <2>2 DEF DpInv, DaemonSafe, StreamsReachThePath, SocketsLeadSomewhere
  <2>4. path # d
    BY <1>6, <2>1, <2>2, <2>3
  <2>5. QED
    BY <1>2, <1>9, <2>2, <2>3, <2>4
<1>15. FailuresExplained'
  BY <1>8, <1>10 DEF DpInv, DaemonSafe, FailuresExplained
<1>16. TasksOutliveIdle'
  BY <1>9, <1>10 DEF DpInv, DaemonSafe, TasksOutliveIdle
<1>17. QED
  BY <1>11, <1>12, <1>13, <1>14, <1>15, <1>16 DEF DpInv, DaemonSafe

\* A daemon takes the socket path, from whoever has it.
LEMMA StartStep ==
    ASSUME ProcsAssumption, DpInv, NEW d \in Daemons, Start(d)
    PROVE  DpInv'
<1>1. /\ DpTypeOK /\ daemon \in [Daemons -> DaemonState] /\ client \in [Procs -> ClientState]
  BY DEF DpInv, DaemonSafe, DpTypeOK, DaemonState, ClientState
<1>2. /\ daemon' \in [Daemons -> DaemonState] /\ \A e \in Daemons \ {d} : daemon'[e] = daemon[e]
      /\ daemon[d].st = "starting" /\ daemon'[d].st = "up" /\ path' = d /\ UNCHANGED client
  BY <1>1 DEF Start, DaemonState
<1>3. /\ dpFlaws \subseteq dpFlaws' /\ dpFlaws' \subseteq DpFlaws
      /\ "split" \notin dpFlaws' => ~Listening(path)
  BY <1>1 DEF Start, DpTypeOK, DpFlaws
<1>4. DpTypeOK'
  BY <1>1, <1>2, <1>3 DEF DpTypeOK, DaemonState
<1>5. "split" \notin dpFlaws' => \A e \in Daemons : ~Listening(e)
  BY <1>3 DEF DpInv, DaemonSafe, NoLostDaemon
<1>6. NoLostDaemon'
  BY <1>2, <1>5 DEF NoLostDaemon, Listening
<1>7. StreamsReachThePath'
  <2>1. SUFFICES ASSUME dpFlaws' \cap {"crash", "split"} = {}, NEW c \in Procs, client[c].pc = "streaming"
                 PROVE  FALSE
    BY <1>2 DEF StreamsReachThePath
  <2>2. client[c].to \in Daemons /\ daemon[client[c].to].st = "up"
    BY <1>3, <2>1 DEF DpInv, DaemonSafe, StreamsReachThePath, SocketsLeadSomewhere
  <2>3. QED
    BY <1>5, <2>1, <2>2 DEF Listening, Daemons
<1>8. (FailuresExplained /\ TasksOutliveIdle /\ SocketsLeadSomewhere)'
  BY <1>2, <1>3 DEF DpInv, DaemonSafe, FailuresExplained, TasksOutliveIdle, SocketsLeadSomewhere
<1>9. QED
  BY <1>4, <1>6, <1>7, <1>8 DEF DpInv, DaemonSafe

\* A daemon ends and takes every socket with it.
LEMMA EndSteps ==
    ASSUME ProcsAssumption, DpInv, NEW d \in Daemons, StopServer(d) \/ Crash(d)
    PROVE  DpInv'
<1>1. /\ DpTypeOK /\ daemon \in [Daemons -> DaemonState] /\ client \in [Procs -> ClientState]
      /\ daemon[d] \in DaemonState
  BY DEF DpInv, DaemonSafe, DpTypeOK, DaemonState, ClientState
<1>. DEFINE end == [st |-> "gone", timer |-> FALSE, task |-> FALSE, had |-> daemon[d].had]
<1>2. /\ daemon' = [daemon EXCEPT ![d] = end] /\ Listening(d)
      /\ client' = [c \in Procs |-> IF c \in ConnectedTo(d)
                                    THEN [client[c] EXCEPT !.pc = "failed", !.to = 0] ELSE client[c]]
  <2>1. d # 0
    BY DEF Daemons
  <2>2. QED
    BY <1>1, <2>1 DEF StopServer, Crash, Listening
<1>3. end \in DaemonState /\ end.st = "gone"
  BY <1>1 DEF DaemonState
<1>. HIDE DEF end
<1>4. /\ daemon' \in [Daemons -> DaemonState] /\ \A e \in Daemons \ {d} : daemon'[e] = daemon[e]
      /\ daemon'[d].st = "gone"
  BY <1>1, <1>2, <1>3
<1>5. /\ client' \in [Procs -> ClientState]
      /\ \A c \in Procs : \/ client'[c] = client[c] /\ c \notin ConnectedTo(d)
                          \/ client'[c].pc = "failed" /\ ConnectedTo(d) # {}
  <2>1. \A c \in Procs : client[c] \in ClientState
    BY <1>1
  <2>2. \A c \in Procs : /\ [client[c] EXCEPT !.pc = "failed", !.to = 0] \in ClientState
                         /\ [client[c] EXCEPT !.pc = "failed", !.to = 0].pc = "failed"
    BY <2>1 DEF ClientState
  <2>3. QED
    BY <1>2, <2>1, <2>2
<1>6. /\ dpFlaws \subseteq dpFlaws' /\ dpFlaws' \subseteq DpFlaws
      /\ ConnectedTo(d) # {} => dpFlaws' # {}
      /\ path' \in {0, path}
      /\ "crash" \notin dpFlaws' => daemon[d].st = "stopping"
      /\ "split" \notin dpFlaws' => path' = path \/ path \in {0, d}
  BY <1>1 DEF StopServer, Crash, DpTypeOK, DpFlaws
<1>7. DpTypeOK'
  BY <1>1, <1>4, <1>5, <1>6 DEF DpTypeOK, DaemonState, ClientState
<1>8. NoLostDaemon'
  <2>1. SUFFICES ASSUME "split" \notin dpFlaws', NEW e \in Daemons, Listening(e)'
                 PROVE  path' = e
    BY DEF NoLostDaemon
  <2>2. e # d /\ Listening(e)
    BY <1>4, <2>1 DEF Listening
  <2>3. path = e /\ path = d
    BY <1>2, <1>6, <2>1, <2>2 DEF DpInv, DaemonSafe, NoLostDaemon
  <2>4. QED
    BY <2>2, <2>3
<1>9. StreamsReachThePath'
  <2>1. SUFFICES ASSUME dpFlaws' \cap {"crash", "split"} = {}, NEW c \in Procs, client'[c].pc = "streaming"
                 PROVE  FALSE
    BY DEF StreamsReachThePath
  <2>2. client[c].pc = "streaming" /\ c \notin ConnectedTo(d)
    BY <1>5, <2>1
  <2>3. path = client[c].to /\ daemon[path].st = "up" /\ path \in Daemons
    BY <1>6, <2>1, <2>2 DEF DpInv, DaemonSafe, StreamsReachThePath, SocketsLeadSomewhere
  <2>4. path = d
    BY <1>2, <1>6, <2>1 DEF DpInv, DaemonSafe, NoLostDaemon
  <2>5. QED
    BY <2>2, <2>3, <2>4 DEF ConnectedTo
<1>10. (FailuresExplained /\ TasksOutliveIdle /\ SocketsLeadSomewhere)'
  BY <1>4, <1>5, <1>6 DEF DpInv, DaemonSafe, FailuresExplained, TasksOutliveIdle, SocketsLeadSomewhere
<1>11. QED
  BY <1>7, <1>8, <1>9, <1>10 DEF DpInv, DaemonSafe

\* A process that has a trigger stream has it with the daemon every new call
\* reaches, a call fails and a task is stopped only for one of the recorded
\* reasons, an order to stop among them,
\* and no daemon loses the socket path unless two were started at once.
THEOREM DaemonIsSafe == DpSpec => []DaemonSafe
<1>1. DpInit => DpInv
  BY ProcsAssumption, DpInitHolds
<1>2. DpInv /\ [DpNext]_dpVars => DpInv'
  <2>1. SUFFICES ASSUME DpInv, [DpNext]_dpVars PROVE DpInv'
    OBVIOUS
  <2>2. CASE UNCHANGED dpVars
    BY <2>1, <2>2 DEF dpVars, DpInv, DaemonSafe, DpTypeOK, StreamsReachThePath, FailuresExplained,
       TasksOutliveIdle, NoLostDaemon, SocketsLeadSomewhere, Listening
  <2>3. QED
    BY <2>1, <2>2, ProcsAssumption, ClientSteps, DaemonSteps, TellStep, StartStep, EndSteps
    DEF DpNext
<1>3. DpInv => DaemonSafe
  BY DEF DpInv
<1>4. QED
  BY <1>1, <1>2, <1>3, PTL DEF DpSpec

-----------------------------------------------------------------------------
(* Trigger streams.                                                        *)

\* The stream the daemon registered is of that trigger, and its connection is
\* somewhere between its start and its end.
RegisteredStreams ==
    \A k \in Triggers : active[k] # None =>
        /\ active[k][1] = k
        /\ act[active[k]].conn \in {"starting", "ready", "up", "ending"}

\* A stream whose activation is awaited is the registered one.
StartingStreams == \A a \in Acts : act[a].conn = "starting" => active[a[1]] = a

\* The runtime keeps the streams of activations that are open.
KeptStreams ==
    \A k \in Triggers : managed[k] # None =>
        managed[k][1] = k /\ act[managed[k]].pc = "open"

\* An activation has a managed stream once it was open, and no connection
\* before it tries or after it failed.
NoStreamBeforeOpen ==
    \A a \in Acts :
        /\ act[a].pc \in {"idle", "opening", "failed"} <=> act[a].st = "none"
        /\ act[a].pc \in {"idle", "failed"} => act[a].conn = "none"
        /\ act[a].st = "waiting" => act[a].conn = "none"

TsInv ==
    StreamsSafe /\ RegisteredStreams /\ StartingStreams /\ KeptStreams /\ NoStreamBeforeOpen

\* What an activation may look like.
ActState == [pc : {"idle", "opening", "open", "failed", "closing", "closed"},
             st : {"none", "live", "waiting", "reopening", "closed"},
             conn : {"none", "sent", "starting", "ready", "up", "ending"}]

\* Closing a set of streams ends their connections and moves no activation.
LEMMA ClosedFields ==
    ASSUME NEW r \in [Acts -> ActState], NEW S
    PROVE  /\ ClosedAll(r, S) \in [Acts -> ActState]
           /\ \A b \in Acts :
                 /\ ClosedAll(r, S)[b].pc = r[b].pc
                 /\ ClosedAll(r, S)[b].st = IF b \in S THEN "closed" ELSE r[b].st
                 /\ ClosedAll(r, S)[b].conn = IF b \in S /\ r[b].st = "live" THEN "ending" ELSE r[b].conn
<1>1. \A b \in Acts : r[b] \in ActState
  OBVIOUS
<1>2. \A b \in Acts : /\ Closed(r[b]) \in ActState
                      /\ Closed(r[b]).pc = r[b].pc /\ Closed(r[b]).st = "closed"
                      /\ Closed(r[b]).conn = IF r[b].st = "live" THEN "ending" ELSE r[b].conn
  BY <1>1 DEF Closed, ActState
<1>3. QED
  BY <1>1, <1>2 DEF ClosedAll

\* The streams that are kept are the open ones of the runtime.
LEMMA KeptAreOpen ==
    ASSUME ActsAssumption, TsInv
    PROVE  /\ Kept \subseteq Acts
           /\ \A b \in Kept : managed[b[1]] = b /\ act[b].pc = "open"
           /\ \A b \in Acts : managed[b[1]] = b => b \in Kept
<1>1. managed \in [Triggers -> Acts \cup {None}] /\ \A b \in Acts : b[1] \in Triggers /\ b # None
  BY DEF TsInv, StreamsSafe, TsTypeOK, Triggers, ActsAssumption, None
<1>2. QED
  BY <1>1 DEF TsInv, KeptStreams, Kept

LEMMA TsInitHolds ==
    ASSUME ActsAssumption, TsInit
    PROVE  TsInv
<1>1. \A b \in Acts : act[b].pc = "idle" /\ act[b].st = "none" /\ act[b].conn = "none"
  BY DEF TsInit, Blank
<1>2. TsTypeOK
  <2>1. 0 \in 0..MaxFaults
    BY DEF ActsAssumption
  <2>2. act \in [Acts -> ActState]
    BY DEF TsInit, Blank, ActState
  <2>3. QED
    BY <2>1, <2>2, Zenon DEF TsInit, TsTypeOK, TsFlaws, ActState
<1>3. QED
  BY <1>1, <1>2 DEF TsInit, TsInv, StreamsSafe, NoLeakedStream, ServedForAStream, LiveIsServed, StaysOpen,
     RegisteredStreams, StartingStreams, KeptStreams, NoStreamBeforeOpen

\* The opener rejects: the first one takes every stream of the runtime with
\* it, a later one is tried again.  Its stream leaves the daemon's index if it
\* was there.
LEMMA RejectStep ==
    ASSUME ActsAssumption, TsInv, NEW a \in Acts, NEW r,
           \/ r = act /\ act[a].conn \in {"sent", "starting"}
           \/ r = [act EXCEPT ![a].pc = "opening"] /\ act[a].pc = "idle",
           Rejected(r, a),
           \/ UNCHANGED active /\ act[a].conn # "starting"
           \/ active' = [active EXCEPT ![a[1]] = None] /\ act[a].conn = "starting",
           UNCHANGED serving, late' \subseteq Triggers, faults' \in 0..MaxFaults,
           orphans \subseteq orphans', orphans' \subseteq Triggers,
           act[a].conn = "starting" => serving \cap {a[1]} \subseteq orphans'
    PROVE  TsInv'
<1>1. /\ TsTypeOK /\ act \in [Acts -> ActState] /\ act[a] \in ActState /\ a # None
      /\ a[1] \in Triggers /\ \A b \in Acts : b[1] \in Triggers
  BY DEF TsInv, StreamsSafe, TsTypeOK, ActState, Triggers, ActsAssumption, None
<1>2. act[a].pc \in {"idle", "failed"} => act[a].conn = "none"
  BY DEF TsInv, NoStreamBeforeOpen
<1>3. /\ r \in [Acts -> ActState]
      /\ \A b \in Acts : /\ r[b].st = act[b].st /\ r[b].conn = act[b].conn
                         /\ r[b].pc = IF b = a /\ act[a].pc = "idle" THEN "opening" ELSE act[b].pc
  BY <1>1, <1>2 DEF ActState
<1>4. /\ active' \in [Triggers -> Acts \cup {None}]
      /\ \A k \in Triggers : active'[k] = IF k = a[1] /\ act[a].conn = "starting" THEN None ELSE active[k]
  BY <1>1 DEF TsTypeOK
<1>5. act[a].conn = "starting" => active[a[1]] = a
  BY DEF TsInv, StartingStreams
<1>6. act[a].conn \in {"none", "sent", "starting"}
  BY <1>2
<1>7. \A k \in Triggers : active'[k] # None => active'[k] = active[k] /\ active[k] # a
  BY <1>4, <1>5, <1>6 DEF TsInv, RegisteredStreams
<1>8. CASE r[a].pc = "opening"
  <2>. DEFINE q == [r EXCEPT ![a].pc = "failed", ![a].conn = "none"]
  <2>1. act' = ClosedAll(q, Kept) /\ managed' = [k \in Triggers |-> None]
    BY <1>8 DEF Rejected
  <2>2. /\ q \in [Acts -> ActState]
        /\ \A b \in Acts : /\ q[b].pc = IF b = a THEN "failed" ELSE act[b].pc
                           /\ q[b].st = act[b].st
                           /\ q[b].conn = IF b = a THEN "none" ELSE act[b].conn
    <3>1. r[a] \in ActState
      BY <1>1, <1>3
    <3>2. q[a] = [r[a] EXCEPT !.pc = "failed", !.conn = "none"]
      BY <1>1, <1>3
    <3>3. \A b \in Acts \ {a} : q[b] = r[b]
      BY <1>3
    <3>4. q = [b \in Acts |-> q[b]]
      BY <1>3
    <3>5. \A x \in ActState : LET y == [x EXCEPT !.pc = "failed", !.conn = "none"] IN
             y \in ActState /\ y.pc = "failed" /\ y.conn = "none" /\ y.st = x.st
      BY DEF ActState
    <3>. HIDE DEF q
    <3>6. /\ q[a] \in ActState /\ q[a].pc = "failed" /\ q[a].conn = "none"
          /\ q[a].st = r[a].st
      BY <3>1, <3>2, <3>5
    <3>7. q \in [Acts -> ActState]
      BY <1>3, <3>3, <3>4, <3>6
    <3>8. QED
      BY <1>3, <3>3, <3>6, <3>7
  <2>. HIDE DEF q
  <2>3. act[a].pc \in {"idle", "opening"} /\ act[a].st = "none" /\ a \notin Kept
    BY <1>3, <1>8, KeptAreOpen DEF TsInv, NoStreamBeforeOpen
  <2>4. /\ act' \in [Acts -> ActState]
        /\ \A b \in Acts :
              /\ act'[b].pc = IF b = a THEN "failed" ELSE act[b].pc
              /\ act'[b].st = IF b \in Kept THEN "closed" ELSE act[b].st
              /\ act'[b].conn = CASE b = a -> "none"
                                  [] b \in Kept /\ act[b].st = "live" -> "ending"
                                  [] OTHER -> act[b].conn
    BY <2>1, <2>2, <2>3, ClosedFields
  <2>5. /\ tsFlaws \subseteq tsFlaws' /\ tsFlaws' \subseteq TsFlaws
        /\ "overwritten" \in tsFlaws' => "overwritten" \in tsFlaws
        /\ Kept # {} => "takenDown" \in tsFlaws'
    <3>1. \A b \in Kept : r[b].pc = "open"
      BY <1>3, <2>3, KeptAreOpen
    <3>2. QED
      BY <1>1, <1>8, <3>1 DEF Rejected, TsTypeOK, TsFlaws
  <2>6. TsTypeOK'
    BY <1>1, <1>4, <2>1, <2>4, <2>5 DEF TsTypeOK, ActState
  <2>7. NoLeakedStream'
    BY <2>3, <2>4, <2>5, KeptAreOpen DEF TsInv, StreamsSafe, NoLeakedStream
  <2>8. ServedForAStream'
    BY <1>1, <1>4 DEF TsInv, StreamsSafe, ServedForAStream, TsTypeOK
  <2>9. LiveIsServed'
    BY <1>1, <1>4, <1>5, <2>4 DEF TsInv, StreamsSafe, LiveIsServed
  <2>10. StaysOpen'
    BY <2>4, <2>5 DEF TsInv, StreamsSafe, StaysOpen
  <2>11. RegisteredStreams'
    BY <1>1, <1>7, <2>4 DEF TsInv, RegisteredStreams, TsTypeOK
  <2>12. StartingStreams'
    BY <1>1, <1>4, <1>5, <2>4, <2>5 DEF TsInv, StartingStreams
  <2>13. KeptStreams'
    BY <2>1 DEF KeptStreams
  <2>14. NoStreamBeforeOpen'
    BY <2>3, <2>4, KeptAreOpen DEF TsInv, NoStreamBeforeOpen
  <2>15. QED
    BY <2>6, <2>7, <2>8, <2>9, <2>10, <2>11, <2>12, <2>13, <2>14 DEF TsInv, StreamsSafe
<1>9. CASE r[a].pc # "opening"
  <2>1. /\ act' = [act EXCEPT ![a].conn = "none", ![a].st = IF @ = "closed" THEN @ ELSE "waiting"]
        /\ UNCHANGED <<managed, tsFlaws>>
    BY <1>1, <1>3, <1>9 DEF Rejected
  <2>2. /\ act[a].pc \notin {"idle", "opening", "failed"} /\ act[a].st # "none"
    BY <1>2, <1>3, <1>9 DEF TsInv, NoStreamBeforeOpen
  <2>3. /\ act' \in [Acts -> ActState]
        /\ \A b \in Acts :
              /\ act'[b].pc = act[b].pc
              /\ act'[b].st = IF b = a /\ act[a].st # "closed" THEN "waiting" ELSE act[b].st
              /\ act'[b].conn = IF b = a THEN "none" ELSE act[b].conn
    BY <1>1, <2>1 DEF ActState
  <2>4. TsTypeOK'
    BY <1>1, <1>4, <2>1, <2>3 DEF TsTypeOK, ActState
  <2>5. NoLeakedStream'
    BY <1>1, <2>1, <2>2, <2>3 DEF TsInv, StreamsSafe, NoLeakedStream, ActState
  <2>6. ServedForAStream'
    BY <1>1, <1>4 DEF TsInv, StreamsSafe, ServedForAStream, TsTypeOK
  <2>7. LiveIsServed'
    BY <1>1, <1>4, <1>5, <2>3 DEF TsInv, StreamsSafe, LiveIsServed
  <2>8. StaysOpen'
    BY <2>1, <2>3 DEF TsInv, StreamsSafe, StaysOpen
  <2>9. RegisteredStreams'
    BY <1>1, <1>7, <2>3 DEF TsInv, RegisteredStreams, TsTypeOK
  <2>10. StartingStreams'
    BY <1>1, <1>4, <1>5, <2>1, <2>3 DEF TsInv, StartingStreams
  <2>11. KeptStreams'
    BY <1>1, <2>1, <2>3 DEF TsInv, KeptStreams, TsTypeOK
  <2>12. NoStreamBeforeOpen'
    BY <2>2, <2>3 DEF TsInv, NoStreamBeforeOpen
  <2>13. QED
    BY <2>4, <2>5, <2>6, <2>7, <2>8, <2>9, <2>10, <2>11, <2>12 DEF TsInv, StreamsSafe
<1>10. QED
  BY <1>8, <1>9

\* An activation opens its stream; the daemon registers it, or refuses it; the
\* activation of its signalling fails; or an event is taken for the answer.
LEMMA OpeningSteps ==
    ASSUME ActsAssumption, TsInv, NEW a \in Acts,
           Open(a) \/ Register(a) \/ ActivationFails(a) \/ EventComesFirst(a)
    PROVE  TsInv'
<1>1. /\ TsTypeOK /\ act \in [Acts -> ActState] /\ act[a] \in ActState /\ a # None
      /\ a[1] \in Triggers /\ \A b \in Acts : b[1] \in Triggers
      /\ late \subseteq Triggers /\ orphans \subseteq Triggers /\ faults \in 0..MaxFaults
  BY DEF TsInv, StreamsSafe, TsTypeOK, ActState, Triggers, ActsAssumption, None
<1>2. CASE Open(a) /\ managed[a[1]] # None
  <2>1. /\ Rejected([act EXCEPT ![a].pc = "opening"], a) /\ act[a].pc = "idle"
        /\ UNCHANGED <<active, serving, late, orphans, faults>>
    BY <1>2 DEF Open
  <2>2. act[a].conn # "starting"
    BY <2>1 DEF TsInv, NoStreamBeforeOpen
  <2>3. QED
    BY <1>1, <2>1, <2>2, RejectStep
<1>3. CASE Open(a) /\ managed[a[1]] = None
  <2>1. /\ act' = [act EXCEPT ![a].pc = "opening", ![a].conn = "sent"]
        /\ act[a].pc = "idle" /\ UNCHANGED <<managed, active, serving, late, orphans, faults, tsFlaws>>
    BY <1>3 DEF Open
  <2>2. /\ act' \in [Acts -> ActState]
        /\ \A b \in Acts : /\ act'[b].pc = IF b = a THEN "opening" ELSE act[b].pc
                           /\ act'[b].st = act[b].st
                           /\ act'[b].conn = IF b = a THEN "sent" ELSE act[b].conn
    BY <1>1, <2>1 DEF ActState
  <2>3. act[a].st = "none" /\ act[a].conn = "none"
    BY <2>1 DEF TsInv, NoStreamBeforeOpen
  <2>4. TsTypeOK' /\ NoLeakedStream' /\ ServedForAStream' /\ LiveIsServed' /\ StaysOpen'
    BY <1>1, <2>1, <2>2, <2>3 DEF TsInv, StreamsSafe, TsTypeOK, ActState, NoLeakedStream,
       ServedForAStream, LiveIsServed, StaysOpen
  <2>5. RegisteredStreams' /\ KeptStreams'
    BY <1>1, <2>1, <2>2, <2>3 DEF TsInv, RegisteredStreams, KeptStreams, TsTypeOK
  <2>6. StartingStreams' /\ NoStreamBeforeOpen'
    BY <2>1, <2>2, <2>3 DEF TsInv, StartingStreams, NoStreamBeforeOpen
  <2>7. QED
    BY <2>4, <2>5, <2>6 DEF TsInv, StreamsSafe
<1>4. CASE Register(a) /\ active[a[1]] # None
  BY <1>1, <1>4, RejectStep DEF Register
<1>5. CASE Register(a) /\ active[a[1]] = None
  <2>1. /\ act' = [act EXCEPT ![a].conn = "starting"] /\ act[a].conn = "sent"
        /\ active' = [active EXCEPT ![a[1]] = a] /\ active[a[1]] = None
        /\ serving' \subseteq serving
        /\ \A k \in Triggers \ {a[1]} : k \in serving => k \in serving'
        /\ UNCHANGED <<managed, late, orphans, faults, tsFlaws>>
    BY <1>5 DEF Register
  <2>2. /\ act' \in [Acts -> ActState]
        /\ \A b \in Acts : /\ act'[b].pc = act[b].pc /\ act'[b].st = act[b].st
                           /\ act'[b].conn = IF b = a THEN "starting" ELSE act[b].conn
    BY <1>1, <2>1 DEF ActState
  <2>3. /\ active' \in [Triggers -> Acts \cup {None}]
        /\ \A k \in Triggers : active'[k] = IF k = a[1] THEN a ELSE active[k]
    BY <1>1, <2>1 DEF TsTypeOK
  <2>4. \A k \in serving' : active[k] # None \/ k \in orphans
    BY <2>1 DEF TsInv, StreamsSafe, ServedForAStream
  <2>5. \A b \in Acts : act[b].conn \in {"starting", "ready", "up"} => b[1] # a[1]
    BY <1>1, <2>1 DEF TsInv, StreamsSafe, LiveIsServed, StartingStreams, ActsAssumption, None
  <2>6. TsTypeOK' /\ NoLeakedStream' /\ StaysOpen'
    BY <1>1, <2>1, <2>2, <2>3 DEF TsInv, StreamsSafe, TsTypeOK, ActState, NoLeakedStream, StaysOpen
  <2>7. ServedForAStream' /\ LiveIsServed'
    BY <1>1, <2>1, <2>2, <2>3, <2>4, <2>5 DEF TsInv, StreamsSafe, ServedForAStream, LiveIsServed, TsTypeOK
  <2>8. RegisteredStreams' /\ KeptStreams'
    BY <1>1, <2>1, <2>2, <2>3 DEF TsInv, RegisteredStreams, KeptStreams, TsTypeOK
  <2>9. StartingStreams'
    BY <1>1, <2>1, <2>2, <2>3, <2>5 DEF TsInv, StartingStreams
  <2>10. NoStreamBeforeOpen'
    BY <2>1, <2>2 DEF TsInv, NoStreamBeforeOpen
  <2>11. QED
    BY <2>6, <2>7, <2>8, <2>9, <2>10 DEF TsInv, StreamsSafe
<1>6. CASE ActivationFails(a)
  <2>1. faults' \in 0..MaxFaults
    BY <1>1, <1>6 DEF ActivationFails, ActsAssumption
  <2>2. orphans \subseteq orphans' /\ orphans' \subseteq Triggers /\ serving \cap {a[1]} \subseteq orphans'
    BY <1>1, <1>6 DEF ActivationFails
  <2>3. QED
    BY <1>1, <1>6, <2>1, <2>2, RejectStep DEF ActivationFails
<1>7. CASE EventComesFirst(a)
  <2>1. late' \subseteq Triggers
    BY <1>1, <1>7 DEF EventComesFirst
  <2>2. orphans \subseteq orphans' /\ orphans' \subseteq Triggers /\ serving \cap {a[1]} \subseteq orphans'
    BY <1>1, <1>7 DEF EventComesFirst
  <2>3. QED
    BY <1>1, <1>7, <2>1, <2>2, RejectStep DEF EventComesFirst
<1>8. QED
  BY <1>2, <1>3, <1>4, <1>5, <1>6, <1>7

\* A handshake arrives, a broken stream opens again, and an activation is
\* over or runs once more: the daemon's index stays as it is.
LEMMA RuntimeSteps ==
    ASSUME ActsAssumption, TsInv, NEW a \in Acts,
           Opened(a) \/ Reopen(a) \/ Attach(a) \/ CloseEnds(a) \/ Again(a)
    PROVE  TsInv'
<1>1. /\ TsTypeOK /\ act \in [Acts -> ActState] /\ act[a] \in ActState /\ a # None
      /\ a[1] \in Triggers /\ \A b \in Acts : b[1] \in Triggers
      /\ UNCHANGED <<active, serving, late, orphans, faults>>
  BY DEF TsInv, StreamsSafe, TsTypeOK, ActState, Triggers, ActsAssumption, None,
     Opened, Reopen, Attach, CloseEnds, Again
<1>2. CASE Opened(a)
  <2>1. /\ act[a].pc = "opening" /\ act[a].conn = "ready" /\ act[a].st = "none"
        /\ act' = [act EXCEPT ![a] = [act[a] EXCEPT !.pc = "open", !.st = "live", !.conn = "up"]]
        /\ managed' = [managed EXCEPT ![a[1]] = a]
        /\ tsFlaws' = IF managed[a[1]] # None THEN tsFlaws \cup {"overwritten"} ELSE tsFlaws
    BY <1>1, <1>2 DEF Opened, TsInv, NoStreamBeforeOpen
  <2>2. /\ act' \in [Acts -> ActState]
        /\ \A b \in Acts : /\ act'[b].pc = IF b = a THEN "open" ELSE act[b].pc
                           /\ act'[b].st = IF b = a THEN "live" ELSE act[b].st
                           /\ act'[b].conn = IF b = a THEN "up" ELSE act[b].conn
    BY <1>1, <2>1 DEF ActState
  <2>3. /\ managed' \in [Triggers -> Acts \cup {None}]
        /\ \A k \in Triggers : managed'[k] = IF k = a[1] THEN a ELSE managed[k]
    BY <1>1, <2>1 DEF TsTypeOK
  <2>4. /\ tsFlaws' \subseteq TsFlaws /\ tsFlaws \subseteq tsFlaws'
        /\ "overwritten" \notin tsFlaws' => managed[a[1]] = None
        /\ "takenDown" \in tsFlaws' => "takenDown" \in tsFlaws
    BY <1>1, <2>1 DEF TsTypeOK, TsFlaws
  <2>5. NoLeakedStream'
    <3>1. SUFFICES ASSUME "overwritten" \notin tsFlaws', NEW b \in Acts,
                          act'[b].st \in {"live", "waiting", "reopening"}
                   PROVE  managed'[b[1]] = b
      BY DEF NoLeakedStream
    <3>2. CASE b = a
      BY <1>1, <2>3, <3>2
    <3>3. CASE b # a
      <4>1. managed[b[1]] = b /\ b # None
        BY <2>2, <2>4, <3>1, <3>3 DEF TsInv, StreamsSafe, NoLeakedStream, ActsAssumption, None
      <4>2. b[1] # a[1]
        BY <2>4, <3>1, <4>1
      <4>3. QED
        BY <1>1, <2>3, <4>1, <4>2
    <3>4. QED
      BY <3>2, <3>3
  <2>6. TsTypeOK' /\ ServedForAStream' /\ LiveIsServed' /\ StaysOpen'
    BY <1>1, <2>1, <2>2, <2>3, <2>4 DEF TsInv, StreamsSafe, TsTypeOK, ActState, ServedForAStream,
       LiveIsServed, StaysOpen
  <2>7. RegisteredStreams' /\ KeptStreams'
    BY <1>1, <2>1, <2>2, <2>3 DEF TsInv, RegisteredStreams, KeptStreams, TsTypeOK
  <2>8. StartingStreams' /\ NoStreamBeforeOpen'
    BY <1>1, <2>1, <2>2, <2>4 DEF TsInv, StartingStreams, NoStreamBeforeOpen
  <2>9. QED
    BY <2>5, <2>6, <2>7, <2>8 DEF TsInv, StreamsSafe
<1>3. ASSUME UNCHANGED <<managed, tsFlaws>>, act' \in [Acts -> ActState],
             \A b \in Acts \ {a} : act'[b] = act[b],
             act[a].pc = "open" => act'[a].pc = "open" /\ (act'[a].st = "closed" => act[a].st = "closed"),
             act'[a].pc = "open" => act[a].pc = "open",
             act'[a].st \in {"live", "waiting", "reopening"} => act[a].st \in {"live", "waiting", "reopening"},
             act'[a].conn \notin {"starting", "ready"},
             act'[a].conn = "up" => act[a].conn = "ready",
             act[a].conn \in {"starting", "ready", "up", "ending"}
                => act'[a].conn \in {"starting", "ready", "up", "ending"},
             act'[a].pc \in {"idle", "opening", "failed"} <=> act'[a].st = "none",
             act'[a].pc \in {"idle", "failed"} \/ act'[a].st = "waiting" => act'[a].conn = "none"
      PROVE  TsInv'
  <2>1. TsTypeOK' /\ NoLeakedStream' /\ ServedForAStream' /\ LiveIsServed' /\ StaysOpen'
    BY <1>1, <1>3 DEF TsInv, StreamsSafe, TsTypeOK, ActState, NoLeakedStream, ServedForAStream,
       LiveIsServed, StaysOpen
  <2>2. RegisteredStreams' /\ KeptStreams'
    <3>1. \A b \in Acts : /\ act[b].pc = "open" => act'[b].pc = "open"
                          /\ act[b].conn \in {"starting", "ready", "up", "ending"}
                                => act'[b].conn \in {"starting", "ready", "up", "ending"}
      BY <1>3
    <3>2. QED
      BY <1>1, <1>3, <3>1 DEF TsInv, RegisteredStreams, KeptStreams, TsTypeOK
  <2>3. StartingStreams' /\ NoStreamBeforeOpen'
    BY <1>1, <1>3 DEF TsInv, StartingStreams, NoStreamBeforeOpen
  <2>4. QED
    BY <2>1, <2>2, <2>3 DEF TsInv, StreamsSafe
<1>4. CASE Reopen(a)
  <2>1. /\ act' = [act EXCEPT ![a].st = "reopening", ![a].conn = "sent"] /\ act[a].st = "waiting"
        /\ act[a].conn = "none" /\ act[a].pc \notin {"idle", "opening", "failed"}
        /\ UNCHANGED <<managed, tsFlaws>>
    BY <1>4 DEF Reopen, TsInv, NoStreamBeforeOpen
  <2>2. /\ act' \in [Acts -> ActState] /\ \A b \in Acts \ {a} : act'[b] = act[b]
        /\ act'[a].st = "reopening" /\ act'[a].conn = "sent" /\ act'[a].pc = act[a].pc
    BY <1>1, <2>1 DEF ActState
  <2>3. QED
    BY <1>3, <2>1, <2>2
<1>5. CASE Attach(a)
  <2>. DEFINE s == IF act[a].st = "closed" THEN "closed" ELSE "live"
  <2>. DEFINE c == IF act[a].st = "closed" THEN "ending" ELSE "up"
  <2>1. /\ act' = [act EXCEPT ![a].st = s, ![a].conn = c] /\ act[a].st \in {"reopening", "closed"}
        /\ act[a].conn = "ready" /\ act[a].pc \notin {"idle", "opening", "failed"}
        /\ UNCHANGED <<managed, tsFlaws>>
    BY <1>5 DEF Attach, TsInv, NoStreamBeforeOpen
  <2>2. /\ s \in {"closed", "live"} /\ c \in {"ending", "up"}
        /\ s = "closed" => act[a].st = "closed"
        /\ s = "live" => act[a].st = "reopening"
    BY <2>1
  <2>. HIDE DEF s, c
  <2>3. /\ act' \in [Acts -> ActState] /\ \A b \in Acts \ {a} : act'[b] = act[b]
        /\ act'[a].st = s /\ act'[a].conn = c /\ act'[a].pc = act[a].pc
    BY <1>1, <2>1, <2>2 DEF ActState
  <2>4. QED
    BY <1>3, <2>1, <2>2, <2>3
<1>6. CASE CloseEnds(a)
  <2>1. /\ act' = [act EXCEPT ![a].pc = "closed"] /\ act[a].pc = "closing"
        /\ act[a].st # "none" /\ UNCHANGED <<managed, tsFlaws>>
    BY <1>6 DEF CloseEnds, TsInv, NoStreamBeforeOpen
  <2>2. /\ act' \in [Acts -> ActState]
        /\ \A b \in Acts : /\ act'[b].pc = IF b = a THEN "closed" ELSE act[b].pc
                           /\ act'[b].st = act[b].st /\ act'[b].conn = act[b].conn
    BY <1>1, <2>1 DEF ActState
  <2>3. TsTypeOK' /\ NoLeakedStream' /\ ServedForAStream' /\ LiveIsServed' /\ StaysOpen'
    BY <1>1, <2>1, <2>2 DEF TsInv, StreamsSafe, TsTypeOK, ActState, NoLeakedStream, ServedForAStream,
       LiveIsServed, StaysOpen
  <2>4. RegisteredStreams' /\ KeptStreams'
    BY <1>1, <2>1, <2>2 DEF TsInv, RegisteredStreams, KeptStreams, TsTypeOK
  <2>5. StartingStreams' /\ NoStreamBeforeOpen'
    BY <1>1, <2>1, <2>2 DEF TsInv, StartingStreams, NoStreamBeforeOpen
  <2>6. QED
    BY <2>3, <2>4, <2>5 DEF TsInv, StreamsSafe
<1>7. CASE Again(a)
  <2>1. /\ act' = [act EXCEPT ![a] = Blank] /\ act[a].pc \in {"closed", "failed"}
        /\ act[a].conn = "none" /\ UNCHANGED <<managed, tsFlaws>>
    BY <1>7 DEF Again
  <2>2. /\ act' \in [Acts -> ActState] /\ \A b \in Acts \ {a} : act'[b] = act[b]
        /\ act'[a].pc = "idle" /\ act'[a].st = "none" /\ act'[a].conn = "none"
    BY <1>1, <2>1 DEF ActState, Blank
  <2>3. QED
    BY <1>3, <2>1, <2>2
<1>8. QED
  BY <1>2, <1>4, <1>5, <1>6, <1>7

\* The node's closeFunction closes the stream kept under its trigger, which is
\* its own unless an open overwrote it.
LEMMA CloseStep ==
    ASSUME ActsAssumption, TsInv, NEW a \in Acts, Close(a)
    PROVE  TsInv'
<1>. DEFINE b0 == managed[a[1]]
<1>. DEFINE q == [act EXCEPT ![a].pc = "closing"]
<1>. DEFINE S == {b0} \ {None}
<1>1. /\ TsTypeOK /\ act \in [Acts -> ActState] /\ act[a] \in ActState /\ a # None
      /\ a[1] \in Triggers /\ \A b \in Acts : b[1] \in Triggers
      /\ UNCHANGED <<active, serving, late, orphans, faults, tsFlaws>>
  BY DEF TsInv, StreamsSafe, TsTypeOK, ActState, Triggers, ActsAssumption, None, Close
<1>2. act[a].pc = "open" /\ act' = ClosedAll(q, S) /\ managed' = [managed EXCEPT ![a[1]] = None]
  BY DEF Close
<1>3. /\ q \in [Acts -> ActState]
      /\ \A b \in Acts : /\ q[b].pc = IF b = a THEN "closing" ELSE act[b].pc
                         /\ q[b].st = act[b].st /\ q[b].conn = act[b].conn
  BY <1>1 DEF ActState
<1>. HIDE DEF q
<1>4. /\ act' \in [Acts -> ActState]
      /\ \A b \in Acts :
            /\ act'[b].pc = IF b = a THEN "closing" ELSE act[b].pc
            /\ act'[b].st = IF b \in S THEN "closed" ELSE act[b].st
            /\ act'[b].conn = IF b \in S /\ act[b].st = "live" THEN "ending" ELSE act[b].conn
  BY <1>2, <1>3, ClosedFields
<1>5. /\ managed' \in [Triggers -> Acts \cup {None}]
      /\ \A k \in Triggers : managed'[k] = IF k = a[1] THEN None ELSE managed[k]
  BY <1>1, <1>2 DEF TsTypeOK
<1>6. \A b \in Acts : b \in S <=> b = b0
  BY DEF ActsAssumption, None
<1>7. \A b \in S : b \in Acts /\ b[1] = a[1] /\ act[b].pc = "open" /\ act[b].st # "none"
  <2>1. b0 \in Acts \cup {None}
    BY <1>1 DEF TsTypeOK
  <2>2. QED
    BY <1>1, <2>1 DEF TsInv, KeptStreams, NoStreamBeforeOpen
<1>8. "overwritten" \notin tsFlaws =>
         \A b \in Acts : act[b].st \in {"live", "waiting", "reopening"} /\ b[1] = a[1] => b = b0
  BY DEF TsInv, StreamsSafe, NoLeakedStream
<1>9. TsTypeOK'
  BY <1>1, <1>4, <1>5 DEF TsTypeOK, ActState
<1>10. NoLeakedStream'
  BY <1>1, <1>4, <1>5, <1>6, <1>8 DEF TsInv, StreamsSafe, NoLeakedStream
<1>11. ServedForAStream' /\ LiveIsServed'
  BY <1>1, <1>4 DEF TsInv, StreamsSafe, ServedForAStream, LiveIsServed
<1>12. StaysOpen'
  <2>1. SUFFICES ASSUME tsFlaws \cap {"takenDown", "overwritten"} = {}, NEW b \in Acts,
                        act'[b].pc = "open", act'[b].st = "closed"
                 PROVE  FALSE
    BY <1>1 DEF StaysOpen
  <2>2. b # a /\ act[b].pc = "open"
    BY <1>4, <2>1
  <2>3. b \in S
    BY <1>4, <2>1, <2>2 DEF TsInv, StreamsSafe, StaysOpen
  <2>4. act[a].st \in {"live", "waiting", "reopening"}
    BY <1>1, <1>2, <2>1 DEF TsInv, StreamsSafe, StaysOpen, NoStreamBeforeOpen, ActState
  <2>5. QED
    BY <1>6, <1>8, <2>1, <2>2, <2>3, <2>4
<1>13. RegisteredStreams'
  BY <1>1, <1>4 DEF TsInv, RegisteredStreams, TsTypeOK
<1>14. StartingStreams'
  BY <1>1, <1>4 DEF TsInv, StartingStreams
<1>15. KeptStreams'
  <2>1. SUFFICES ASSUME NEW k \in Triggers, managed'[k] # None
                 PROVE  managed'[k][1] = k /\ act'[managed'[k]].pc = "open"
    BY DEF KeptStreams
  <2>2. /\ managed'[k] = managed[k] /\ managed[k] \in Acts /\ k # a[1]
        /\ managed[k][1] = k /\ act[managed[k]].pc = "open"
    BY <1>1, <1>5, <2>1 DEF TsInv, KeptStreams, TsTypeOK
  <2>3. managed[k] # a
    BY <2>2
  <2>4. QED
    BY <1>4, <2>2, <2>3
<1>16. NoStreamBeforeOpen'
  <2>1. \A b \in Acts : /\ act[b].pc \in {"idle", "opening", "failed"} <=> act[b].st = "none"
                        /\ act[b].pc \in {"idle", "failed"} => act[b].conn = "none"
                        /\ act[b].st = "waiting" => act[b].conn = "none"
    BY DEF TsInv, NoStreamBeforeOpen
  <2>. HIDE DEF S
  <2>2. QED
    BY <1>2, <1>4, <1>7, <2>1 DEF NoStreamBeforeOpen
<1>17. QED
  BY <1>9, <1>10, <1>11, <1>12, <1>13, <1>14, <1>15, <1>16 DEF TsInv, StreamsSafe

\* The daemon finishes an activation, or hears the end of a stream.
LEMMA DaemonHears ==
    ASSUME ActsAssumption, TsInv,
           \/ \E a \in Acts : HostMade(a) \/ Activated(a) \/ StreamCloses(a)
           \/ \E k \in Triggers : ActivatedLate(k)
    PROVE  TsInv'
<1>1. /\ TsTypeOK /\ act \in [Acts -> ActState] /\ \A b \in Acts : b[1] \in Triggers /\ b # None
  BY DEF TsInv, StreamsSafe, TsTypeOK, ActState, Triggers, ActsAssumption, None
<1>2. ASSUME NEW a \in Acts, Activated(a)
      PROVE  TsInv'
  <2>1. /\ act[a].conn = "starting" /\ act' = [act EXCEPT ![a].conn = "ready"]
        /\ serving' = serving \cup {a[1]} /\ orphans' = orphans \ {a[1]} /\ active[a[1]] = a
        /\ UNCHANGED <<managed, active, late, faults, tsFlaws>>
    BY <1>2 DEF Activated, TsInv, StartingStreams
  <2>2. /\ act' \in [Acts -> ActState]
        /\ \A b \in Acts : /\ act'[b].pc = act[b].pc /\ act'[b].st = act[b].st
                           /\ act'[b].conn = IF b = a THEN "ready" ELSE act[b].conn
    BY <1>1, <2>1 DEF ActState
  <2>3. TsTypeOK' /\ NoLeakedStream' /\ ServedForAStream' /\ LiveIsServed' /\ StaysOpen'
    BY <1>1, <2>1, <2>2 DEF TsInv, StreamsSafe, TsTypeOK, ActState, NoLeakedStream, ServedForAStream,
       LiveIsServed, StaysOpen
  <2>4. RegisteredStreams' /\ KeptStreams'
    BY <1>1, <2>1, <2>2 DEF TsInv, RegisteredStreams, KeptStreams, TsTypeOK
  <2>5. StartingStreams' /\ NoStreamBeforeOpen'
    BY <1>1, <2>1, <2>2 DEF TsInv, StartingStreams, NoStreamBeforeOpen
  <2>6. QED
    BY <2>3, <2>4, <2>5 DEF TsInv, StreamsSafe
<1>3. ASSUME NEW a \in Acts, StreamCloses(a)
      PROVE  TsInv'
  <2>. DEFINE gone == IF active[a[1]] \in {a, None} THEN {a[1]} ELSE {}
  <2>1. /\ act[a].conn = "ending" /\ act' = [act EXCEPT ![a].conn = "none"]
        /\ active' = IF active[a[1]] = a THEN [active EXCEPT ![a[1]] = None] ELSE active
        /\ serving' = serving \ gone /\ orphans' = orphans \ gone
        /\ UNCHANGED <<managed, late, faults, tsFlaws>>
    BY <1>3 DEF StreamCloses
  <2>2. /\ act' \in [Acts -> ActState]
        /\ \A b \in Acts : /\ act'[b].pc = act[b].pc /\ act'[b].st = act[b].st
                           /\ act'[b].conn = IF b = a THEN "none" ELSE act[b].conn
    BY <1>1, <2>1 DEF ActState
  <2>3. /\ active' \in [Triggers -> Acts \cup {None}]
        /\ \A k \in Triggers : active'[k] = IF k = a[1] /\ active[k] = a THEN None ELSE active[k]
    BY <1>1, <2>1 DEF TsTypeOK
  <2>4. /\ serving' \subseteq serving /\ orphans' \subseteq orphans
        /\ \A k \in serving' : k \in Triggers /\ (k = a[1] => active[k] \notin {a, None})
        /\ \A k \in serving' : k \in orphans => k \in orphans'
        /\ \A b \in Acts \ {a} : b[1] \in serving /\ active[b[1]] = b => b[1] \in serving'
    BY <1>1, <2>1 DEF TsTypeOK
  <2>. HIDE DEF gone
  <2>5. TsTypeOK' /\ NoLeakedStream' /\ StaysOpen'
    BY <1>1, <2>1, <2>2, <2>3, <2>4 DEF TsInv, StreamsSafe, TsTypeOK, ActState, NoLeakedStream, StaysOpen
  <2>6. ServedForAStream' /\ LiveIsServed'
    BY <1>1, <2>1, <2>2, <2>3, <2>4 DEF TsInv, StreamsSafe, ServedForAStream, LiveIsServed
  <2>7. RegisteredStreams' /\ KeptStreams'
    BY <1>1, <2>1, <2>2, <2>3 DEF TsInv, RegisteredStreams, KeptStreams, TsTypeOK
  <2>8. StartingStreams' /\ NoStreamBeforeOpen'
    BY <1>1, <2>1, <2>2, <2>3 DEF TsInv, StartingStreams, NoStreamBeforeOpen
  <2>9. QED
    BY <2>5, <2>6, <2>7, <2>8 DEF TsInv, StreamsSafe
<1>4. ASSUME NEW k \in Triggers, serving' \in {serving, serving \cup {k}},
             k \in serving' => active[k] # None \/ k \in orphans', orphans \subseteq orphans',
             orphans' \subseteq Triggers, late' \subseteq late,
             UNCHANGED <<act, managed, active, faults, tsFlaws>>
      PROVE  TsInv'
  <2>1. TsTypeOK' /\ NoLeakedStream' /\ LiveIsServed' /\ StaysOpen'
    BY <1>1, <1>4 DEF TsInv, StreamsSafe, TsTypeOK, NoLeakedStream, LiveIsServed, StaysOpen
  <2>2. ServedForAStream'
    BY <1>4 DEF TsInv, StreamsSafe, ServedForAStream
  <2>3. (RegisteredStreams /\ StartingStreams /\ KeptStreams /\ NoStreamBeforeOpen)'
    BY <1>4 DEF TsInv, RegisteredStreams, StartingStreams, KeptStreams, NoStreamBeforeOpen
  <2>4. QED
    BY <2>1, <2>2, <2>3 DEF TsInv, StreamsSafe
<1>5. ASSUME NEW a \in Acts, HostMade(a)
      PROVE  TsInv'
  <2>1. a[1] \in Triggers /\ orphans \subseteq Triggers /\ active[a[1]] # None
    BY <1>1, <1>5 DEF HostMade, TsTypeOK, TsInv, StartingStreams
  <2>2. QED
    BY <1>4, <1>5, <2>1 DEF HostMade
<1>6. ASSUME NEW k \in Triggers, ActivatedLate(k)
      PROVE  TsInv'
  <2>1. orphans' \subseteq Triggers /\ late' \subseteq late /\ orphans \subseteq orphans'
    BY <1>1, <1>6 DEF ActivatedLate, TsTypeOK
  <2>2. k \in serving' => active[k] # None \/ k \in orphans'
    BY <1>6 DEF ActivatedLate, TsInv, StreamsSafe, ServedForAStream
  <2>3. QED
    BY <1>4, <1>6, <2>1, <2>2 DEF ActivatedLate
<1>7. QED
  BY <1>2, <1>3, <1>5, <1>6

\* The daemon dies, or n8n does.
LEMMA Faults ==
    ASSUME ActsAssumption, TsInv, DaemonGone \/ RuntimeGone
    PROVE  TsInv'
<1>1. /\ TsTypeOK /\ act \in [Acts -> ActState] /\ \A b \in Acts : b[1] \in Triggers /\ b # None
  BY DEF TsInv, StreamsSafe, TsTypeOK, ActState, Triggers, ActsAssumption, None
<1>2. faults' \in 0..MaxFaults
  <2>1. faults \in 0..MaxFaults /\ faults < MaxFaults /\ faults' = faults + 1
    BY <1>1 DEF TsTypeOK, DaemonGone, RuntimeGone
  <2>2. QED
    BY <2>1 DEF ActsAssumption
<1>3. CASE DaemonGone
  <2>. DEFINE openers == {a \in Acts : act[a].pc = "opening"}
  <2>. DEFINE broken == [a \in Acts |-> [act[a] EXCEPT !.conn = "none",
                            !.pc = IF a \in openers THEN "failed" ELSE @,
                            !.st = IF @ \in {"live", "reopening"} THEN "waiting" ELSE @]]
  <2>1. /\ active' = [k \in Triggers |-> None] /\ serving' = {} /\ late' = {} /\ orphans' = {}
        /\ \/ openers = {} /\ act' = broken /\ UNCHANGED <<managed, tsFlaws>>
           \/ /\ act' = ClosedAll(broken, Kept) /\ managed' = [k \in Triggers |-> None]
              /\ tsFlaws' = IF \E b \in Kept : act[b].pc = "open" THEN tsFlaws \cup {"takenDown"} ELSE tsFlaws
    BY <1>3 DEF DaemonGone
  <2>2. /\ broken \in [Acts -> ActState]
        /\ \A b \in Acts :
              /\ broken[b].pc = IF act[b].pc = "opening" THEN "failed" ELSE act[b].pc
              /\ broken[b].st = IF act[b].st \in {"live", "reopening"} THEN "waiting" ELSE act[b].st
              /\ broken[b].conn = "none"
    <3>1. \A b \in Acts : act[b] \in ActState
      BY <1>1
    <3>2. QED
      BY <3>1 DEF ActState
  <2>. HIDE DEF openers, broken
  <2>3. (ServedForAStream /\ LiveIsServed /\ RegisteredStreams /\ StartingStreams)'
        /\ active' \in [Triggers -> Acts \cup {None}]
    <3>1. \A b \in Acts : act'[b].conn = "none"
      <4>1. \A b \in Acts : broken[b].conn = "none" /\ broken[b].st # "live"
        BY <2>2
      <4>2. QED
        BY <2>1, <2>2, <4>1, ClosedFields
    <3>2. QED
      BY <2>1, <3>1 DEF ServedForAStream, LiveIsServed, RegisteredStreams, StartingStreams
  <2>4. CASE act' = broken /\ UNCHANGED <<managed, tsFlaws>> /\ openers = {}
    <3>1. TsTypeOK' /\ NoLeakedStream' /\ StaysOpen'
      BY <1>1, <1>2, <2>1, <2>2, <2>3, <2>4 DEF TsInv, StreamsSafe, TsTypeOK, ActState, NoLeakedStream, StaysOpen
    <3>2. KeptStreams' /\ NoStreamBeforeOpen'
      BY <1>1, <2>2, <2>4 DEF TsInv, KeptStreams, NoStreamBeforeOpen, TsTypeOK
    <3>3. QED
      BY <2>3, <3>1, <3>2 DEF TsInv, StreamsSafe
  <2>5. CASE /\ act' = ClosedAll(broken, Kept) /\ managed' = [k \in Triggers |-> None]
             /\ tsFlaws' = IF \E b \in Kept : act[b].pc = "open" THEN tsFlaws \cup {"takenDown"} ELSE tsFlaws
    <3>1. /\ act' \in [Acts -> ActState]
          /\ \A b \in Acts :
                /\ act'[b].pc = IF act[b].pc = "opening" THEN "failed" ELSE act[b].pc
                /\ act'[b].st = CASE b \in Kept -> "closed"
                                  [] b \notin Kept /\ act[b].st \in {"live", "reopening"} -> "waiting"
                                  [] OTHER -> act[b].st
                /\ act'[b].conn = "none"
      BY <2>2, <2>5, ClosedFields
    <3>2. /\ tsFlaws' \subseteq TsFlaws /\ tsFlaws \subseteq tsFlaws'
          /\ Kept # {} => "takenDown" \in tsFlaws'
          /\ "overwritten" \in tsFlaws' => "overwritten" \in tsFlaws
      BY <1>1, <2>5, KeptAreOpen DEF TsTypeOK, TsFlaws
    <3>3. TsTypeOK' /\ KeptStreams'
      BY <1>1, <1>2, <2>1, <2>3, <2>5, <3>1, <3>2 DEF TsTypeOK, ActState, KeptStreams
    <3>4. NoLeakedStream'
      BY <3>1, <3>2, KeptAreOpen DEF TsInv, StreamsSafe, NoLeakedStream
    <3>5. StaysOpen'
      BY <3>1, <3>2 DEF TsInv, StreamsSafe, StaysOpen
    <3>6. NoStreamBeforeOpen'
      BY <3>1, KeptAreOpen DEF TsInv, NoStreamBeforeOpen
    <3>7. QED
      BY <2>3, <3>3, <3>4, <3>5, <3>6 DEF TsInv, StreamsSafe
  <2>6. QED
    BY <2>1, <2>4, <2>5
<1>4. CASE RuntimeGone
  <2>. DEFINE heardOf == {a[1] : a \in {b \in Acts : act[b].conn \in {"ready", "up", "ending"}}}
  <2>. DEFINE begun == {a[1] : a \in {b \in Acts : act[b].conn = "starting"}}
  <2>1. /\ act' = [a \in Acts |-> Blank] /\ managed' = [k \in Triggers |-> None]
        /\ active' = [k \in Triggers |-> None] /\ UNCHANGED tsFlaws
        /\ serving' = serving \ heardOf /\ late' = late \cup begun
        /\ orphans' = (orphans \cup (serving \cap begun)) \ heardOf
    BY <1>4 DEF RuntimeGone
  <2>2. act' \in [Acts -> ActState] /\ \A b \in Acts : /\ act'[b].pc = "idle" /\ act'[b].st = "none"
                                                       /\ act'[b].conn = "none"
    BY <2>1 DEF Blank, ActState
  <2>3. begun \subseteq Triggers
    BY <1>1
  <2>4. \A k \in serving : k \in orphans \cup begun \cup heardOf
    <3>1. SUFFICES ASSUME NEW k \in serving, active[k] # None
                   PROVE  k \in begun \cup heardOf
      BY DEF TsInv, StreamsSafe, ServedForAStream
    <3>2. PICK b \in Acts : b[1] = k /\ act[b].conn \in {"starting", "ready", "up", "ending"}
      BY <1>1, <3>1 DEF TsInv, RegisteredStreams, TsTypeOK
    <3>3. QED
      BY <3>2
  <2>. HIDE DEF heardOf, begun
  <2>5. late' \subseteq Triggers /\ serving' \subseteq serving /\ orphans' \subseteq Triggers
    BY <1>1, <2>1, <2>3 DEF TsTypeOK
  <2>6. ServedForAStream'
    BY <2>1, <2>4 DEF ServedForAStream
  <2>7. TsTypeOK' /\ NoLeakedStream' /\ LiveIsServed' /\ StaysOpen'
    BY <1>1, <1>2, <2>1, <2>2, <2>5 DEF TsTypeOK, ActState, NoLeakedStream, LiveIsServed, StaysOpen
  <2>8. (RegisteredStreams /\ StartingStreams /\ KeptStreams /\ NoStreamBeforeOpen)'
    BY <2>1, <2>2 DEF RegisteredStreams, StartingStreams, KeptStreams, NoStreamBeforeOpen
  <2>9. QED
    BY <2>6, <2>7, <2>8 DEF TsInv, StreamsSafe
<1>5. QED
  BY <1>3, <1>4

\* Of a trigger's streams the runtime keeps the one that is live or to be
\* opened again, the daemon publishes to it and serves the trigger as long as
\* it has one, but for the host a failed or abandoned activation left behind
\* until the trigger's next stream, and only a failed activation takes a live
\* stream down.
THEOREM StreamsAreSafe == TsSpec => []StreamsSafe
<1>1. TsInit => TsInv
  BY ActsAssumption, TsInitHolds
<1>2. TsInv /\ [TsNext]_tsVars => TsInv'
  <2>1. SUFFICES ASSUME TsInv, [TsNext]_tsVars PROVE TsInv'
    OBVIOUS
  <2>2. CASE UNCHANGED tsVars
    BY <2>1, <2>2 DEF tsVars, TsInv, StreamsSafe, TsTypeOK, NoLeakedStream, ServedForAStream,
       LiveIsServed, StaysOpen, RegisteredStreams, StartingStreams, KeptStreams, NoStreamBeforeOpen
  <2>3. QED
    BY <2>1, <2>2, ActsAssumption, OpeningSteps, RuntimeSteps, CloseStep, DaemonHears, Faults DEF TsNext
<1>3. TsInv => StreamsSafe
  BY DEF TsInv
<1>4. QED
  BY <1>1, <1>2, <1>3, PTL DEF TsSpec
=============================================================================
