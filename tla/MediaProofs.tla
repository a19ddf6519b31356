----------------------------- MODULE MediaProofs -----------------------------
(***************************************************************************)
(* What the media of a leg keep in every state: the worker thread that is  *)
(* commanded to record and to play, for any number of chunks, the          *)
(* recordings of the leg as the service sees them, for any number of them  *)
(* and of workers, and the digits of its caller, for any durations.        *)
(***************************************************************************)
EXTENDS MediaWorker, Recording, Dtmf, TLAPS

-----------------------------------------------------------------------------
(* The commands to a media worker.                                           *)

Ops == {"start", "stop", "finalize", "play", "unplay", "remove", "shutdown"}

Sessions == [on : BOOLEAN, pending : Nat, drain : {"idle", "due", "writing"},
             closing : BOOLEAN, encoded : Nat, aborted : BOOLEAN]

Pumps == [state : {"none", "waiting", "decoding", "done"}, cancelled : BOOLEAN,
          told : {"nothing", "failed", "finished"}]

\* Every variable has its type.
MwTypes ==
    /\ thread \in {"up", "stopping", "dead"} /\ running \in {"none", "finalize"}
    /\ inbox \in Seq(Tasks \X Ops)
    /\ request \in [Tasks -> {"none", "pending", "ok", "failed"}]
    /\ step \in [Tasks -> 0 .. 3]
    /\ workerLeg \in {"absent", "there", "removed"} /\ gives \in BOOLEAN
    /\ session \in Sessions /\ given \in 0 .. MaxChunks
    /\ file \in {"none", "written", "failed", "hollow"}
    /\ pump \in Pumps

\* A task in the inbox awaits the command it posted last.
InboxIsAwaited ==
    \A i \in 1 .. Len(inbox) :
        LET t == inbox[i][1] IN
        /\ t \in Tasks /\ step[t] \in 1 .. Len(Scripts[t])
        /\ inbox[i][2] = Scripts[t][step[t]] /\ request[t] = "pending"

\* No task has two commands there, and the recorder none while its recording
\* is finalized.
OneCommandEach ==
    /\ \A i, j \in 1 .. Len(inbox) : inbox[i][1] = inbox[j][1] => i = j
    /\ running = "finalize" =>
        /\ step["recorder"] = 3 /\ request["recorder"] = "pending"
        /\ \A i \in 1 .. Len(inbox) : inbox[i][1] # "recorder"

\* Until its start is answered there is nothing of a recording.
NothingYet ==
    step["recorder"] = 0 \/ (step["recorder"] = 1 /\ request["recorder"] = "pending") =>
        given = 0 /\ session = NoSession /\ ~gives /\ file = "none"

\* The leg gives chunks until the stop is answered, to a session that is open.
GivesUntilStopped ==
    /\ gives => \/ step["recorder"] = 1
                \/ step["recorder"] = 2 /\ request["recorder"] = "pending"
    /\ gives /\ "broken" \notin mwFlaws => session.on
    /\ session.closing => step["recorder"] = 3

\* The recording is finalized last: its session is closed, and then over.
FinalizedLast ==
    /\ file # "none" => step["recorder"] = 3 /\ ~session.on
    /\ running = "finalize" => (session.on => session.closing)
    /\ running = "finalize" /\ "broken" \notin mwFlaws => session.on

\* A session that is over has no chunk to write, one that is open was not aborted.
OverIsOver ==
    IF session.on THEN ~session.aborted
    ELSE /\ session.drain = "writing" => session.aborted
         /\ ~session.closing => session.pending = 0

\* What is queued, being written and encoded was given, and is all of it while
\* the session is open.
Writing == IF session.drain = "writing" THEN 1 ELSE 0
Held == session.pending + session.encoded + Writing
AllIsHeld ==
    /\ Held =< given
    /\ session.on /\ thread # "dead" /\ mwFlaws \cap {"tail", "broken"} = {} => Held = given

\* A pump nobody cancelled has its leg.
PumpHasLeg == pump.state # "none" /\ ~pump.cancelled => workerLeg = "there"

Commands == InboxIsAwaited /\ OneCommandEach
Recorded == NothingYet /\ GivesUntilStopped /\ FinalizedLast /\ OverIsOver /\ AllIsHeld
            /\ FileIsWhole /\ QueuedIsDrained
Played == PumpHasLeg /\ PumpReports /\ RemovedIsClean

MwInv == MwTypes /\ Commands /\ Recorded /\ Played

LEMMA WorkerTasks ==
    /\ Tasks = {"recorder", "player", "remover", "stopper"}
    /\ Len(Scripts["recorder"]) = 3 /\ Len(Scripts["player"]) = 2
    /\ Len(Scripts["remover"]) = 1 /\ Len(Scripts["stopper"]) = 1
    /\ Scripts["recorder"][1] = "start" /\ Scripts["recorder"][2] = "stop"
    /\ Scripts["recorder"][3] = "finalize"
    /\ Scripts["player"][1] = "play" /\ Scripts["player"][2] = "unplay"
    /\ Scripts["remover"][1] = "remove" /\ Scripts["stopper"][1] = "shutdown"
  BY DEF Tasks, Scripts

\* Whose command is on top.
LEMMA WhoAsks ==
    ASSUME MwInv, NEW o \in Ops, Runs(o)
    PROVE  LET t == Head(inbox)[1] IN
           /\ t \in Tasks /\ request[t] = "pending" /\ running = "none" /\ thread # "dead"
           /\ o = "start" => t = "recorder" /\ step[t] = 1
           /\ o = "stop" => t = "recorder" /\ step[t] = 2
           /\ o = "finalize" => t = "recorder" /\ step[t] = 3
           /\ o \in {"play", "unplay"} => t = "player"
           /\ o = "remove" => t = "remover"
           /\ o = "shutdown" => t = "stopper"
<1>. DEFINE t == Head(inbox)[1]
<1>1. inbox \in Seq(Tasks \X Ops) /\ inbox # <<>> /\ Head(inbox)[2] = o
      /\ running = "none" /\ thread # "dead"
  BY DEF MwInv, MwTypes, Runs
<1>2. 1 \in 1 .. Len(inbox) /\ Head(inbox) = inbox[1]
  BY <1>1
<1>3. /\ t \in Tasks /\ step[t] \in 1 .. Len(Scripts[t])
      /\ o = Scripts[t][step[t]] /\ request[t] = "pending"
  BY <1>1, <1>2 DEF MwInv, Commands, InboxIsAwaited
<1>. HIDE DEF t
<1>4. CASE t = "recorder"
  <2>1. step[t] = 1 \/ step[t] = 2 \/ step[t] = 3
    BY <1>3, <1>4, WorkerTasks
  <2>. QED
    BY <1>1, <1>3, <1>4, <2>1, WorkerTasks DEF t
<1>5. CASE t = "player"
  <2>1. step[t] = 1 \/ step[t] = 2
    BY <1>3, <1>5, WorkerTasks
  <2>. QED
    BY <1>1, <1>3, <1>5, <2>1, WorkerTasks DEF t
<1>6. CASE t = "remover" \/ t = "stopper"
  <2>1. step[t] = 1
    BY <1>3, <1>6, WorkerTasks
  <2>. QED
    BY <1>1, <1>3, <1>6, <2>1, WorkerTasks DEF t
<1>. QED
  BY <1>3, <1>4, <1>5, <1>6, WorkerTasks

\* Commands that are begun, answered or neither leave the others awaited.
LEMMA CommandsGo ==
    ASSUME MwInv, step' = step, running = "none", running' = "none",
           inbox # <<>>, inbox' = Tail(inbox),
           NEW how \in {"ok", "failed"},
           request' = [request EXCEPT ![Head(inbox)[1]] = how]
    PROVE  /\ Commands' /\ inbox' \in Seq(Tasks \X Ops)
           /\ request' \in [Tasks -> {"none", "pending", "ok", "failed"}]
<1>1. inbox \in Seq(Tasks \X Ops) /\ request \in [Tasks -> {"none", "pending", "ok", "failed"}]
  BY DEF MwInv, MwTypes
<1>2. /\ inbox' \in Seq(Tasks \X Ops) /\ Len(inbox') = Len(inbox) - 1
      /\ \A i \in 1 .. Len(inbox') : inbox'[i] = inbox[i + 1] /\ i + 1 \in 1 .. Len(inbox)
      /\ Head(inbox) = inbox[1] /\ 1 \in 1 .. Len(inbox) /\ Len(inbox) \in Nat
  BY <1>1
<1>3. /\ \A i \in 1 .. Len(inbox) :
            LET t == inbox[i][1] IN
            /\ t \in Tasks /\ step[t] \in 1 .. Len(Scripts[t])
            /\ inbox[i][2] = Scripts[t][step[t]] /\ request[t] = "pending"
      /\ \A i, j \in 1 .. Len(inbox) : inbox[i][1] = inbox[j][1] => i = j
  BY DEF MwInv, Commands, InboxIsAwaited, OneCommandEach
<1>4. request' \in [Tasks -> {"none", "pending", "ok", "failed"}]
  BY <1>1
<1>5. \A t \in Tasks : t # inbox[1][1] => request'[t] = request[t]
  BY <1>1, <1>2
<1>6. \A i \in 1 .. Len(inbox') : inbox'[i][1] # inbox[1][1]
  BY <1>2, <1>3
<1>7. InboxIsAwaited'
  BY <1>2, <1>3, <1>5, <1>6 DEF InboxIsAwaited
<1>8. OneCommandEach'
  BY <1>2, <1>3 DEF OneCommandEach
<1>. QED
  BY <1>2, <1>4, <1>7, <1>8 DEF Commands

\* Commands nobody touched stay as they are.
LEMMA CommandsRest ==
    ASSUME MwInv, UNCHANGED <<inbox, request, step, running>>
    PROVE  Commands'
  BY DEF MwInv, Commands, InboxIsAwaited, OneCommandEach

\* A recording nobody touched stays what it is, whatever else is commanded.
LEMMA RecordedRests ==
    ASSUME MwInv, UNCHANGED <<session, given, file, gives, running, thread>>,
           step'["recorder"] = step["recorder"], request'["recorder"] = request["recorder"],
           mwFlaws \subseteq mwFlaws'
    PROVE  Recorded'
<1>1. Recorded
  BY DEF MwInv
<1>2. NothingYet' /\ GivesUntilStopped' /\ FinalizedLast' /\ OverIsOver' /\ QueuedIsDrained'
  BY <1>1 DEF Recorded, NothingYet, GivesUntilStopped, FinalizedLast, OverIsOver, QueuedIsDrained
<1>3. AllIsHeld'
  BY <1>1 DEF Recorded, AllIsHeld, Held, Writing
<1>4. FileIsWhole'
  BY <1>1 DEF Recorded, FileIsWhole
<1>. QED
  BY <1>2, <1>3, <1>4 DEF Recorded

\* So does a playback.
LEMMA PlayedRests ==
    ASSUME MwInv, UNCHANGED <<pump, workerLeg>>, session'.on => session.on
    PROVE  Played'
  BY DEF MwInv, Played, PumpHasLeg, PumpReports, RemovedIsClean

LEMMA MwInitHolds == WorkerAssumption /\ MwInit => MwInv
<1>. SUFFICES ASSUME WorkerAssumption, MwInit PROVE MwInv
  OBVIOUS
<1>. USE DEF MwInit
<1>1. MwTypes
  <2>1. /\ request \in [Tasks -> {"none", "pending", "ok", "failed"}]
        /\ step \in [Tasks -> 0 .. 3]
    OBVIOUS
  <2>2. session \in Sessions /\ pump \in Pumps
    BY DEF NoSession, NoPump, Sessions, Pumps
  <2>3. inbox \in Seq(Tasks \X Ops)
    OBVIOUS
  <2>4. given \in 0 .. MaxChunks
    BY DEF WorkerAssumption
  <2>. QED
    BY <2>1, <2>2, <2>3, <2>4 DEF MwTypes
<1>2. Commands
  BY DEF Commands, InboxIsAwaited, OneCommandEach
<1>3. Recorded
  <2>1. NothingYet /\ GivesUntilStopped /\ FinalizedLast /\ OverIsOver /\ QueuedIsDrained
        /\ FileIsWhole
    BY DEF NothingYet, GivesUntilStopped, FinalizedLast, OverIsOver, QueuedIsDrained,
           FileIsWhole, NoSession
  <2>2. AllIsHeld
    BY DEF AllIsHeld, Held, Writing, NoSession
  <2>. QED
    BY <2>1, <2>2 DEF Recorded
<1>4. Played
  BY DEF Played, PumpHasLeg, PumpReports, RemovedIsClean, NoPump
<1>. QED
  BY <1>1, <1>2, <1>3, <1>4 DEF MwInv

\* A command that is posted goes to the end of the inbox, and to nobody when the
\* thread is dead.
LEMMA PostStep ==
    ASSUME MwInv, NEW t \in Tasks, Post(t)
    PROVE  MwInv'
<1>1. MwTypes /\ Commands
  BY DEF MwInv
<1>2. /\ request[t] # "pending" /\ step[t] \in 0 .. 3 /\ step[t] < Len(Scripts[t])
      /\ step' = [step EXCEPT ![t] = @ + 1]
      /\ request' = [request EXCEPT ![t] = "pending"]
      /\ UNCHANGED <<thread, running, workerLeg, gives, session, given, file, pump>>
      /\ mwFlaws \subseteq mwFlaws'
  BY <1>1 DEF Post, Flawed, MwTypes
<1>3. /\ step[t] + 1 \in 1 .. Len(Scripts[t]) /\ step[t] + 1 \in 0 .. 3
      /\ Scripts[t][step[t] + 1] \in Ops
  <2>1. CASE t = "recorder"
    <3>1. step[t] = 0 \/ step[t] = 1 \/ step[t] = 2
      BY <1>2, <2>1, WorkerTasks
    <3>. QED
      BY <3>1, <2>1, WorkerTasks DEF Ops
  <2>2. CASE t = "player"
    <3>1. step[t] = 0 \/ step[t] = 1
      BY <1>2, <2>2, WorkerTasks
    <3>. QED
      BY <3>1, <2>2, WorkerTasks DEF Ops
  <2>3. CASE t = "remover"
    <3>1. step[t] = 0
      BY <1>2, <2>3, WorkerTasks
    <3>. QED
      BY <3>1, <2>3, WorkerTasks DEF Ops
  <2>4. CASE t = "stopper"
    <3>1. step[t] = 0
      BY <1>2, <2>4, WorkerTasks
    <3>. QED
      BY <3>1, <2>4, WorkerTasks DEF Ops
  <2>. QED
    BY <2>1, <2>2, <2>3, <2>4, WorkerTasks
<1>4. /\ step' \in [Tasks -> 0 .. 3] /\ step'[t] = step[t] + 1 /\ request'[t] = "pending"
      /\ request' \in [Tasks -> {"none", "pending", "ok", "failed"}]
      /\ \A u \in Tasks \ {t} : step'[u] = step[u] /\ request'[u] = request[u]
  BY <1>1, <1>2, <1>3 DEF MwTypes
<1>5. /\ inbox \in Seq(Tasks \X Ops)
      /\ \A i \in 1 .. Len(inbox) :
            /\ inbox[i][1] \in Tasks /\ step[inbox[i][1]] \in 1 .. Len(Scripts[inbox[i][1]])
            /\ inbox[i][2] = Scripts[inbox[i][1]][step[inbox[i][1]]]
            /\ request[inbox[i][1]] = "pending"
      /\ \A i, j \in 1 .. Len(inbox) : inbox[i][1] = inbox[j][1] => i = j
  BY <1>1 DEF MwTypes, Commands, InboxIsAwaited, OneCommandEach
<1>6. \A i \in 1 .. Len(inbox) : inbox[i][1] # t
  BY <1>2, <1>5
<1>7. running = "finalize" => t # "recorder"
  BY <1>1, <1>2 DEF Commands, OneCommandEach
<1>8. Commands' /\ inbox' \in Seq(Tasks \X Ops)
  <2>1. CASE thread = "dead"
    <3>1. inbox' = inbox
      BY <2>1 DEF Post
    <3>2. InboxIsAwaited'
      BY <1>4, <1>5, <1>6, <3>1 DEF InboxIsAwaited
    <3>3. OneCommandEach'
      BY <1>1, <1>2, <1>4, <1>7, <3>1, WorkerTasks DEF Commands, OneCommandEach
    <3>. QED
      BY <1>5, <3>1, <3>2, <3>3 DEF Commands
  <2>2. CASE thread # "dead"
    <3>. DEFINE m == <<t, Scripts[t][step[t] + 1]>>
    <3>1. inbox' = Append(inbox, m)
      BY <2>2 DEF Post
    <3>2. m \in Tasks \X Ops /\ m[1] = t /\ m[2] = Scripts[t][step'[t]]
      BY <1>3, <1>4
    <3>. HIDE DEF m
    <3>3. /\ inbox' \in Seq(Tasks \X Ops) /\ Len(inbox') = Len(inbox) + 1 /\ Len(inbox) \in Nat
          /\ \A i \in 1 .. Len(inbox) : inbox'[i] = inbox[i]
          /\ inbox'[Len(inbox) + 1] = m
      BY <1>5, <3>1, <3>2
    <3>4. \A i \in 1 .. Len(inbox') : i \in 1 .. Len(inbox) \/ i = Len(inbox) + 1
      BY <3>3
    <3>5. \A i \in 1 .. Len(inbox) :
             /\ inbox'[i][1] \in Tasks /\ step'[inbox'[i][1]] \in 1 .. Len(Scripts[inbox'[i][1]])
             /\ inbox'[i][2] = Scripts[inbox'[i][1]][step'[inbox'[i][1]]]
             /\ request'[inbox'[i][1]] = "pending" /\ inbox'[i][1] # t
      BY <1>4, <1>5, <1>6, <3>3
    <3>6. LET i == Len(inbox) + 1 IN
             /\ inbox'[i][1] = t /\ step'[t] \in 1 .. Len(Scripts[t])
             /\ inbox'[i][2] = Scripts[t][step'[t]] /\ request'[t] = "pending"
      BY <1>3, <1>4, <3>2, <3>3
    <3>7. InboxIsAwaited'
      BY <3>4, <3>5, <3>6 DEF InboxIsAwaited
    <3>8. \A i, j \in 1 .. Len(inbox') : inbox'[i][1] = inbox'[j][1] => i = j
      BY <1>5, <3>3, <3>4, <3>5, <3>6
    <3>9. running' = "finalize" =>
            /\ step'["recorder"] = 3 /\ request'["recorder"] = "pending"
            /\ \A i \in 1 .. Len(inbox') : inbox'[i][1] # "recorder"
      BY <1>1, <1>2, <1>4, <1>7, <3>3, <3>4, <3>6, WorkerTasks DEF Commands, OneCommandEach
    <3>10. OneCommandEach'
      BY <3>8, <3>9 DEF OneCommandEach
    <3>. QED
      BY <3>3, <3>7, <3>10 DEF Commands
  <2>. QED
    BY <2>1, <2>2
<1>9. MwTypes'
  BY <1>1, <1>2, <1>4, <1>8 DEF MwTypes
<1>10. Recorded'
  <2>1. CASE t # "recorder"
    BY <1>2, <1>4, <2>1, WorkerTasks, RecordedRests
  <2>2. CASE t = "recorder"
    <3>1. step["recorder"] \in 0 .. 2 /\ step'["recorder"] = step["recorder"] + 1
          /\ request["recorder"] # "pending" /\ request'["recorder"] = "pending"
          /\ running # "finalize"
      BY <1>2, <1>4, <1>7, <2>2, WorkerTasks
    <3>2. Recorded
      BY DEF MwInv
    <3>3. NothingYet' /\ GivesUntilStopped' /\ FinalizedLast' /\ OverIsOver' /\ QueuedIsDrained'
      BY <1>2, <3>1, <3>2 DEF Recorded, NothingYet, GivesUntilStopped, FinalizedLast, OverIsOver,
                              QueuedIsDrained
    <3>4. AllIsHeld'
      BY <1>2, <3>2 DEF Recorded, AllIsHeld, Held, Writing
    <3>5. FileIsWhole'
      BY <1>2, <3>2 DEF Recorded, FileIsWhole
    <3>. QED
      BY <3>3, <3>4, <3>5 DEF Recorded
  <2>. QED
    BY <2>1, <2>2
<1>11. Played'
  BY <1>2, PlayedRests
<1>. QED
  BY <1>8, <1>9, <1>10, <1>11 DEF MwInv

\* Whatever a thread had is gone with it.
LEMMA DeadHasNothing ==
    ASSUME WorkerAssumption, MwInv, Dies \/ Terminates
    PROVE  MwInv'
<1>1. MwTypes /\ Commands /\ Recorded
  BY DEF MwInv
<1>2. /\ thread' = "dead" /\ inbox' = <<>> /\ running' = "none"
      /\ workerLeg' = "absent" /\ gives' = FALSE /\ session' = NoSession /\ pump' = NoPump
      /\ UNCHANGED <<step, given, file>> /\ mwFlaws \subseteq mwFlaws'
  BY DEF Dies, Terminates, Flawed
<1>3. /\ request' \in [Tasks -> {"none", "pending", "ok", "failed"}]
      /\ request'["recorder"] = "pending" => request["recorder"] = "pending"
  <2>1. CASE Dies
    <3>1. request' = [t \in Tasks |-> IF request[t] = "pending" THEN "failed" ELSE request[t]]
      BY <2>1 DEF Dies
    <3>. QED
      BY <1>1, <3>1, WorkerTasks DEF MwTypes
  <2>2. CASE Terminates
    BY <1>1, <2>2 DEF Terminates, MwTypes
  <2>. QED
    BY <2>1, <2>2
<1>4. session' \in Sessions /\ pump' \in Pumps
  BY <1>2 DEF NoSession, NoPump, Sessions, Pumps
<1>5. MwTypes'
  <2>1. inbox' \in Seq(Tasks \X Ops)
    BY <1>2
  <2>. QED
    BY <1>1, <1>2, <1>3, <1>4, <2>1 DEF MwTypes
<1>6. Commands'
  BY <1>2 DEF Commands, InboxIsAwaited, OneCommandEach
<1>7. NothingYet' /\ GivesUntilStopped' /\ FinalizedLast' /\ OverIsOver' /\ QueuedIsDrained'
      /\ FileIsWhole'
  BY <1>1, <1>2, <1>3 DEF Recorded, NothingYet, GivesUntilStopped, FinalizedLast, OverIsOver,
                          QueuedIsDrained, FileIsWhole, NoSession
<1>8. AllIsHeld'
  BY <1>1, <1>2 DEF AllIsHeld, Held, Writing, NoSession, MwTypes
<1>9. Played'
  BY <1>2 DEF Played, PumpHasLeg, PumpReports, RemovedIsClean, NoPump
<1>. QED
  BY <1>5, <1>6, <1>7, <1>8, <1>9 DEF MwInv, Recorded

\* The session as the encoder knows it.
LEMMA SessionFields ==
    ASSUME MwTypes
    PROVE  /\ session.on \in BOOLEAN /\ session.closing \in BOOLEAN /\ session.aborted \in BOOLEAN
           /\ session.pending \in Nat /\ session.encoded \in Nat
           /\ session.drain \in {"idle", "due", "writing"}
           /\ given \in Nat /\ Writing \in {0, 1}
  BY WorkerAssumption DEF MwTypes, Sessions, Writing

\* The recorder starts its recording.
LEMMA StartStep ==
    ASSUME WorkerAssumption, MwInv, NEW ok \in BOOLEAN, StartRecording(ok)
    PROVE  MwInv'
<1>1. MwTypes /\ Commands /\ Recorded /\ Played
  BY DEF MwInv
<1>2. /\ Runs("start") /\ "start" \in Ops
      /\ workerLeg' = IF ok \/ workerLeg = "there" THEN "there" ELSE workerLeg
      /\ UNCHANGED <<thread, running, step, given, file, pump, mwFlaws>>
      /\ request' = [request EXCEPT ![Head(inbox)[1]] = IF ok THEN "ok" ELSE "failed"]
      /\ IF ok THEN session' = [NoSession EXCEPT !.on = TRUE] /\ gives' = TRUE
         ELSE UNCHANGED <<session, gives>>
  BY DEF StartRecording, AnswerHead, Ops
<1>3. /\ Head(inbox)[1] = "recorder" /\ request["recorder"] = "pending"
      /\ step["recorder"] = 1 /\ running = "none" /\ thread # "dead"
  BY <1>2, WhoAsks
<1>4. /\ given = 0 /\ session = NoSession /\ gives = FALSE /\ file = "none"
  BY <1>1, <1>3 DEF Recorded, NothingYet, MwTypes
<1>5. /\ Commands' /\ inbox' \in Seq(Tasks \X Ops)
      /\ request' \in [Tasks -> {"none", "pending", "ok", "failed"}]
  BY <1>2, <1>3, CommandsGo DEF Runs
<1>6. request'["recorder"] # "pending"
  BY <1>1, <1>2, <1>3, WorkerTasks DEF MwTypes
<1>7. /\ session' \in Sessions /\ session'.pending = 0 /\ session'.encoded = 0
      /\ session'.drain = "idle" /\ session'.closing = FALSE /\ session'.on = ok
      /\ session'.aborted = FALSE
  <2>1. CASE ok = TRUE
    <3>1. session' = [NoSession EXCEPT !.on = TRUE]
      BY <1>2, <2>1
    <3>2. session' = [on |-> TRUE, pending |-> 0, drain |-> "idle", closing |-> FALSE,
                      encoded |-> 0, aborted |-> FALSE]
      BY <3>1 DEF NoSession
    <3>. QED
      BY <2>1, <3>2 DEF Sessions
  <2>2. CASE ok = FALSE
    <3>1. session' = NoSession
      BY <1>2, <1>4, <2>2
    <3>. QED
      BY <2>2, <3>1 DEF NoSession, Sessions
  <2>. QED
    BY <2>1, <2>2
<1>8. MwTypes'
  BY <1>1, <1>2, <1>5, <1>7 DEF MwTypes
<1>9. NothingYet' /\ GivesUntilStopped' /\ FinalizedLast' /\ OverIsOver' /\ QueuedIsDrained'
      /\ FileIsWhole'
  BY <1>2, <1>3, <1>4, <1>6, <1>7 DEF NothingYet, GivesUntilStopped, FinalizedLast, OverIsOver,
                              QueuedIsDrained, FileIsWhole
<1>10. AllIsHeld'
  BY <1>2, <1>4, <1>7 DEF AllIsHeld, Held, Writing
<1>11. Played'
  BY <1>1, <1>2, <1>7 DEF Played, PumpHasLeg, PumpReports, RemovedIsClean
<1>. QED
  BY <1>5, <1>8, <1>9, <1>10, <1>11 DEF MwInv, Recorded

\* A chunk is given to the session, or to none.
LEMMA ChunkIsHeld ==
    ASSUME MwInv, session' = Chunk(session), given' = given + 1, gives,
           UNCHANGED <<file, mwFlaws>>, thread' = thread
    PROVE  /\ session' \in Sessions /\ session'.on = session.on
           /\ session'.closing = session.closing
           /\ OverIsOver' /\ AllIsHeld' /\ QueuedIsDrained' /\ FileIsWhole'
<1>1. MwTypes /\ Recorded
  BY DEF MwInv
<1>2. session \in Sessions
  BY <1>1 DEF MwTypes
<1>3. /\ session' \in Sessions /\ session'.on = session.on /\ session'.closing = session.closing
      /\ session'.aborted = session.aborted /\ session'.encoded = session.encoded
      /\ session.on /\ ~session.closing =>
            /\ session'.pending = session.pending + 1
            /\ session'.drain = IF session.drain = "idle" THEN "due" ELSE session.drain
      /\ ~(session.on /\ ~session.closing) => session' = session
  <2>1. CASE session.on /\ ~session.closing
    <3>. DEFINE d == IF session.drain = "idle" THEN "due" ELSE session.drain
    <3>1. session' = [session EXCEPT !.pending = session.pending + 1, !.drain = d]
      BY <2>1 DEF Chunk
    <3>2. d \in {"idle", "due", "writing"} /\ session.pending + 1 \in Nat
      BY <1>2 DEF Sessions
    <3>. HIDE DEF d
    <3>3. /\ session' \in Sessions /\ session'.on = session.on
          /\ session'.closing = session.closing /\ session'.aborted = session.aborted
          /\ session'.encoded = session.encoded /\ session'.pending = session.pending + 1
          /\ session'.drain = d
      BY <1>2, <3>1, <3>2 DEF Sessions
    <3>. QED
      BY <2>1, <3>3 DEF d
  <2>2. CASE ~(session.on /\ ~session.closing)
    BY <1>2, <2>2 DEF Chunk
  <2>. QED
    BY <2>1, <2>2
<1>4. file = "none" /\ ~session.closing /\ ("broken" \notin mwFlaws => session.on)
  BY <1>1 DEF Recorded, GivesUntilStopped, FinalizedLast
<1>5. OverIsOver' /\ QueuedIsDrained' /\ FileIsWhole'
  BY <1>1, <1>2, <1>3, <1>4, SessionFields
     DEF Recorded, OverIsOver, QueuedIsDrained, FileIsWhole, Sessions
<1>6. AllIsHeld'
  BY <1>1, <1>2, <1>3, <1>4, SessionFields DEF Recorded, AllIsHeld, Held, Writing
<1>. QED
  BY <1>3, <1>5, <1>6

LEMMA GiveStep ==
    ASSUME WorkerAssumption, MwInv, GivesChunk
    PROVE  MwInv'
<1>1. MwTypes /\ Commands /\ Recorded /\ Played
  BY DEF MwInv
<1>2. /\ gives /\ given < MaxChunks /\ given' = given + 1 /\ session' = Chunk(session)
      /\ UNCHANGED <<thread, inbox, running, request, step, workerLeg, gives, file, pump, mwFlaws>>
  BY DEF GivesChunk
<1>3. /\ session' \in Sessions /\ session'.on = session.on
      /\ session'.closing = session.closing
      /\ OverIsOver' /\ AllIsHeld' /\ QueuedIsDrained' /\ FileIsWhole'
  BY <1>2, ChunkIsHeld
<1>4. MwTypes'
  BY <1>1, <1>2, <1>3 DEF MwTypes, WorkerAssumption
<1>5. NothingYet' /\ GivesUntilStopped' /\ FinalizedLast'
  BY <1>1, <1>2, <1>3 DEF Recorded, NothingYet, GivesUntilStopped, FinalizedLast
<1>. QED
  BY <1>2, <1>3, <1>4, <1>5, CommandsRest, PlayedRests DEF MwInv, Recorded

\* The recorder stops it, with a last chunk or without.
LEMMA StopStep ==
    ASSUME WorkerAssumption, MwInv, NEW tail \in BOOLEAN, EndRecording(tail)
    PROVE  MwInv'
<1>1. MwTypes /\ Commands /\ Recorded /\ Played
  BY DEF MwInv
<1>2. /\ Runs("stop") /\ "stop" \in Ops
      /\ UNCHANGED <<thread, running, step, workerLeg, file, pump, mwFlaws>>
      /\ request' = [request EXCEPT ![Head(inbox)[1]] = "ok"]
      /\ tail => gives /\ given < MaxChunks
      /\ given' = given + (IF tail THEN 1 ELSE 0) /\ gives' = FALSE
      /\ session' = IF tail THEN Chunk(session) ELSE session
  BY DEF EndRecording, AnswerHead, Ops
<1>3. /\ Head(inbox)[1] = "recorder" /\ request["recorder"] = "pending"
      /\ step["recorder"] = 2 /\ running = "none" /\ thread # "dead"
  BY <1>2, WhoAsks
<1>4. /\ Commands' /\ inbox' \in Seq(Tasks \X Ops)
      /\ request' \in [Tasks -> {"none", "pending", "ok", "failed"}]
  BY <1>2, <1>3, CommandsGo DEF Runs
<1>5. /\ session' \in Sessions /\ session'.on = session.on
      /\ session'.closing = session.closing
      /\ OverIsOver' /\ AllIsHeld' /\ QueuedIsDrained' /\ FileIsWhole' /\ given' \in 0 .. MaxChunks
  <2>1. CASE tail
    BY <1>1, <1>2, <2>1, ChunkIsHeld DEF MwTypes, WorkerAssumption
  <2>2. CASE ~tail
    <3>1. session' = session /\ given' = given
      BY <1>1, <1>2, <2>2, SessionFields
    <3>2. OverIsOver' /\ QueuedIsDrained' /\ FileIsWhole'
      BY <1>1, <1>2, <3>1 DEF Recorded, OverIsOver, QueuedIsDrained, FileIsWhole
    <3>3. AllIsHeld'
      BY <1>1, <1>2, <3>1 DEF Recorded, AllIsHeld, Held, Writing
    <3>. QED
      BY <1>1, <3>1, <3>2, <3>3 DEF MwTypes
  <2>. QED
    BY <2>1, <2>2
<1>6. MwTypes'
  BY <1>1, <1>2, <1>4, <1>5 DEF MwTypes
<1>7. NothingYet' /\ GivesUntilStopped' /\ FinalizedLast'
  BY <1>1, <1>2, <1>3, <1>5 DEF Recorded, NothingYet, GivesUntilStopped, FinalizedLast
<1>. QED
  BY <1>2, <1>4, <1>5, <1>6, <1>7, PlayedRests DEF MwInv, Recorded

\* Only the session is at work.
LEMMA SessionWorks ==
    ASSUME MwInv, session' \in Sessions, session'.on => session.on,
           session'.closing => session.closing, session # NoSession,
           UNCHANGED <<thread, inbox, running, request, step, workerLeg, gives, given, file, pump>>,
           mwFlaws \subseteq mwFlaws', "broken" \notin mwFlaws' => session'.on = session.on,
           session'.on => session'.closing = session.closing,
           OverIsOver', AllIsHeld', QueuedIsDrained', FileIsWhole'
    PROVE  MwInv'
<1>1. MwTypes /\ Commands /\ Recorded /\ Played
  BY DEF MwInv
<1>2. MwTypes'
  BY <1>1 DEF MwTypes
<1>3. NothingYet' /\ GivesUntilStopped' /\ FinalizedLast'
  BY <1>1 DEF Recorded, NothingYet, GivesUntilStopped, FinalizedLast
<1>. QED
  BY <1>2, <1>3, CommandsRest, PlayedRests DEF MwInv, Recorded

\* A chunk is taken from the queue, or the queue dropped.
LEMMA DrainStep ==
    ASSUME MwInv, DrainTakes
    PROVE  MwInv'
<1>1. MwTypes /\ Commands /\ Recorded /\ Played /\ session \in Sessions
  BY DEF MwInv, MwTypes
<1>2. /\ session.drain = "due"
      /\ session' = IF session.closing \/ session.pending = 0
                    THEN [session EXCEPT !.pending = 0, !.drain = "idle"]
                    ELSE [session EXCEPT !.pending = session.pending - 1, !.drain = "writing"]
      /\ UNCHANGED <<thread, inbox, running, request, step, workerLeg, gives, given, file, pump>>
      /\ mwFlaws' = mwFlaws \cup (IF session.closing /\ session.pending > 0 THEN {"tail"} ELSE {})
  BY DEF DrainTakes, Flawed
<1>3. session # NoSession
  BY <1>2 DEF NoSession
<1>4. /\ session' \in Sessions /\ session'.on = session.on
      /\ session'.closing = session.closing /\ session'.aborted = session.aborted
      /\ session'.encoded = session.encoded
      /\ \/ /\ session.closing \/ session.pending = 0
            /\ session'.pending = 0 /\ session'.drain = "idle"
         \/ /\ ~session.closing /\ session.pending > 0
            /\ session'.pending = session.pending - 1 /\ session'.drain = "writing"
  <2>1. CASE session.closing \/ session.pending = 0
    <3>1. session' = [session EXCEPT !.pending = 0, !.drain = "idle"]
      BY <1>2, <2>1
    <3>. QED
      BY <1>1, <2>1, <3>1 DEF Sessions
  <2>2. CASE ~(session.closing \/ session.pending = 0)
    <3>1. session' = [session EXCEPT !.pending = session.pending - 1, !.drain = "writing"]
      BY <1>2, <2>2
    <3>2. session.pending - 1 \in Nat /\ session.pending > 0
      BY <1>1, <2>2 DEF Sessions
    <3>. QED
      BY <1>1, <2>2, <3>1, <3>2 DEF Sessions
  <2>. QED
    BY <2>1, <2>2
<1>5. OverIsOver' /\ QueuedIsDrained' /\ FileIsWhole'
  BY <1>1, <1>2, <1>4, SessionFields DEF Recorded, OverIsOver, QueuedIsDrained, FileIsWhole
<1>6. AllIsHeld'
  BY <1>1, <1>2, <1>4, SessionFields DEF Recorded, AllIsHeld, Held, Writing
<1>. QED
  BY <1>2, <1>3, <1>4, <1>5, <1>6, SessionWorks

\* A chunk is encoded.
LEMMA EncodeStep ==
    ASSUME MwInv, ChunkEncoded
    PROVE  MwInv'
<1>1. MwTypes /\ Commands /\ Recorded /\ Played /\ session \in Sessions
  BY DEF MwInv, MwTypes
<1>. DEFINE e == session.encoded + (IF session.aborted THEN 0 ELSE 1)
            d == IF session.on /\ ~session.closing /\ session.pending > 0 THEN "due" ELSE "idle"
<1>2. /\ session.drain = "writing" /\ session' = [session EXCEPT !.encoded = e, !.drain = d]
      /\ UNCHANGED <<thread, inbox, running, request, step, workerLeg, gives, given, file, pump, mwFlaws>>
  BY DEF ChunkEncoded
<1>3. /\ e \in Nat /\ d \in {"idle", "due", "writing"} /\ d # "writing"
      /\ session.on /\ ~session.closing /\ session.pending > 0 => d # "idle"
      /\ e =< session.encoded + 1 /\ (~session.aborted => e = session.encoded + 1)
      /\ session.aborted => e = session.encoded
  BY <1>1, SessionFields
<1>. HIDE DEF e, d
<1>4. session # NoSession
  BY <1>2 DEF NoSession
<1>5. /\ session' \in Sessions /\ session'.on = session.on
      /\ session'.closing = session.closing /\ session'.aborted = session.aborted
      /\ session'.encoded = e /\ session'.drain = d /\ session'.pending = session.pending
  BY <1>1, <1>2, <1>3 DEF Sessions
<1>6. /\ session.on <=> ~session.aborted
      /\ file # "none" => session.aborted
  BY <1>1, <1>2, SessionFields DEF Recorded, OverIsOver, FinalizedLast
<1>7. OverIsOver' /\ QueuedIsDrained'
  BY <1>1, <1>2, <1>3, <1>5 DEF Recorded, OverIsOver, QueuedIsDrained
<1>8. AllIsHeld'
  BY <1>1, <1>2, <1>3, <1>5, <1>6, SessionFields DEF Recorded, AllIsHeld, Held, Writing
<1>9. FileIsWhole'
  BY <1>1, <1>2, <1>3, <1>5, <1>6 DEF Recorded, FileIsWhole
<1>. QED
  BY <1>2, <1>4, <1>5, <1>7, <1>8, <1>9, SessionWorks

\* It is not.
LEMMA EncoderBreaks ==
    ASSUME MwInv, ChunkFails
    PROVE  MwInv'
<1>1. MwTypes /\ Commands /\ Recorded /\ Played /\ session \in Sessions
  BY DEF MwInv, MwTypes
<1>2. /\ session.drain = "writing" /\ session' = [Aborted(session) EXCEPT !.drain = "idle"]
      /\ UNCHANGED <<thread, inbox, running, request, step, workerLeg, gives, given, file, pump>>
      /\ mwFlaws' = mwFlaws \cup {"broken"}
  BY DEF ChunkFails, Flawed
<1>3. session # NoSession
  BY <1>2 DEF NoSession
<1>4. session' = [on |-> FALSE, pending |-> 0, drain |-> "idle", closing |-> FALSE,
                  encoded |-> session.encoded, aborted |-> TRUE]
  BY <1>2 DEF Aborted, NoSession
<1>5. session' \in Sessions
  BY <1>1, <1>4 DEF Sessions
<1>6. OverIsOver' /\ QueuedIsDrained' /\ FileIsWhole'
  BY <1>2, <1>4 DEF OverIsOver, QueuedIsDrained, FileIsWhole
<1>7. AllIsHeld'
  BY <1>1, <1>2, <1>4, SessionFields DEF Recorded, AllIsHeld, Held, Writing
<1>. QED
  BY <1>2, <1>3, <1>4, <1>5, <1>6, <1>7, SessionWorks

\* The recorder has it finalized: an open session is closed for the encoder, one
\* that is gone answered.
LEMMA FinalizeStep ==
    ASSUME WorkerAssumption, MwInv, FinalizeBegins
    PROVE  MwInv'
<1>1. MwTypes /\ Commands /\ Recorded /\ Played /\ session \in Sessions
  BY DEF MwInv, MwTypes
<1>2. /\ Runs("finalize") /\ "finalize" \in Ops
      /\ UNCHANGED <<thread, step, workerLeg, gives, given, pump>>
  BY DEF FinalizeBegins, Ops
<1>3. /\ Head(inbox)[1] = "recorder" /\ request["recorder"] = "pending"
      /\ step["recorder"] = 3 /\ running = "none" /\ thread # "dead"
      /\ inbox # <<>> /\ inbox' = Tail(inbox)
  BY <1>2, WhoAsks DEF Runs
<1>4. gives = FALSE
  BY <1>1, <1>3 DEF Recorded, GivesUntilStopped, MwTypes
<1>5. CASE session.on
  <2>1. /\ session' = [session EXCEPT !.closing = TRUE] /\ running' = "finalize"
        /\ UNCHANGED <<request, file, mwFlaws>>
    BY <1>5 DEF FinalizeBegins
  <2>2. /\ session' \in Sessions /\ session'.on = session.on /\ session'.closing = TRUE
        /\ session'.pending = session.pending /\ session'.encoded = session.encoded
        /\ session'.drain = session.drain /\ session'.aborted = session.aborted
    BY <1>1, <2>1 DEF Sessions
  <2>3. /\ inbox' \in Seq(Tasks \X Ops) /\ Len(inbox') = Len(inbox) - 1
        /\ \A i \in 1 .. Len(inbox') : inbox'[i] = inbox[i + 1] /\ i + 1 \in 1 .. Len(inbox)
        /\ inbox[1][1] = "recorder" /\ 1 \in 1 .. Len(inbox) /\ Len(inbox) \in Nat
    BY <1>1, <1>3 DEF MwTypes
  <2>4. InboxIsAwaited'
    BY <1>1, <1>2, <2>1, <2>3 DEF Commands, InboxIsAwaited
  <2>5. OneCommandEach'
    BY <1>1, <1>2, <1>3, <2>1, <2>3 DEF Commands, OneCommandEach
  <2>6. MwTypes'
    BY <1>1, <1>2, <2>1, <2>2, <2>3 DEF MwTypes
  <2>7. NothingYet' /\ GivesUntilStopped' /\ FinalizedLast' /\ OverIsOver' /\ QueuedIsDrained'
        /\ FileIsWhole'
    BY <1>1, <1>2, <1>3, <1>4, <1>5, <2>1, <2>2
       DEF Recorded, NothingYet, GivesUntilStopped, FinalizedLast, OverIsOver, QueuedIsDrained,
           FileIsWhole
  <2>8. AllIsHeld'
    BY <1>1, <1>2, <2>1, <2>2 DEF Recorded, AllIsHeld, Held, Writing
  <2>. QED
    BY <1>2, <2>2, <2>4, <2>5, <2>6, <2>7, <2>8, PlayedRests DEF MwInv, Commands, Recorded
<1>6. CASE ~session.on
  <2>1. /\ request' = [request EXCEPT ![Head(inbox)[1]] = "ok"] /\ file' = "hollow"
        /\ mwFlaws' = mwFlaws \cup (IF given > 0 THEN {"hollow"} ELSE {})
        /\ UNCHANGED <<session, running>>
    BY <1>6 DEF FinalizeBegins, AnswerHead, Flawed
  <2>2. /\ Commands' /\ inbox' \in Seq(Tasks \X Ops)
        /\ request' \in [Tasks -> {"none", "pending", "ok", "failed"}]
    BY <1>2, <1>3, <2>1, CommandsGo
  <2>3. MwTypes'
    BY <1>1, <1>2, <2>1, <2>2 DEF MwTypes
  <2>4. OverIsOver' /\ QueuedIsDrained'
    BY <1>1, <2>1 DEF Recorded, OverIsOver, QueuedIsDrained
  <2>9. NothingYet' /\ GivesUntilStopped'
    BY <1>1, <1>2, <1>3, <1>4, <2>1 DEF Recorded, NothingYet, GivesUntilStopped
  <2>10. FinalizedLast'
    BY <1>2, <1>3, <1>6, <2>1 DEF FinalizedLast
  <2>5. AllIsHeld'
    BY <1>1, <1>2, <2>1 DEF Recorded, AllIsHeld, Held, Writing
  <2>6. given = 0 => session.encoded = given
    BY <1>1, SessionFields DEF Recorded, AllIsHeld, Held
  <2>7. FileIsWhole'
    BY <1>1, <1>2, <2>1, <2>6, SessionFields DEF FileIsWhole
  <2>. QED
    BY <1>2, <2>1, <2>2, <2>3, <2>4, <2>5, <2>7, <2>9, <2>10, PlayedRests DEF MwInv, Recorded
<1>. QED
  BY <1>5, <1>6

\* The encoder is finalized.
LEMMA FinalizedStep ==
    ASSUME MwInv, NEW ok \in BOOLEAN, FinalizeEnds(ok)
    PROVE  MwInv'
<1>1. MwTypes /\ Commands /\ Recorded /\ Played /\ session \in Sessions
  BY DEF MwInv, MwTypes
<1>2. /\ running = "finalize" /\ session.drain # "writing" /\ thread # "dead"
      /\ running' = "none" /\ file' = IF ok THEN "written" ELSE "failed"
      /\ request' = [request EXCEPT !["recorder"] = IF ok THEN "ok" ELSE "failed"]
      /\ mwFlaws' = mwFlaws \cup (IF session.pending > 0 THEN {"tail"} ELSE {})
      /\ session' = [session EXCEPT !.on = FALSE]
      /\ UNCHANGED <<thread, inbox, step, workerLeg, gives, given, pump>>
  BY DEF FinalizeEnds, FinalizeWaits, Flawed
<1>3. /\ step["recorder"] = 3 /\ request["recorder"] = "pending" /\ gives = FALSE
      /\ \A i \in 1 .. Len(inbox) : inbox[i][1] # "recorder"
      /\ session.on => session.closing
      /\ "broken" \notin mwFlaws => session.on
  <2>1. /\ step["recorder"] = 3 /\ request["recorder"] = "pending"
        /\ \A i \in 1 .. Len(inbox) : inbox[i][1] # "recorder"
    BY <1>1, <1>2 DEF Commands, OneCommandEach
  <2>2. gives = FALSE
    BY <1>1, <2>1 DEF Recorded, GivesUntilStopped, MwTypes
  <2>. QED
    BY <1>1, <1>2, <2>1, <2>2 DEF Recorded, FinalizedLast
<1>4. /\ session' \in Sessions /\ session'.on = FALSE /\ session'.closing = session.closing
      /\ session'.pending = session.pending /\ session'.encoded = session.encoded
      /\ session'.drain = session.drain /\ session'.aborted = session.aborted
  BY <1>1, <1>2 DEF Sessions
<1>5. /\ request' \in [Tasks -> {"none", "pending", "ok", "failed"}]
      /\ \A t \in Tasks \ {"recorder"} : request'[t] = request[t]
  BY <1>1, <1>2, WorkerTasks DEF MwTypes
<1>6. Commands'
  <2>1. InboxIsAwaited'
    BY <1>1, <1>2, <1>3, <1>5 DEF Commands, InboxIsAwaited
  <2>2. OneCommandEach'
    BY <1>1, <1>2 DEF Commands, OneCommandEach
  <2>. QED
    BY <2>1, <2>2 DEF Commands
<1>7. MwTypes'
  BY <1>1, <1>2, <1>4, <1>5 DEF MwTypes
<1>8. NothingYet' /\ GivesUntilStopped' /\ FinalizedLast' /\ QueuedIsDrained'
  BY <1>1, <1>2, <1>3, <1>4 DEF Recorded, NothingYet, GivesUntilStopped, FinalizedLast,
                                QueuedIsDrained
<1>9. AllIsHeld'
  BY <1>1, <1>2, <1>4 DEF Recorded, AllIsHeld, Held, Writing
<1>10. FileIsWhole'
  <2>1. CASE mwFlaws' \cap {"tail", "broken", "hollow"} # {}
    BY <2>1 DEF FileIsWhole
  <2>2. CASE mwFlaws' \cap {"tail", "broken", "hollow"} = {}
    <3>4. "tail" \notin mwFlaws' /\ "broken" \notin mwFlaws'
      BY <2>2
    <3>5. mwFlaws \cap {"tail", "broken"} = {} /\ ~(session.pending > 0)
      BY <1>2, <3>4
    <3>1. mwFlaws \cap {"tail", "broken"} = {} /\ session.on /\ session.pending = 0
      BY <1>1, <1>3, <3>5, SessionFields
    <3>2. Held = given /\ Writing = 0
      BY <1>1, <1>2, <3>1 DEF Recorded, AllIsHeld, Writing
    <3>3. session.encoded = given
      BY <1>1, <3>1, <3>2, SessionFields DEF Held
    <3>. QED
      BY <1>2, <1>4, <3>3 DEF FileIsWhole
  <2>. QED
    BY <2>1, <2>2
<1>11. OverIsOver'
  BY <1>1, <1>2, <1>3, <1>4 DEF Recorded, OverIsOver
<1>. QED
  BY <1>2, <1>4, <1>6, <1>7, <1>8, <1>9, <1>10, <1>11, PlayedRests DEF MwInv, Recorded

\* The player's commands, and its pump.
LEMMA PlayerSteps ==
    ASSUME WorkerAssumption, MwInv,
           \/ \E ok \in BOOLEAN : RegisterPlayback(ok)
           \/ UnregisterPlayback
    PROVE  MwInv'
<1>1. MwTypes /\ Commands /\ Recorded /\ Played /\ pump \in Pumps
  BY DEF MwInv, MwTypes
<1>2. PICK how \in {"ok", "failed"}, o \in {"play", "unplay"} :
        /\ Runs(o) /\ request' = [request EXCEPT ![Head(inbox)[1]] = how]
        /\ UNCHANGED <<thread, running, step, gives, session, given, file, mwFlaws>>
        /\ \/ workerLeg' = "there" /\ pump' = [NoPump EXCEPT !.state = "waiting"]
           \/ workerLeg' = workerLeg /\ pump' = pump
           \/ workerLeg' = workerLeg /\ pump' = Cancelled(pump)
  BY DEF RegisterPlayback, UnregisterPlayback, AnswerHead
<1>3. /\ Head(inbox)[1] = "player" /\ running = "none" /\ thread # "dead"
      /\ inbox # <<>> /\ inbox' = Tail(inbox)
  BY <1>2, WhoAsks DEF Runs, Ops
<1>4. /\ Commands' /\ inbox' \in Seq(Tasks \X Ops)
      /\ request' \in [Tasks -> {"none", "pending", "ok", "failed"}]
  BY <1>2, <1>3, CommandsGo
<1>5. request'["recorder"] = request["recorder"]
  BY <1>1, <1>2, <1>3, WorkerTasks DEF MwTypes
<1>6. Recorded'
  BY <1>2, <1>5, RecordedRests
<1>7. /\ pump' \in Pumps /\ workerLeg' \in {"absent", "there", "removed"} /\ Played'
  <2>1. CASE workerLeg' = "there" /\ pump' = [NoPump EXCEPT !.state = "waiting"]
    <3>1. pump' = [state |-> "waiting", cancelled |-> FALSE, told |-> "nothing"]
      BY <2>1 DEF NoPump
    <3>2. pump' \in Pumps /\ pump'.state = "waiting"
      BY <3>1 DEF Pumps
    <3>. QED
      BY <2>1, <3>2 DEF Played, PumpHasLeg, PumpReports, RemovedIsClean
  <2>2. CASE workerLeg' = workerLeg /\ pump' = pump
    <3>1. Played'
      BY <1>2, <2>2, PlayedRests
    <3>. QED
      BY <1>1, <2>2, <3>1 DEF MwTypes
  <2>3. CASE workerLeg' = workerLeg /\ pump' = Cancelled(pump)
    <3>1. /\ pump' \in Pumps /\ pump'.state = pump.state
          /\ pump.state # "none" => pump'.cancelled = TRUE
      BY <1>1, <2>3 DEF Cancelled, Pumps
    <3>. QED
      BY <1>1, <1>2, <2>3, <3>1
         DEF MwTypes, Played, PumpHasLeg, PumpReports, RemovedIsClean
  <2>. QED
    BY <1>2, <2>1, <2>2, <2>3
<1>8. MwTypes'
  BY <1>1, <1>2, <1>4, <1>7 DEF MwTypes
<1>. QED
  BY <1>4, <1>6, <1>7, <1>8 DEF MwInv

LEMMA PumpSteps ==
    ASSUME MwInv, PumpReady \/ \E how \in {"end", "error"} : PumpEnds(how)
    PROVE  MwInv'
<1>1. MwTypes /\ Commands /\ Recorded /\ Played /\ pump \in Pumps
  BY DEF MwInv, MwTypes
<1>2. UNCHANGED <<thread, inbox, running, request, step, workerLeg, gives, session, given, file,
                  mwFlaws>>
  BY DEF PumpReady, PumpEnds
<1>3. pump' \in Pumps /\ Played'
  <2>1. CASE PumpReady
    <3>. DEFINE s == IF pump.cancelled \/ workerLeg # "there" THEN "done" ELSE "decoding"
    <3>1. pump.state = "waiting" /\ pump' = [pump EXCEPT !.state = s]
      BY <2>1 DEF PumpReady
    <3>2. /\ pump' \in Pumps /\ pump'.state = s /\ pump'.cancelled = pump.cancelled
          /\ pump'.told = pump.told
      BY <1>1, <3>1 DEF Pumps
    <3>. QED
      BY <1>1, <1>2, <3>1, <3>2 DEF Played, PumpHasLeg, PumpReports, RemovedIsClean
  <2>2. ASSUME NEW how \in {"end", "error"}, PumpEnds(how) PROVE pump' \in Pumps /\ Played'
    <3>. DEFINE said == IF how = "error" THEN "failed"
                        ELSE IF pump.cancelled THEN "nothing" ELSE "finished"
    <3>1. pump.state = "decoding" /\ pump' = [pump EXCEPT !.state = "done", !.told = said]
      BY <2>2 DEF PumpEnds
    <3>2. said \in {"nothing", "failed", "finished"} /\ (said = "nothing" => pump.cancelled)
      OBVIOUS
    <3>. HIDE DEF said
    <3>3. /\ pump' \in Pumps /\ pump'.state = "done" /\ pump'.cancelled = pump.cancelled
          /\ pump'.told = said
      BY <1>1, <3>1, <3>2 DEF Pumps
    <3>. QED
      BY <1>1, <1>2, <3>1, <3>2, <3>3 DEF Played, PumpHasLeg, PumpReports, RemovedIsClean
  <2>. QED
    BY <2>1, <2>2
<1>4. MwTypes'
  BY <1>1, <1>2, <1>3 DEF MwTypes
<1>. QED
  BY <1>2, <1>3, <1>4, CommandsRest, RecordedRests DEF MwInv

\* The leg is removed, or the thread shut down: what is recorded is aborted, what
\* is played cancelled.
LEMMA CleanupSteps ==
    ASSUME WorkerAssumption, MwInv, RemoveEndpoint \/ Shutdown
    PROVE  MwInv'
<1>1. MwTypes /\ Commands /\ Recorded /\ Played /\ pump \in Pumps /\ session \in Sessions
  BY DEF MwInv, MwTypes
<1>2. PICK o \in {"remove", "shutdown"} :
        /\ Runs(o) /\ request' = [request EXCEPT ![Head(inbox)[1]] = "ok"] /\ Cleanup
        /\ thread' = (IF o = "remove" THEN thread ELSE "stopping")
        /\ UNCHANGED <<running, step, given, file, mwFlaws>>
  BY DEF RemoveEndpoint, Shutdown, AnswerHead
<1>3. /\ Head(inbox)[1] \in {"remover", "stopper"} /\ running = "none" /\ thread # "dead"
      /\ inbox # <<>> /\ inbox' = Tail(inbox) /\ thread' # "dead"
  BY <1>2, WhoAsks DEF Runs, Ops
<1>4. /\ Commands' /\ inbox' \in Seq(Tasks \X Ops)
      /\ request' \in [Tasks -> {"none", "pending", "ok", "failed"}]
  BY <1>2, <1>3, CommandsGo
<1>5. request'["recorder"] = request["recorder"]
  BY <1>1, <1>2, <1>3, WorkerTasks DEF MwTypes
<1>6. /\ workerLeg' = "removed" /\ gives' = FALSE /\ pump' = Cancelled(pump)
      /\ session' = IF session.on THEN Aborted(session) ELSE session
  BY <1>2 DEF Cleanup
<1>7. /\ pump' \in Pumps /\ pump'.state = pump.state
      /\ pump.state # "none" => pump'.cancelled = TRUE
  BY <1>1, <1>6 DEF Cancelled, Pumps
<1>8. /\ session' \in Sessions /\ session'.on = FALSE
      /\ \/ session' = session
         \/ /\ session.on /\ session'.aborted /\ session'.pending = 0 /\ session'.closing = FALSE
            /\ session'.drain = session.drain /\ session'.encoded = session.encoded
  <2>1. CASE session.on
    <3>1. session' = [on |-> FALSE, pending |-> 0, drain |-> session.drain, closing |-> FALSE,
                      encoded |-> session.encoded, aborted |-> TRUE]
      BY <1>6, <2>1 DEF Aborted, NoSession
    <3>. QED
      BY <1>1, <2>1, <3>1 DEF Sessions
  <2>2. CASE ~session.on
    BY <1>1, <1>6, <2>2 DEF Sessions
  <2>. QED
    BY <2>1, <2>2
<1>9. MwTypes'
  BY <1>1, <1>2, <1>4, <1>6, <1>7, <1>8 DEF MwTypes
<1>10. NothingYet'
  <2>1. NoSession.on = FALSE
    BY DEF NoSession
  <2>2. session = NoSession => session' = session
    BY <1>8, <2>1
  <2>. QED
    BY <1>1, <1>2, <1>5, <1>6, <2>2 DEF Recorded, NothingYet
<1>11. GivesUntilStopped' /\ FinalizedLast' /\ OverIsOver' /\ QueuedIsDrained'
  BY <1>1, <1>2, <1>3, <1>6, <1>8
     DEF Recorded, GivesUntilStopped, FinalizedLast, OverIsOver, QueuedIsDrained
<1>12. AllIsHeld'
  BY <1>1, <1>2, <1>8, SessionFields DEF Recorded, AllIsHeld, Held, Writing
<1>13. FileIsWhole'
  BY <1>1, <1>2, <1>3, <1>8 DEF Recorded, FileIsWhole, FinalizedLast
<1>14. Played'
  BY <1>1, <1>6, <1>7, <1>8 DEF Played, PumpHasLeg, PumpReports, RemovedIsClean
<1>. QED
  BY <1>4, <1>9, <1>10, <1>11, <1>12, <1>13, <1>14 DEF MwInv, Recorded

LEMMA MwStepHolds == WorkerAssumption /\ MwInv /\ [MwNext]_mwVars => MwInv'
<1>. SUFFICES ASSUME WorkerAssumption, MwInv, [MwNext]_mwVars PROVE MwInv'
  OBVIOUS
<1>1. CASE \E t \in Tasks : Post(t)
  BY <1>1, PostStep
<1>2. CASE Dies \/ Terminates
  BY <1>2, DeadHasNothing
<1>3. CASE GivesChunk
  BY <1>3, GiveStep
<1>4. CASE ChunkFails
  BY <1>4, EncoderBreaks
<1>5. CASE PumpReady \/ \E how \in {"end", "error"} : PumpEnds(how)
  BY <1>5, PumpSteps
<1>6. ASSUME NEW ok \in BOOLEAN, StartRecording(ok) \/ RegisterPlayback(ok) \/ FinalizeEnds(ok)
      PROVE  MwInv'
  BY <1>6, StartStep, PlayerSteps, FinalizedStep
<1>7. ASSUME NEW tail \in BOOLEAN, EndRecording(tail) PROVE MwInv'
  BY <1>7, StopStep
<1>8. CASE FinalizeBegins
  BY <1>8, FinalizeStep
<1>9. CASE UnregisterPlayback
  BY <1>9, PlayerSteps
<1>10. CASE RemoveEndpoint \/ Shutdown
  BY <1>10, CleanupSteps
<1>11. CASE DrainTakes
  BY <1>11, DrainStep
<1>12. CASE ChunkEncoded
  BY <1>12, EncodeStep
<1>13. CASE UNCHANGED mwVars
  <2>1. UNCHANGED <<thread, inbox, running, request, step, workerLeg, gives, session, given, file,
                    pump, mwFlaws>>
    BY <1>13 DEF mwVars
  <2>2. MwTypes'
    BY <2>1 DEF MwInv, MwTypes
  <2>. QED
    BY <2>1, <2>2, CommandsRest, RecordedRests, PlayedRests DEF MwInv
<1>. QED
  BY <1>1, <1>2, <1>3, <1>4, <1>5, <1>6, <1>7, <1>8, <1>9, <1>10, <1>11, <1>12, <1>13
     DEF MwNext, Works

\* What a worker records and plays is accounted for, in every order of its
\* commands, its encoder and its end: a file that was answered as written holds
\* every chunk the leg gave, up to the ends and failures the history records
\* (media/worker/media-worker.ts).
THEOREM WorkerIsSafe == MwSpec => []MediaWorkerSafe
<1>1. MwInit => MwInv
  BY MwInitHolds, WorkerAssumption
<1>2. MwInv /\ [MwNext]_mwVars => MwInv'
  BY MwStepHolds, WorkerAssumption
<1>3. MwInv => MediaWorkerSafe
  <2>. SUFFICES ASSUME MwInv PROVE MediaWorkerSafe
    OBVIOUS
  <2>1. MwTypes /\ Recorded /\ Played
    BY DEF MwInv
  <2>2. session.pending \in 0 .. MaxChunks /\ session.drain \in {"idle", "due", "writing"}
    <3>1. session.pending + session.encoded + Writing =< given /\ given \in 0 .. MaxChunks
      BY <2>1 DEF Recorded, AllIsHeld, Held, MwTypes
    <3>. QED
      BY <2>1, <3>1, SessionFields, WorkerAssumption
  <2>3. MwTypeOK
    BY <2>1, <2>2 DEF MwTypes, MwTypeOK
  <2>. QED
    BY <2>1, <2>3 DEF MediaWorkerSafe, Recorded, Played
<1>. QED
  BY <1>1, <1>2, <1>3, PTL DEF MwSpec

-----------------------------------------------------------------------------
(* The recordings of a leg: the invariant.                                 *)

Elems(l) == {l[i] : i \in 1 .. Len(l)}
Once(l) == \A i, j \in 1 .. Len(l) : l[i] = l[j] => i = j

\* The steps of a stop that stand in line for the lock, or hold it.
StopWaits == {"stop", "stopping", "finalize", "finalizing", "prune"}

\* The line of the lock is made of what waits for it, each in it once.
LineTells ==
    /\ Once(line)
    /\ \A r \in Rec : <<"start", r>> \in Elems(line) <=> start[r] \in {"queued", "ensuring"}
    /\ \A r \in Rec : <<"stop", r>> \in Elems(line) <=> stop[r] \in StopWaits
    /\ <<"migrate", None>> \in Elems(line) <=> migration # "none"
    /\ <<"clean", None>> \in Elems(line) <=> clean \in {"bridge", "remove"}

\* Who is in a section is the holder.
HolderIsFirst ==
    /\ \A r \in Rec : start[r] = "ensuring" => Turn(<<"start", r>>)
    /\ \A r \in Rec : stop[r] \in {"stopping", "finalizing"} => Turn(<<"stop", r>>)
    /\ migration = "moving" => Turn(<<"migrate", None>>)

\* s is the last start-up in line l.
Behind(l, s) ==
    \A i, j \in 1 .. Len(l) : \A q \in Rec : l[i] = <<"start", s>> /\ l[j] = <<"start", q>> => j <= i

\* The slot holds the latest start-up: none is still on its way to its section
\* when the slot is free or holds one that went further.
LatestHoldsSlot ==
    /\ \A r \in Rec : start[r] = "registered" => startup # None /\ start[startup] = "registered"
    /\ \A r \in Rec : start[r] \in {"queued", "ensuring"} =>
          startup # None /\ start[startup] \in {"registered", "queued", "ensuring"}
    /\ startup # None => Behind(line, startup)

\* What was not asked for does nothing, what is active is not being stopped,
\* and a global recording is stopped only when it has started.
AskedFirst ==
    \A r \in Rec :
       /\ kind[r] = "none" <=> start[r] = "none"
       /\ kind[r] = "none" => op[r] = "none" /\ stop[r] = "none"
       /\ op[r] = "active" => stop[r] = "none"
       /\ kind[r] = "global" /\ start[r] # "done" => stop[r] \in {"none", "own", "over"}

\* A section of a stop that began before the command of its start-up waits for
\* a start-up that cannot get the lock; past it, the command was sent.
StopAwaitsStart ==
    \A r \in Rec :
       /\ stop[r] = "stopping" /\ start[r] \in {"registered", "queued", "ensuring", "ensured"} =>
             waitsFor[r] # None /\ start[waitsFor[r]] \in {"registered", "queued"}
       /\ stop[r] \in {"finalize", "finalizing", "prune"} \/ op[r] = "finished" =>
             start[r] \in {"sent", "refused", "done", "failed"}

\* A worker that is not the home of the leg records what came too late.
OnlyHomeRecords == \A r \in Rec, w \in Worker : w # home /\ r \in rec[w] => r \in overtaken

\* So does one that records what was stopped.
StoppedIsSilent ==
    \A r \in Rec, w \in Worker :
       stop[r] \in {"finalize", "finalizing", "prune"} \/ op[r] = "finished" =>
          (r \in rec[w] => r \in overtaken)

\* When the clean-up is over no section can make an endpoint any more.
CleanIsLast ==
    clean = "over" => /\ leg = "gone" /\ home = None /\ migration # "moving"
                      /\ \A r \in Rec : start[r] # "ensuring"

\* The part about the lock of the leg, and the one about its workers.
LockInv == LineTells /\ HolderIsFirst /\ LatestHoldsSlot /\ AskedFirst /\ StopAwaitsStart
WorkersInv == OnlyHomeRecords /\ StoppedIsSilent /\ CleanIsLast
RcInv == TypeOK /\ LockInv /\ WorkersInv

\* A job that joins a line is its last; the line keeps its holder.
LEMMA JobJoins ==
    ASSUME NEW l \in Seq(Jobs), NEW j \in Jobs, Once(l), j \notin Elems(l)
    PROVE  /\ Append(l, j) \in Seq(Jobs) /\ Append(l, j) # <<>> /\ Once(Append(l, j))
           /\ \A x : x \in Elems(Append(l, j)) <=> x \in Elems(l) \/ x = j
           /\ l # <<>> => Head(Append(l, j)) = Head(l)
<1>1. /\ Append(l, j) \in Seq(Jobs) /\ Len(Append(l, j)) = Len(l) + 1 /\ Len(l) \in Nat
      /\ Append(l, j)[Len(l) + 1] = j
      /\ \A i \in 1 .. Len(l) : Append(l, j)[i] = l[i]
  OBVIOUS
<1>2. \A i : i \in 1 .. Len(l) + 1 <=> i \in 1 .. Len(l) \/ i = Len(l) + 1
  BY <1>1
<1>3. \A i \in 1 .. Len(l) : l[i] # j
  BY DEF Elems
<1>4. Once(Append(l, j))
  BY <1>1, <1>2, <1>3 DEF Once
<1>5. \A x : x \in Elems(Append(l, j)) <=> x \in Elems(l) \/ x = j
  BY <1>1, <1>2 DEF Elems
<1>6. Append(l, j) # <<>> /\ (l # <<>> => Head(Append(l, j)) = Head(l))
  <2>1. Append(l, j) # <<>>
    BY <1>1
  <2>2. ASSUME l # <<>> PROVE Head(Append(l, j)) = Head(l)
    <3>1. 1 \in 1 .. Len(l) /\ Head(l) = l[1] /\ Head(Append(l, j)) = Append(l, j)[1]
      BY <2>1, <2>2, <1>1
    <3>. QED
      BY <3>1, <1>1
  <2>. QED
    BY <2>1, <2>2
<1>. QED
  BY <1>1, <1>4, <1>5, <1>6

\* The holder leaves a line.
LEMMA JobLeaves ==
    ASSUME NEW l \in Seq(Jobs), Once(l), l # <<>>
    PROVE  /\ Tail(l) \in Seq(Jobs) /\ Once(Tail(l))
           /\ \A x : x \in Elems(Tail(l)) <=> x \in Elems(l) /\ x # Head(l)
           /\ Head(l) \in Elems(l)
<1>1. /\ Tail(l) \in Seq(Jobs) /\ Len(Tail(l)) = Len(l) - 1 /\ Len(l) \in Nat \ {0}
      /\ \A i \in 1 .. Len(l) - 1 : Tail(l)[i] = l[i + 1]
      /\ Head(l) = l[1]
  OBVIOUS
<1>2. \A i \in 1 .. Len(l) - 1 : i + 1 \in 1 .. Len(l) /\ i + 1 # 1
  BY <1>1
<1>3. \A i \in 1 .. Len(l) : i = 1 \/ (i - 1 \in 1 .. Len(l) - 1 /\ i = (i - 1) + 1)
  BY <1>1
<1>4. 1 \in 1 .. Len(l)
  BY <1>1
<1>5. Once(Tail(l))
  BY <1>1, <1>2 DEF Once
<1>6. ASSUME NEW x PROVE x \in Elems(Tail(l)) <=> x \in Elems(l) /\ x # Head(l)
  <2>1. ASSUME x \in Elems(Tail(l)) PROVE x \in Elems(l) /\ x # Head(l)
    <3>1. PICK i \in 1 .. Len(l) - 1 : x = l[i + 1]
      BY <2>1, <1>1 DEF Elems
    <3>. QED
      BY <3>1, <1>1, <1>2, <1>4 DEF Elems, Once
  <2>2. ASSUME x \in Elems(l), x # Head(l) PROVE x \in Elems(Tail(l))
    <3>1. PICK i \in 1 .. Len(l) : x = l[i]
      BY <2>2 DEF Elems
    <3>2. i - 1 \in 1 .. Len(Tail(l)) /\ Tail(l)[i - 1] = l[i]
      BY <3>1, <2>2, <1>1, <1>3
    <3>. QED
      BY <3>1, <3>2 DEF Elems
  <2>. QED
    BY <2>1, <2>2
<1>7. Head(l) \in Elems(l)
  BY <1>1, <1>4 DEF Elems
<1>. QED
  BY <1>1, <1>5, <1>6, <1>7

\* A start-up stays the last in line until another joins; one that is in no
\* line or has just joined is; and the last one leaves no other behind.
LEMMA LastInLine ==
    ASSUME NEW l \in Seq(Jobs), NEW s \in Rec
    PROVE  /\ l # <<>> /\ Behind(l, s) => Behind(Tail(l), s)
           /\ \A j \in Jobs : Behind(l, s) /\ (\A q \in Rec : j # <<"start", q>>) =>
                 Behind(Append(l, j), s)
           /\ <<"start", s>> \notin Elems(l) =>
                 Behind(l, s) /\ Behind(Append(l, <<"start", s>>), s)
           /\ l # <<>> /\ Head(l) = <<"start", s>> /\ Behind(l, s) /\ Once(l) =>
                 \A q \in Rec : <<"start", q>> \in Elems(l) => q = s
<1>1. /\ Len(l) \in Nat
      /\ l # <<>> => /\ Len(Tail(l)) = Len(l) - 1 /\ Head(l) = l[1]
                     /\ \A i \in 1 .. Len(l) - 1 : Tail(l)[i] = l[i + 1] /\ i + 1 \in 1 .. Len(l)
  OBVIOUS
<1>2. \A j \in Jobs : /\ Len(Append(l, j)) = Len(l) + 1
                      /\ Append(l, j)[Len(l) + 1] = j
                      /\ \A i \in 1 .. Len(l) : Append(l, j)[i] = l[i]
  OBVIOUS
<1>3. \A i : i \in 1 .. Len(l) + 1 <=> i \in 1 .. Len(l) \/ i = Len(l) + 1
  BY <1>1
<1>4. ASSUME l # <<>>, Behind(l, s) PROVE Behind(Tail(l), s)
  <2>. SUFFICES ASSUME NEW i \in 1 .. Len(l) - 1, NEW j \in 1 .. Len(l) - 1, NEW q \in Rec,
                       l[i + 1] = <<"start", s>>, l[j + 1] = <<"start", q>>
                PROVE  j <= i
    BY <1>1, <1>4 DEF Behind
  <2>1. i + 1 \in 1 .. Len(l) /\ j + 1 \in 1 .. Len(l)
    BY <1>1, <1>4
  <2>2. j + 1 <= i + 1
    BY <2>1, <1>4 DEF Behind
  <2>. QED
    BY <2>2
<1>5. ASSUME NEW j \in Jobs, Behind(l, s), \A q \in Rec : j # <<"start", q>>
      PROVE  Behind(Append(l, j), s)
  <2>1. \A i \in 1 .. Len(l) + 1 : \A q \in Rec :
            Append(l, j)[i] = <<"start", q>> => i \in 1 .. Len(l) /\ l[i] = <<"start", q>>
    BY <1>1, <1>2, <1>3, <1>5
  <2>. QED
    BY <1>2, <1>5, <2>1 DEF Behind
<1>6. ASSUME <<"start", s>> \notin Elems(l)
      PROVE  Behind(l, s) /\ Behind(Append(l, <<"start", s>>), s)
  <2>1. \A i \in 1 .. Len(l) : l[i] # <<"start", s>>
    BY <1>6 DEF Elems
  <2>2. <<"start", s>> \in Jobs
    BY DEF Jobs
  <2>3. \A i, j \in 1 .. Len(l) + 1 : Append(l, <<"start", s>>)[i] = <<"start", s>> => j <= i
    BY <1>1, <1>2, <1>3, <2>1, <2>2
  <2>. QED
    BY <1>2, <2>1, <2>2, <2>3 DEF Behind
<1>7. ASSUME l # <<>>, Head(l) = <<"start", s>>, Behind(l, s), Once(l),
             NEW q \in Rec, <<"start", q>> \in Elems(l)
      PROVE  q = s
  <2>1. PICK j \in 1 .. Len(l) : l[j] = <<"start", q>>
    BY <1>7 DEF Elems
  <2>2. 1 \in 1 .. Len(l) /\ l[1] = <<"start", s>>
    BY <1>1, <1>7
  <2>3. j <= 1
    BY <2>1, <2>2, <1>7 DEF Behind
  <2>4. j = 1
    BY <2>1, <2>3
  <2>. QED
    BY <2>1, <2>2, <2>4
<1>. QED
  BY <1>4, <1>5, <1>6, <1>7

\* Jobs of different kinds, or of different recordings, are different.
LEMMA TheJobs ==
    /\ \A r \in Rec : <<"start", r>> \in Jobs /\ <<"stop", r>> \in Jobs
    /\ <<"migrate", None>> \in Jobs /\ <<"clean", None>> \in Jobs
    /\ None \notin Rec /\ None \notin Worker
BY RecordingAssumption DEF Jobs

\* The leg, empty-handed.
LEMMA RcInitHolds == Init => RcInv
<1>. SUFFICES ASSUME Init PROVE RcInv
  OBVIOUS
<1>1. TypeOK
  BY TheJobs DEF Init, TypeOK
<1>2. Elems(line) = {} /\ Once(line)
  BY DEF Init, Elems, Once
<1>3. LockInv
  BY <1>1, <1>2 DEF Init, LockInv, LineTells, HolderIsFirst, LatestHoldsSlot, AskedFirst,
     StopAwaitsStart, StopWaits
<1>4. WorkersInv
  BY <1>1 DEF Init, WorkersInv, OnlyHomeRecords, StoppedIsSilent, CleanIsLast
<1>. QED
  BY <1>1, <1>3, <1>4 DEF RcInv

\* A step that records nothing new, stops nothing and starts no section.
LEMMA WorkersRest ==
    ASSUME RcInv, UNCHANGED <<home, rec, overtaken>>,
           \A r \in Rec : /\ stop'[r] \in {"finalize", "finalizing", "prune"} =>
                                stop[r] \in {"finalize", "finalizing", "prune"}
                          /\ op'[r] = "finished" => op[r] = "finished" \/ stop[r] = "prune",
           clean' = "over" => clean = "over",
           leg' = leg \/ leg' = "gone" \/ leg = "live",
           \A r \in Rec : clean = "over" /\ start'[r] = "ensuring" => start[r] = "ensuring",
           clean = "over" /\ migration' = "moving" => migration = "moving"
    PROVE  WorkersInv'
<1>1. OnlyHomeRecords'
  BY DEF RcInv, WorkersInv, OnlyHomeRecords
<1>2. StoppedIsSilent'
  BY DEF RcInv, WorkersInv, StoppedIsSilent
<1>3. CleanIsLast'
  BY DEF RcInv, WorkersInv, CleanIsLast
<1>. QED
  BY <1>1, <1>2, <1>3 DEF WorkersInv

\* A step that leaves the line alone, and takes a start-up further that is past
\* its section.
LEMMA LockRests ==
    ASSUME RcInv, UNCHANGED <<line, kind, op, stop, waitsFor, migration>>,
           clean' \in {"bridge", "remove"} <=> clean \in {"bridge", "remove"},
           \A r \in Rec : \/ start'[r] = start[r]
                          \/ start[r] = "ensured" /\ start'[r] \in {"sent", "refused"}
                          \/ start[r] = "sent" /\ start'[r] = "done",
           startup' = startup \/ (startup \in Rec /\ start[startup] = "sent" /\ startup' = None)
    PROVE  LockInv'
<1>1. /\ TypeOK /\ LineTells /\ HolderIsFirst /\ LatestHoldsSlot /\ AskedFirst /\ StopAwaitsStart
      /\ startup # None => startup \in Rec
  BY DEF RcInv, LockInv, TypeOK
<1>2. LineTells'
  BY <1>1 DEF LineTells
<1>3. HolderIsFirst'
  BY <1>1 DEF HolderIsFirst, Turn
<1>4. LatestHoldsSlot'
  <2>1. \A r \in Rec : start'[r] \in {"registered", "queued", "ensuring"} => start'[r] = start[r]
    BY <1>1
  <2>2. \A r \in Rec : start[r] \in {"registered", "queued", "ensuring"} => start'[r] = start[r]
    BY <1>1
  <2>. QED
    BY <1>1, <2>1, <2>2 DEF LatestHoldsSlot
<1>5. AskedFirst'
  BY <1>1 DEF AskedFirst
<1>6. StopAwaitsStart'
  <2>. SUFFICES ASSUME NEW r \in Rec
                PROVE  /\ stop[r] = "stopping" /\ start'[r] \in {"registered", "queued", "ensuring", "ensured"} =>
                             waitsFor[r] # None /\ start'[waitsFor[r]] \in {"registered", "queued"}
                       /\ stop[r] \in {"finalize", "finalizing", "prune"} \/ op[r] = "finished" =>
                             start'[r] \in {"sent", "refused", "done", "failed"}
    BY DEF StopAwaitsStart
  <2>1. waitsFor[r] # None => waitsFor[r] \in Rec
    BY <1>1 DEF TypeOK
  <2>. QED
    BY <1>1, <2>1 DEF StopAwaitsStart
<1>. QED
  BY <1>2, <1>3, <1>4, <1>5, <1>6 DEF LockInv

\* A step that moves a stop, and the job of it in the line.
LEMMA StopInLine ==
    ASSUME RcInv, NEW r \in Rec, NEW s, stop' = [stop EXCEPT ![r] = s],
           UNCHANGED <<start, startup, migration>>, clean' = clean,
           \/ /\ line' = line /\ (s \in StopWaits <=> stop[r] \in StopWaits)
              /\ s \in {"stopping", "finalizing"} => Turn(<<"stop", r>>)
           \/ line' = Append(line, <<"stop", r>>) /\ stop[r] \notin StopWaits /\ s = "stop"
           \/ Turn(<<"stop", r>>) /\ line' = Tail(line) /\ s = "over"
           \/ /\ Turn(<<"stop", r>>) /\ line' = Append(Tail(line), <<"stop", r>>)
              /\ s \in {"finalize", "prune"}
    PROVE  line' \in Seq(Jobs) /\ LineTells' /\ HolderIsFirst' /\ LatestHoldsSlot'
<1>. DEFINE j == <<"stop", r>>
<1>1. /\ TypeOK /\ LineTells /\ HolderIsFirst /\ LatestHoldsSlot
      /\ line \in Seq(Jobs) /\ Once(line) /\ j \in Jobs
      /\ stop \in [Rec -> {"none", "own", "over"} \cup StopWaits]
      /\ startup # None => startup \in Rec
  BY TheJobs DEF RcInv, LockInv, TypeOK, LineTells, StopWaits
<1>2. /\ stop'[r] = s /\ \A q \in Rec \ {r} : stop'[q] = stop[q]
      /\ \A q \in Rec : j # <<"start", q>>
      /\ j # <<"migrate", None>> /\ j # <<"clean", None>>
      /\ \A q \in Rec \ {r} : j # <<"stop", q>>
  BY <1>1
<1>3. CASE /\ line' = line /\ (s \in StopWaits <=> stop[r] \in StopWaits)
           /\ s \in {"stopping", "finalizing"} => Turn(j)
  <2>1. LineTells'
    BY <1>1, <1>2, <1>3 DEF LineTells
  <2>2. HolderIsFirst'
    BY <1>1, <1>2, <1>3 DEF HolderIsFirst, Turn
  <2>. QED
    BY <1>1, <1>3, <2>1, <2>2 DEF LatestHoldsSlot
<1>4. CASE line' = Append(line, j) /\ stop[r] \notin StopWaits /\ s = "stop"
  <2>1. j \notin Elems(line)
    BY <1>1, <1>4 DEF LineTells
  <2>2. /\ line' \in Seq(Jobs) /\ line' # <<>> /\ Once(line')
        /\ \A x : x \in Elems(line') <=> x \in Elems(line) \/ x = j
        /\ line # <<>> => Head(line') = Head(line)
    BY <1>1, <1>4, <2>1, JobJoins
  <2>3. LineTells'
    BY <1>1, <1>2, <1>4, <2>2 DEF LineTells, StopWaits
  <2>4. HolderIsFirst'
    BY <1>1, <1>2, <1>4, <2>2 DEF HolderIsFirst, Turn
  <2>5. startup # None => Behind(line', startup)
    BY <1>1, <1>2, <1>4, LastInLine DEF LatestHoldsSlot
  <2>. QED
    BY <1>1, <2>2, <2>3, <2>4, <2>5 DEF LatestHoldsSlot
<1>5. ASSUME Turn(j)
      PROVE  /\ Tail(line) \in Seq(Jobs) /\ Once(Tail(line)) /\ j \notin Elems(Tail(line))
             /\ \A x : x \in Elems(Tail(line)) <=> x \in Elems(line) /\ x # j
             /\ startup # None => Behind(Tail(line), startup)
             /\ j \in Elems(line)
  BY <1>1, <1>5, JobLeaves, LastInLine DEF Turn, LatestHoldsSlot
<1>6. ASSUME Turn(j)
      PROVE  /\ \A q \in Rec : start[q] # "ensuring"
             /\ \A q \in Rec \ {r} : stop[q] \notin {"stopping", "finalizing"}
             /\ migration # "moving"
  BY <1>1, <1>2, <1>6 DEF HolderIsFirst, Turn
<1>7. CASE Turn(j) /\ line' = Tail(line) /\ s = "over"
  <2>1. LineTells'
    BY <1>1, <1>2, <1>5, <1>7 DEF LineTells, StopWaits
  <2>2. HolderIsFirst'
    BY <1>2, <1>6, <1>7 DEF HolderIsFirst
  <2>. QED
    BY <1>1, <1>5, <1>7, <2>1, <2>2 DEF LatestHoldsSlot
<1>8. CASE Turn(j) /\ line' = Append(Tail(line), j) /\ s \in {"finalize", "prune"}
  <2>1. /\ line' \in Seq(Jobs) /\ Once(line')
        /\ \A x : x \in Elems(line') <=> x \in Elems(Tail(line)) \/ x = j
    BY <1>1, <1>5, <1>8, JobJoins
  <2>2. LineTells'
    BY <1>1, <1>2, <1>5, <1>8, <2>1 DEF LineTells, StopWaits
  <2>3. HolderIsFirst'
    BY <1>2, <1>6, <1>8 DEF HolderIsFirst
  <2>4. startup # None => Behind(line', startup)
    BY <1>1, <1>2, <1>5, <1>8, LastInLine
  <2>. QED
    BY <1>1, <2>1, <2>2, <2>3, <2>4 DEF LatestHoldsSlot
<1>. QED
  BY <1>3, <1>4, <1>7, <1>8

\* A recording is asked for and registers its start-up.
LEMMA AskSteps ==
    ASSUME RcInv, NEW r \in Rec, NEW k \in {"media", "global"}, Asked(r, k)
    PROVE  RcInv'
<1>1. /\ TypeOK /\ LineTells /\ HolderIsFirst /\ LatestHoldsSlot /\ AskedFirst /\ StopAwaitsStart
      /\ line \in Seq(Jobs) /\ r # None
      /\ start[r] = "none" /\ op[r] = "none" /\ stop[r] = "none"
  BY TheJobs DEF RcInv, LockInv, TypeOK, AskedFirst, Asked
<1>2. /\ start'[r] = "registered" /\ op'[r] = "active" /\ kind'[r] = k /\ startup' = r
      /\ \A q \in Rec \ {r} : start'[q] = start[q] /\ op'[q] = op[q] /\ kind'[q] = kind[q]
      /\ UNCHANGED <<leg, target, stop, waitsFor, line, migration, home, rec, snap, overtaken,
                     clean, cleanFor>>
  BY <1>1 DEF Asked, TypeOK, worker, cleaning
<1>3. TypeOK'
  BY <1>1, <1>2 DEF Asked, TypeOK, InFlight
<1>4. LineTells' /\ HolderIsFirst'
  BY <1>1, <1>2 DEF LineTells, HolderIsFirst, Turn
<1>5. LatestHoldsSlot'
  <2>1. Behind(line, r)
    BY <1>1, LastInLine DEF LineTells
  <2>. QED
    BY <1>1, <1>2, <2>1 DEF LatestHoldsSlot
<1>6. AskedFirst'
  BY <1>1, <1>2 DEF AskedFirst
<1>7. StopAwaitsStart'
  BY <1>1, <1>2 DEF StopAwaitsStart, TypeOK
<1>8. WorkersInv'
  BY <1>2, WorkersRest
<1>. QED
  BY <1>3, <1>4, <1>5, <1>6, <1>7, <1>8 DEF RcInv, LockInv

\* Its start-up joins the line for its section.
LEMMA JoinSteps ==
    ASSUME RcInv, NEW r \in Rec, StartJoins(r)
    PROVE  RcInv'
<1>. DEFINE j == <<"start", r>>
<1>1. /\ TypeOK /\ LineTells /\ HolderIsFirst /\ LatestHoldsSlot /\ AskedFirst /\ StopAwaitsStart
      /\ line \in Seq(Jobs) /\ Once(line) /\ j \in Jobs /\ startup \in Rec \cup {None}
  BY TheJobs DEF RcInv, LockInv, TypeOK, LineTells
<1>2. /\ start[r] = "registered" /\ start'[r] = "queued" /\ line' = Append(line, j)
      /\ \A q \in Rec \ {r} : start'[q] = start[q]
      /\ start' \in [Rec -> {"none", "done", "failed"} \cup InFlight]
      /\ UNCHANGED <<leg, kind, op, target, startup, stop, waitsFor, migration, home, rec, snap,
                     overtaken, clean, cleanFor>>
  BY <1>1 DEF StartJoins, Join, TypeOK, InFlight, worker, cleaning
<1>3. /\ j \notin Elems(line)
      /\ line' \in Seq(Jobs) /\ line' # <<>> /\ Once(line')
      /\ \A x : x \in Elems(line') <=> x \in Elems(line) \/ x = j
      /\ line # <<>> => Head(line') = Head(line)
  <2>1. j \notin Elems(line)
    BY <1>1, <1>2 DEF LineTells
  <2>. QED
    BY <1>1, <1>2, <2>1, JobJoins
<1>4. TypeOK'
  BY <1>1, <1>2, <1>3 DEF TypeOK, InFlight
<1>5. LineTells'
  BY <1>1, <1>2, <1>3 DEF LineTells
<1>6. HolderIsFirst'
  BY <1>1, <1>2, <1>3 DEF HolderIsFirst, Turn
<1>7. LatestHoldsSlot'
  <2>1. startup \in Rec /\ start[startup] = "registered"
    BY <1>1, <1>2 DEF LatestHoldsSlot
  <2>2. startup = r => \A q \in Rec \ {r} : start[q] # "registered"
    BY DEF StartJoins
  <2>3. \A q \in Rec : start'[q] = "registered" => start'[startup] = "registered"
    BY <1>2, <2>1, <2>2
  <2>4. start'[startup] \in {"registered", "queued"}
    BY <1>2, <2>1
  <2>5. Behind(line', startup)
    <3>1. <<"start", startup>> \notin Elems(line)
      BY <1>1, <2>1 DEF LineTells
    <3>2. CASE startup = r
      BY <1>1, <1>2, <3>1, <3>2, LastInLine
    <3>3. CASE startup # r
      <4>1. <<"start", startup>> \notin Elems(line')
        BY <1>3, <3>1, <3>3
      <4>. QED
        BY <1>3, <2>1, <4>1, LastInLine
    <3>. QED
      BY <3>2, <3>3
  <2>. QED
    BY <1>2, <2>1, <2>3, <2>4, <2>5, TheJobs DEF LatestHoldsSlot
<1>8. AskedFirst' /\ StopAwaitsStart'
  <2>1. \A q \in Rec : waitsFor[q] # None => waitsFor[q] \in Rec
    BY <1>1 DEF TypeOK
  <2>. QED
    BY <1>1, <1>2, <2>1 DEF AskedFirst, StopAwaitsStart
<1>9. WorkersInv'
  BY <1>2, WorkersRest
<1>. QED
  BY <1>4, <1>5, <1>6, <1>7, <1>8, <1>9 DEF RcInv, LockInv

\* While a start-up has its turn no other section is entered, and when it is the
\* one of the slot no other start-up is in line.
LEMMA StartHasTurn ==
    ASSUME RcInv, NEW r \in Rec, Turn(<<"start", r>>)
    PROVE  /\ \A q \in Rec : stop[q] \notin {"stopping", "finalizing"}
           /\ \A q \in Rec \ {r} : start[q] # "ensuring"
           /\ migration # "moving"
           /\ startup = r => \A q \in Rec \ {r} : start[q] \notin {"queued", "ensuring"}
           /\ line # <<>> /\ Tail(line) \in Seq(Jobs) /\ Once(Tail(line))
           /\ \A x : x \in Elems(Tail(line)) <=> x \in Elems(line) /\ x # <<"start", r>>
           /\ startup # None => Behind(Tail(line), startup)
<1>1. /\ TypeOK /\ LineTells /\ HolderIsFirst /\ LatestHoldsSlot
      /\ line \in Seq(Jobs) /\ Once(line) /\ startup \in Rec \cup {None} /\ r # None
      /\ line # <<>> /\ Head(line) = <<"start", r>>
  BY TheJobs DEF RcInv, LockInv, TypeOK, LineTells, Turn
<1>2. /\ \A q \in Rec : stop[q] \notin {"stopping", "finalizing"}
      /\ \A q \in Rec \ {r} : start[q] # "ensuring"
      /\ migration # "moving"
  BY <1>1 DEF HolderIsFirst, Turn
<1>3. ASSUME startup = r, NEW q \in Rec \ {r}
      PROVE  start[q] \notin {"queued", "ensuring"}
  <2>1. Behind(line, r)
    BY <1>1, <1>3 DEF LatestHoldsSlot
  <2>2. <<"start", q>> \notin Elems(line)
    BY <1>1, <1>3, <2>1, LastInLine
  <2>. QED
    BY <1>1, <2>2 DEF LineTells
<1>4. startup # None => Behind(Tail(line), startup)
  BY <1>1, LastInLine DEF LatestHoldsSlot
<1>. QED
  BY <1>1, <1>2, <1>3, <1>4, JobLeaves

\* It enters its section, and leaves it with the endpoint of the leg.
LEMMA EnsureSteps ==
    ASSUME RcInv, NEW r \in Rec, EnsureBegins(r) \/ Ensured(r)
    PROVE  RcInv'
<1>1. /\ TypeOK /\ LineTells /\ HolderIsFirst /\ LatestHoldsSlot /\ AskedFirst /\ StopAwaitsStart
      /\ OnlyHomeRecords /\ StoppedIsSilent /\ CleanIsLast
      /\ line \in Seq(Jobs) /\ startup \in Rec \cup {None} /\ None \notin Rec
      /\ \A q \in Rec : waitsFor[q] # None => waitsFor[q] \in Rec
  BY TheJobs DEF RcInv, LockInv, WorkersInv, TypeOK
<1>2. Turn(<<"start", r>>) /\ start[r] \in {"queued", "ensuring"}
  BY <1>1 DEF EnsureBegins, Ensured, HolderIsFirst
<1>3. /\ start'[r] \in {"ensuring", "ensured"} /\ \A q \in Rec \ {r} : start'[q] = start[q]
      /\ start' \in [Rec -> {"none", "done", "failed"} \cup InFlight]
      /\ \/ start'[r] = "ensuring" /\ line' = line /\ leg = "live" /\ UNCHANGED <<home, target>>
         \/ /\ start'[r] = "ensured" /\ line' = Tail(line) /\ leg # "gone" /\ home' \in Worker
            /\ home = None \/ home' = home
            /\ target' \in [Rec -> Worker \cup {None}]
      /\ UNCHANGED <<leg, kind, op, startup, stop, waitsFor, migration, rec, snap, overtaken,
                     clean, cleanFor>>
  <2>1. CASE EnsureBegins(r)
    BY <1>1, <2>1 DEF EnsureBegins, TypeOK, InFlight, worker, cleaning
  <2>2. CASE Ensured(r)
    <3>1. PICK w \in Worker : /\ home = None \/ w = home
                             /\ home' = w /\ target' = [target EXCEPT ![r] = w]
      BY <2>2 DEF Ensured
    <3>. QED
      BY <1>1, <2>2, <3>1 DEF Ensured, Leave, TypeOK, InFlight, cleaning
  <2>. QED
    BY <2>1, <2>2
<1>4. TypeOK'
  BY <1>1, <1>2, <1>3, StartHasTurn DEF TypeOK, InFlight
<1>5. LineTells' /\ HolderIsFirst'
  BY <1>1, <1>2, <1>3, StartHasTurn DEF LineTells, HolderIsFirst, Turn
<1>6. LatestHoldsSlot'
  <2>1. \A q \in Rec : start[q] = "registered" => startup # None /\ startup # r
    BY <1>1, <1>2 DEF LatestHoldsSlot
  <2>2. \A q \in Rec \ {r} : start[q] \in {"queued", "ensuring"} => startup # None /\ startup # r
    BY <1>1, <1>2, StartHasTurn DEF LatestHoldsSlot
  <2>3. startup # None => Behind(line', startup)
    BY <1>1, <1>2, <1>3, StartHasTurn DEF LatestHoldsSlot
  <2>. QED
    BY <1>1, <1>2, <1>3, <2>1, <2>2, <2>3 DEF LatestHoldsSlot
<1>7. AskedFirst'
  BY <1>1, <1>2, <1>3 DEF AskedFirst
<1>8. StopAwaitsStart'
  BY <1>1, <1>2, <1>3, StartHasTurn DEF StopAwaitsStart
<1>9. OnlyHomeRecords' /\ StoppedIsSilent' /\ CleanIsLast'
  BY <1>1, <1>3, TheJobs DEF OnlyHomeRecords, StoppedIsSilent, CleanIsLast
<1>. QED
  BY <1>4, <1>5, <1>6, <1>7, <1>8, <1>9 DEF RcInv, LockInv, WorkersInv

\* A start-up is rejected, in its section or after its command.
LEMMA FailSteps ==
    ASSUME RcInv, NEW r \in Rec,
           EnsureRefused(r) \/ EnsureFails(r) \/ StartRefused(r) \/ ReplyTooLate(r)
    PROVE  RcInv'
<1>. DEFINE rest == IF start[r] \in {"queued", "ensuring"} THEN Tail(line) ELSE line
            j == <<"stop", r>>
<1>1. /\ TypeOK /\ LineTells /\ HolderIsFirst /\ LatestHoldsSlot /\ AskedFirst /\ StopAwaitsStart
      /\ OnlyHomeRecords /\ StoppedIsSilent /\ CleanIsLast
      /\ line \in Seq(Jobs) /\ Once(line) /\ j \in Jobs
      /\ startup \in Rec \cup {None} /\ None \notin Rec
      /\ \A q \in Rec : waitsFor[q] # None => waitsFor[q] \in Rec
  BY TheJobs DEF RcInv, LockInv, WorkersInv, TypeOK, LineTells
<1>2. /\ start[r] \in {"queued", "ensuring", "sent", "refused"}
      /\ StartFails(r, rest)
      /\ start[r] \in {"queued", "ensuring"} => Turn(<<"start", r>>)
      /\ UNCHANGED <<rec, overtaken>>
      /\ home' \in Worker \cup {None} /\ (home' = home \/ (home = None /\ start[r] = "ensuring"))
      /\ snap' \subseteq Rec
  <2>1. CASE EnsureRefused(r)
    BY <1>1, <2>1 DEF EnsureRefused, worker, TypeOK
  <2>2. CASE EnsureFails(r)
    BY <1>1, <2>2 DEF EnsureFails, HolderIsFirst, TypeOK
  <2>3. CASE StartRefused(r)
    BY <1>1, <2>3 DEF StartRefused, worker, TypeOK
  <2>4. CASE ReplyTooLate(r)
    <3>1. snap' \subseteq Rec
      BY <1>1, <2>4 DEF ReplyTooLate, Learned, OfKind, TypeOK
    <3>. QED
      BY <1>1, <2>4, <3>1 DEF ReplyTooLate, TypeOK
  <2>. QED
    BY <2>1, <2>2, <2>3, <2>4
<1>3. /\ start'[r] = "failed" /\ \A q \in Rec \ {r} : start'[q] = start[q]
      /\ start' \in [Rec -> {"none", "done", "failed"} \cup InFlight]
      /\ target' \in [Rec -> Worker \cup {None}]
      /\ startup' = (IF startup = r THEN None ELSE startup)
      /\ UNCHANGED <<leg, kind, waitsFor, migration, clean, cleanFor>>
  BY <1>1, <1>2 DEF StartFails, SlotFreed, TypeOK, InFlight, cleaning
<1>4. /\ \A q \in Rec \ {r} : op'[q] = op[q] /\ stop'[q] = stop[q]
      /\ \/ /\ kind[r] = "media" /\ op[r] = "active" /\ op'[r] = "stopping" /\ stop'[r] = "stop"
            /\ line' = Append(rest, j)
         \/ kind[r] = "media" /\ op'[r] = op[r] /\ stop'[r] = stop[r] /\ line' = rest /\ op[r] # "active"
         \/ kind[r] = "global" /\ op'[r] = "failed" /\ stop'[r] = "over" /\ line' = rest
      /\ op' \in [Rec -> {"none", "active", "stopping", "finished", "failed"}]
      /\ stop' \in [Rec -> {"none", "own", "stop", "stopping", "finalize", "finalizing", "prune", "over"}]
  BY <1>1, <1>2 DEF StartFails, TypeOK
<1>5. /\ kind[r] = "global" => stop[r] \in {"none", "own", "over"}
      /\ op[r] = "active" => stop[r] = "none"
  BY <1>1, <1>2 DEF AskedFirst
<1>6. /\ rest \in Seq(Jobs) /\ Once(rest)
      /\ \A x : x \in Elems(rest) <=> x \in Elems(line) /\ x # <<"start", r>>
      /\ startup' # None => Behind(rest, startup')
  <2>1. CASE start[r] \in {"queued", "ensuring"}
    BY <1>1, <1>2, <1>3, <2>1, StartHasTurn
  <2>2. CASE start[r] \notin {"queued", "ensuring"}
    <3>1. <<"start", r>> \notin Elems(line)
      BY <1>1, <2>2 DEF LineTells
    <3>. QED
      BY <1>1, <1>3, <2>2, <3>1 DEF LatestHoldsSlot
  <2>. QED
    BY <2>1, <2>2
<1>7. /\ line' \in Seq(Jobs) /\ Once(line')
      /\ \A x : x \in Elems(line') <=>
            x \in Elems(rest) \/ (x = j /\ kind[r] = "media" /\ op[r] = "active")
      /\ startup' # None => Behind(line', startup')
      /\ rest # <<>> => line' # <<>> /\ Head(line') = Head(rest)
  <2>1. CASE line' = rest
    <3>1. kind[r] = "media" => op[r] # "active"
      <4>1. ASSUME kind[r] = "media", op[r] = "active" PROVE FALSE
        <5>1. line' = Append(rest, j)
          BY <1>4, <4>1
        <5>. HIDE DEF rest, j
        <5>2. Len(Append(rest, j)) = Len(rest) + 1 /\ Len(rest) \in Nat
          BY <1>1, <1>6
        <5>. QED
          BY <2>1, <5>1, <5>2
      <4>. QED
        BY <4>1
    <3>. QED
      BY <1>6, <2>1, <3>1
  <2>2. CASE kind[r] = "media" /\ op[r] = "active" /\ line' = Append(rest, j)
    <3>1. j \notin Elems(line)
      BY <1>1, <1>5, <2>2 DEF LineTells, StopWaits
    <3>2. j \notin Elems(rest)
      BY <1>6, <3>1
    <3>. HIDE DEF rest
    <3>3. /\ line' \in Seq(Jobs) /\ Once(line') /\ line' # <<>>
          /\ \A x : x \in Elems(line') <=> x \in Elems(rest) \/ x = j
          /\ rest # <<>> => Head(line') = Head(rest)
      BY <1>1, <1>6, <2>2, <3>2, JobJoins
    <3>4. startup' # None => Behind(line', startup')
      <4>1. startup' # None => startup' \in Rec
        BY <1>1, <1>3
      <4>2. \A q \in Rec : j # <<"start", q>>
        OBVIOUS
      <4>. QED
        BY <1>1, <1>6, <2>2, <4>1, <4>2, LastInLine
    <3>. QED
      BY <2>2, <3>3, <3>4
  <2>. QED
    BY <1>4, <2>1, <2>2
<1>8. TypeOK'
  BY <1>1, <1>2, <1>3, <1>4, <1>7 DEF TypeOK, InFlight
<1>9. LineTells'
  <2>1. \A q \in Rec : <<"start", q>> \in Elems(line') <=> start'[q] \in {"queued", "ensuring"}
    <3>. SUFFICES ASSUME NEW q \in Rec
                  PROVE  <<"start", q>> \in Elems(line') <=> start'[q] \in {"queued", "ensuring"}
      OBVIOUS
    <3>1. <<"start", q>> \in Elems(line) <=> start[q] \in {"queued", "ensuring"}
      BY <1>1 DEF LineTells
    <3>2. <<"start", q>> \in Elems(line') <=> <<"start", q>> \in Elems(line) /\ q # r
      <4>1. <<"start", q>> # j /\ (<<"start", q>> = <<"start", r>> <=> q = r)
        OBVIOUS
      <4>. HIDE DEF rest, j
      <4>. QED
        BY <1>6, <1>7, <4>1
    <3>. QED
      BY <1>3, <3>1, <3>2
  <2>2. \A q \in Rec : <<"stop", q>> \in Elems(line') <=> stop'[q] \in StopWaits
    <3>. SUFFICES ASSUME NEW q \in Rec
                  PROVE  <<"stop", q>> \in Elems(line') <=> stop'[q] \in StopWaits
      OBVIOUS
    <3>1. /\ <<"stop", q>> \in Elems(rest) <=> <<"stop", q>> \in Elems(line)
          /\ <<"stop", q>> \in Elems(line) <=> stop[q] \in StopWaits
      BY <1>1, <1>6 DEF LineTells
    <3>2. CASE q # r
      BY <1>4, <1>7, <3>1, <3>2
    <3>3. CASE q = r
      <4>1. <<"stop", r>> \in Elems(line') <=>
               (stop[r] \in StopWaits \/ (kind[r] = "media" /\ op[r] = "active"))
        BY <1>7, <3>1, <3>3
      <4>. HIDE DEF rest
      <4>2. stop'[r] \in StopWaits <=> (stop[r] \in StopWaits \/ (kind[r] = "media" /\ op[r] = "active"))
        BY <1>4, <1>5 DEF StopWaits
      <4>. QED
        BY <3>3, <4>1, <4>2
    <3>. QED
      BY <3>2, <3>3
  <2>3. /\ <<"migrate", None>> \in Elems(line') <=> migration' # "none"
        /\ <<"clean", None>> \in Elems(line') <=> clean' \in {"bridge", "remove"}
    BY <1>1, <1>3, <1>6, <1>7 DEF LineTells
  <2>. QED
    BY <1>7, <2>1, <2>2, <2>3 DEF LineTells
<1>10. HolderIsFirst'
  <2>1. CASE start[r] \in {"queued", "ensuring"}
    BY <1>2, <1>3, <1>4, <2>1, StartHasTurn DEF HolderIsFirst
  <2>2. CASE start[r] \notin {"queued", "ensuring"}
    BY <1>1, <1>3, <1>4, <1>7, <2>2 DEF HolderIsFirst, Turn
  <2>. QED
    BY <2>1, <2>2
<1>11. LatestHoldsSlot'
  <2>1. \A q \in Rec : start[q] = "registered" => startup # None /\ startup # r
    BY <1>1, <1>2 DEF LatestHoldsSlot
  <2>2. \A q \in Rec \ {r} : start[q] \in {"queued", "ensuring"} => startup # None /\ startup # r
    BY <1>1, <1>2, StartHasTurn DEF LatestHoldsSlot
  <2>. QED
    BY <1>1, <1>3, <1>7, <2>1, <2>2 DEF LatestHoldsSlot
<1>12. AskedFirst'
  BY <1>1, <1>2, <1>3, <1>4, <1>5 DEF AskedFirst
<1>13. StopAwaitsStart'
  <2>. SUFFICES ASSUME NEW q \in Rec
                PROVE  /\ stop'[q] = "stopping" /\ start'[q] \in {"registered", "queued", "ensuring", "ensured"} =>
                             waitsFor[q] # None /\ start'[waitsFor[q]] \in {"registered", "queued"}
                       /\ stop'[q] \in {"finalize", "finalizing", "prune"} \/ op'[q] = "finished" =>
                             start'[q] \in {"sent", "refused", "done", "failed"}
    BY <1>3 DEF StopAwaitsStart
  <2>1. CASE q = r
    BY <1>3, <2>1
  <2>2. CASE q # r
    <3>1. stop[q] = "stopping" => start[r] \notin {"queued", "ensuring"}
      BY <1>2, StartHasTurn
    <3>2. stop[q] = "stopping" /\ waitsFor[q] = r => start[r] \notin {"registered", "queued"}
      BY <1>2, <3>1
    <3>. QED
      BY <1>1, <1>3, <1>4, <2>2, <3>2 DEF StopAwaitsStart
  <2>. QED
    BY <2>1, <2>2
<1>14. OnlyHomeRecords' /\ StoppedIsSilent' /\ CleanIsLast'
  <2>1. CleanIsLast'
    BY <1>1, <1>2, <1>3 DEF CleanIsLast
  <2>2. OnlyHomeRecords'
    BY <1>1, <1>2, TheJobs DEF OnlyHomeRecords
  <2>3. \A q \in Rec : /\ stop'[q] \in {"finalize", "finalizing", "prune"} => stop'[q] = stop[q]
                       /\ op'[q] = "finished" => op'[q] = op[q]
    BY <1>4
  <2>. QED
    BY <1>1, <1>2, <2>1, <2>2, <2>3 DEF StoppedIsSilent
<1>. QED
  BY <1>8, <1>9, <1>10, <1>11, <1>12, <1>13, <1>14 DEF RcInv, LockInv, WorkersInv

\* A command is sent and answered.
LEMMA CommandSteps ==
    ASSUME RcInv, NEW r \in Rec, SendStart(r) \/ SendRefused(r) \/ StartReplied(r)
    PROVE  RcInv'
<1>1. /\ TypeOK /\ OnlyHomeRecords /\ StoppedIsSilent /\ CleanIsLast /\ StopAwaitsStart
      /\ startup \in Rec \cup {None}
  BY DEF RcInv, LockInv, WorkersInv, TypeOK
<1>2. /\ \A q \in Rec : \/ start'[q] = start[q]
                        \/ start[q] = "ensured" /\ start'[q] \in {"sent", "refused"}
                        \/ start[q] = "sent" /\ start'[q] = "done"
      /\ startup' = startup \/ (startup \in Rec /\ start[startup] = "sent" /\ startup' = None)
      /\ UNCHANGED <<line, kind, op, stop, waitsFor, migration, home, leg, clean, cleanFor>>
  BY <1>1 DEF SendStart, SendRefused, StartReplied, SlotFreed, TypeOK, worker, cleaning
<1>3. LockInv'
  BY <1>2, LockRests
<1>4. TypeOK' /\ WorkersInv'
  <2>1. CASE SendStart(r)
    <3>1. /\ start[r] = "ensured"
          /\ start' = [start EXCEPT ![r] = "sent"] /\ UNCHANGED <<target, startup, snap>>
          /\ rec' = [rec EXCEPT ![target[r]] = (@ \ OfKind(kind[r])) \cup {r}]
          /\ overtaken' = IF target[r] = home THEN overtaken ELSE overtaken \cup {r}
      BY <2>1 DEF SendStart
    <3>2. /\ rec' \in [Worker -> SUBSET Rec] /\ overtaken' \subseteq Rec /\ overtaken \subseteq overtaken'
          /\ \A w \in Worker : \A q \in rec'[w] : q \in rec[w] \/ (q = r /\ w = target[r])
      BY <1>1, <3>1 DEF TypeOK
    <3>3. TypeOK'
      BY <1>1, <1>2, <3>1, <3>2 DEF TypeOK, InFlight
    <3>4. OnlyHomeRecords'
      BY <1>1, <1>2, <3>1, <3>2 DEF OnlyHomeRecords
    <3>5. stop[r] \notin {"finalize", "finalizing", "prune"} /\ op[r] # "finished"
      BY <1>1, <3>1 DEF StopAwaitsStart
    <3>6. StoppedIsSilent'
      BY <1>1, <1>2, <3>2, <3>5 DEF StoppedIsSilent
    <3>7. CleanIsLast'
      BY <1>1, <1>2, <3>1 DEF CleanIsLast, TypeOK
    <3>. QED
      BY <3>3, <3>4, <3>6, <3>7 DEF WorkersInv
  <2>2. CASE SendRefused(r) \/ StartReplied(r)
    <3>1. UNCHANGED <<rec, overtaken>> /\ snap' \subseteq Rec
      BY <1>1, <2>2 DEF SendRefused, StartReplied, Learned, OfKind, TypeOK, worker
    <3>2. TypeOK'
      BY <1>1, <1>2, <2>2, <3>1 DEF SendRefused, StartReplied, SlotFreed, TypeOK, InFlight
    <3>3. \A q \in Rec : start'[q] = "ensuring" => start[q] = "ensuring"
      BY <1>2
    <3>. QED
      BY <1>2, <3>1, <3>2, <3>3, WorkersRest
  <2>. QED
    BY <2>1, <2>2
<1>. QED
  BY <1>3, <1>4 DEF RcInv

\* A stop is asked for, and joins the line for its first section.
LEMMA StopAskSteps ==
    ASSUME RcInv, NEW r \in Rec, StopBegins(r) \/ OwnStarted(r)
    PROVE  RcInv'
<1>. DEFINE s == stop'[r]
<1>1. /\ TypeOK /\ AskedFirst /\ StopAwaitsStart
      /\ \A q \in Rec : waitsFor[q] # None => waitsFor[q] \in Rec
  BY DEF RcInv, LockInv, TypeOK
<1>2. /\ s \in {"stop", "own"} /\ stop' = [stop EXCEPT ![r] = s]
      /\ stop[r] \in {"none", "own"} /\ kind[r] # "none"
      /\ op' \in [Rec -> {"none", "active", "stopping", "finished", "failed"}]
      /\ op'[r] # "active" /\ (op'[r] = "stopping" \/ op'[r] = op[r])
      /\ \A q \in Rec \ {r} : op'[q] = op[q]
      /\ \/ line' = line /\ s = "own"
         \/ line' = Append(line, <<"stop", r>>) /\ s = "stop"
      /\ kind[r] = "global" /\ start[r] # "done" => s = "own"
      /\ UNCHANGED <<leg, kind, start, target, startup, waitsFor, migration, home, rec, snap,
                     overtaken, clean, cleanFor>>
  BY <1>1 DEF StopBegins, OwnStarted, Join, TypeOK, AskedFirst, worker, cleaning
<1>3. /\ \A q \in Rec \ {r} : stop'[q] = stop[q]
      /\ stop' \in [Rec -> {"none", "own", "stop", "stopping", "finalize", "finalizing",
                            "prune", "over"}]
  BY <1>1, <1>2 DEF TypeOK
<1>4. line' \in Seq(Jobs) /\ LineTells' /\ HolderIsFirst' /\ LatestHoldsSlot'
  <2>1. stop[r] \notin StopWaits /\ "own" \notin StopWaits /\ s \notin {"stopping", "finalizing"}
    BY <1>2 DEF StopWaits
  <2>2. UNCHANGED <<start, startup, migration>> /\ clean' = clean
    BY <1>2
  <2>. HIDE DEF s
  <2>. QED
    BY <1>2, <2>1, <2>2, StopInLine
<1>5. TypeOK'
  BY <1>1, <1>2, <1>3, <1>4 DEF TypeOK
<1>6. AskedFirst'
  BY <1>1, <1>2, <1>3 DEF AskedFirst
<1>7. StopAwaitsStart'
  BY <1>1, <1>2, <1>3 DEF StopAwaitsStart
<1>8. WorkersInv'
  BY <1>2, <1>3, WorkersRest
<1>. QED
  BY <1>4, <1>5, <1>6, <1>7, <1>8 DEF RcInv, LockInv

\* A stop enters a section; no start-up has left its own without its command.
LEMMA EnterSteps ==
    ASSUME RcInv, NEW r \in Rec, EnterStop(r), \A q \in Rec : start[q] # "ensured"
    PROVE  RcInv'
<1>. DEFINE s == stop'[r]
<1>1. /\ TypeOK /\ HolderIsFirst /\ LatestHoldsSlot /\ AskedFirst /\ StopAwaitsStart
      /\ startup \in Rec \cup {None} /\ None \notin Rec
      /\ \A q \in Rec : waitsFor[q] # None => waitsFor[q] \in Rec
  BY TheJobs DEF RcInv, LockInv, TypeOK
<1>2. /\ Turn(<<"stop", r>>)
      /\ \/ stop[r] = "stop" /\ s = "stopping"
         \/ stop[r] = "finalize" /\ s = "finalizing"
      /\ stop' = [stop EXCEPT ![r] = s]
      /\ waitsFor' = [waitsFor EXCEPT ![r] = startup]
      /\ UNCHANGED <<leg, kind, op, start, target, startup, line, migration, home, rec, snap,
                     overtaken, clean, cleanFor>>
  BY <1>1 DEF EnterStop, Section, TypeOK, worker, cleaning
<1>3. /\ \A q \in Rec \ {r} : stop'[q] = stop[q] /\ waitsFor'[q] = waitsFor[q]
      /\ waitsFor'[r] = startup
      /\ stop' \in [Rec -> {"none", "own", "stop", "stopping", "finalize", "finalizing",
                            "prune", "over"}]
      /\ waitsFor' \in [Rec -> Rec \cup {None}]
  BY <1>1, <1>2 DEF TypeOK
<1>4. line' \in Seq(Jobs) /\ LineTells' /\ HolderIsFirst' /\ LatestHoldsSlot'
  <2>1. s \in StopWaits <=> stop[r] \in StopWaits
    BY <1>2 DEF StopWaits
  <2>2. UNCHANGED <<start, startup, migration>> /\ clean' = clean /\ line' = line
    BY <1>2
  <2>. HIDE DEF s
  <2>. QED
    BY <1>2, <2>1, <2>2, StopInLine
<1>5. TypeOK'
  BY <1>1, <1>2, <1>3, <1>4 DEF TypeOK
<1>6. AskedFirst'
  BY <1>1, <1>2, <1>3 DEF AskedFirst
<1>7. StopAwaitsStart'
  <2>1. \A q \in Rec : start[q] # "ensuring"
    BY <1>2 DEF RcInv, LockInv, HolderIsFirst, Turn
  <2>2. start[r] \in {"registered", "queued", "ensuring", "ensured"} =>
           startup # None /\ start[startup] \in {"registered", "queued"}
    BY <1>1, <2>1 DEF LatestHoldsSlot
  <2>. QED
    BY <1>1, <1>2, <1>3, <2>2 DEF StopAwaitsStart
<1>8. WorkersInv'
  BY <1>2, <1>3, WorkersRest
<1>. QED
  BY <1>4, <1>5, <1>6, <1>7, <1>8 DEF RcInv, LockInv

\* A stop leaves a section, and waits for the next or is over.
LEMMA SectionSteps ==
    ASSUME RcInv, NEW r \in Rec,
           StopRecording(r) \/ FinalizeRecording(r) \/ StopRejected(r) \/ Prune(r)
    PROVE  RcInv'
<1>. DEFINE s == stop'[r]
<1>1. /\ TypeOK /\ AskedFirst /\ StopAwaitsStart /\ OnlyHomeRecords /\ StoppedIsSilent /\ CleanIsLast
      /\ None \notin Rec /\ None \notin Worker
      /\ \A q \in Rec : waitsFor[q] # None => waitsFor[q] \in Rec
  BY TheJobs DEF RcInv, LockInv, WorkersInv, TypeOK
<1>2. /\ Turn(<<"stop", r>>) /\ stop' = [stop EXCEPT ![r] = s]
      /\ \/ stop[r] = "stopping" /\ s = "finalize"
         \/ stop[r] = "finalizing" /\ s = "prune"
         \/ stop[r] \in {"stopping", "finalizing", "prune"} /\ s = "over"
      /\ \/ line' = Tail(line) /\ s = "over"
         \/ line' = Append(Tail(line), <<"stop", r>>) /\ s \in {"finalize", "prune"}
      /\ s = "finalize" => Waited(r)
      /\ \A q \in Rec \ {r} : op'[q] = op[q]
      /\ op' \in [Rec -> {"none", "active", "stopping", "finished", "failed"}]
      /\ op'[r] = op[r] \/ op'[r] = "failed" \/ (op'[r] = "finished" /\ stop[r] = "prune")
      /\ waitsFor' \in [Rec -> Rec \cup {None}]
      /\ \A q \in Rec \ {r} : waitsFor'[q] = waitsFor[q]
      /\ UNCHANGED <<leg, kind, start, target, startup, migration, clean, cleanFor>>
  <2>1. CASE StopRecording(r)
    BY <1>1, <2>1 DEF StopRecording, Section, Waited, Leave, TypeOK, cleaning
  <2>2. CASE FinalizeRecording(r)
    BY <1>1, <2>2 DEF FinalizeRecording, Section, Waited, TypeOK, cleaning
  <2>3. CASE StopRejected(r)
    BY <1>1, <2>3 DEF StopRejected, Section, Leave, TypeOK, cleaning
  <2>4. CASE Prune(r)
    BY <1>1, <2>4 DEF Prune, Section, Leave, TypeOK, cleaning
  <2>. QED
    BY <2>1, <2>2, <2>3, <2>4
<1>3. /\ \A q \in Rec \ {r} : stop'[q] = stop[q]
      /\ stop' \in [Rec -> {"none", "own", "stop", "stopping", "finalize", "finalizing",
                            "prune", "over"}]
  BY <1>1, <1>2 DEF TypeOK
<1>4. line' \in Seq(Jobs) /\ LineTells' /\ HolderIsFirst' /\ LatestHoldsSlot'
  <2>1. UNCHANGED <<start, startup, migration>> /\ clean' = clean
    BY <1>2
  <2>. HIDE DEF s
  <2>. QED
    BY <1>2, <2>1, StopInLine
<1>5. /\ overtaken' = overtaken /\ rec' \in [Worker -> SUBSET Rec] /\ snap' \subseteq Rec
      /\ home' \in {home, None}
      /\ \A w \in Worker : rec'[w] \subseteq rec[w]
      /\ s = "finalize" /\ home \in Worker => r \notin rec'[home]
      /\ home' # home /\ home \in Worker => rec'[home] = {}
  <2>1. CASE StopRecording(r)
    <3>1. /\ rec' = IF home = None THEN rec ELSE [rec EXCEPT ![home] = @ \ {r}]
          /\ snap' = snap \ {r} /\ UNCHANGED <<home, overtaken>>
      BY <2>1 DEF StopRecording
    <3>. QED
      BY <1>1, <3>1 DEF TypeOK
  <2>2. CASE FinalizeRecording(r) \/ StopRejected(r)
    BY <1>1, <1>2, <2>2 DEF FinalizeRecording, StopRejected, Section, worker, TypeOK
  <2>3. CASE Prune(r)
    <3>1. s = "over"
      BY <1>1, <2>3 DEF Prune, Section, TypeOK
    <3>2. CASE UNCHANGED worker
      BY <1>1, <3>1, <3>2 DEF worker, TypeOK
    <3>3. CASE EndpointRemoved /\ home # None
      BY <1>1, <3>1, <3>3 DEF EndpointRemoved, TypeOK
    <3>. QED
      BY <2>3, <3>2, <3>3 DEF Prune
  <2>. QED
    BY <2>1, <2>2, <2>3
<1>6. TypeOK'
  BY <1>1, <1>2, <1>3, <1>4, <1>5 DEF TypeOK
<1>7. AskedFirst'
  <2>1. kind[r] # "none" /\ op[r] # "active" /\ (kind[r] = "global" => start[r] = "done")
    BY <1>1, <1>2 DEF AskedFirst
  <2>. QED
    BY <1>1, <1>2, <1>3, <2>1 DEF AskedFirst
<1>8. StopAwaitsStart'
  <2>1. s \in {"finalize", "prune"} \/ op'[r] = "finished" =>
            start[r] \in {"sent", "refused", "done", "failed"}
    <3>1. CASE s = "finalize"
      <4>1. stop[r] = "stopping" /\ (waitsFor[r] # None => start[waitsFor[r]] = "done")
        BY <1>2, <3>1 DEF Waited
      <4>2. start[r] \notin {"registered", "queued", "ensuring", "ensured"}
        BY <1>1, <4>1 DEF StopAwaitsStart
      <4>3. start[r] # "none"
        BY <1>1, <4>1 DEF AskedFirst
      <4>. QED
        BY <1>1, <4>2, <4>3 DEF TypeOK, InFlight
    <3>. QED
      BY <1>1, <1>2, <3>1 DEF StopAwaitsStart
  <2>. QED
    BY <1>1, <1>2, <1>3, <2>1 DEF StopAwaitsStart
<1>9. OnlyHomeRecords'
  BY <1>1, <1>2, <1>5 DEF OnlyHomeRecords, TypeOK
<1>10. StoppedIsSilent'
  <2>1. ASSUME NEW w \in Worker, s \in {"finalize", "prune"} \/ op'[r] = "finished", r \in rec'[w]
        PROVE  r \in overtaken
    <3>1. r \in rec[w]
      BY <1>5, <2>1
    <3>2. CASE s = "finalize"
      BY <1>1, <1>5, <2>1, <3>1, <3>2 DEF OnlyHomeRecords
    <3>. QED
      BY <1>1, <1>2, <2>1, <3>1, <3>2 DEF StoppedIsSilent
  <2>. QED
    BY <1>1, <1>2, <1>3, <1>5, <2>1 DEF StoppedIsSilent
<1>11. CleanIsLast'
  BY <1>1, <1>2, <1>5 DEF CleanIsLast
<1>. QED
  BY <1>4, <1>6, <1>7, <1>8, <1>9, <1>10, <1>11 DEF RcInv, LockInv, WorkersInv

\* A step that takes the move of the leg, or its clean-up, in or out of the line.
LEMMA OthersInLine ==
    ASSUME RcInv, UNCHANGED <<start, stop, kind, op, waitsFor, startup>>,
           NEW j \in {<<"migrate", None>>, <<"clean", None>>},
           \/ line' = Append(line, j) /\ j \notin Elems(line)
           \/ line' = Tail(line) /\ Turn(j)
    PROVE  /\ line' \in Seq(Jobs) /\ Once(line')
           /\ \A x : x # j => (x \in Elems(line') <=> x \in Elems(line))
           /\ j \in Elems(line') <=> j \notin Elems(line)
           /\ \A r \in Rec : start[r] = "ensuring" => Turn(<<"start", r>>)'
           /\ \A r \in Rec : stop[r] \in {"stopping", "finalizing"} => Turn(<<"stop", r>>)'
           /\ migration = "moving" /\ j # <<"migrate", None>> => Turn(<<"migrate", None>>)'
           /\ LatestHoldsSlot' /\ AskedFirst' /\ StopAwaitsStart'
<1>1. /\ TypeOK /\ LineTells /\ HolderIsFirst /\ LatestHoldsSlot /\ AskedFirst /\ StopAwaitsStart
      /\ line \in Seq(Jobs) /\ Once(line) /\ j \in Jobs /\ startup \in Rec \cup {None}
  BY TheJobs DEF RcInv, LockInv, TypeOK, LineTells
<1>. /\ j = <<"migrate", None>> \/ j = <<"clean", None>>
     /\ \A r \in Rec : j # <<"start", r>> /\ j # <<"stop", r>>
  OBVIOUS
<1>2. AskedFirst' /\ StopAwaitsStart'
  BY <1>1 DEF AskedFirst, StopAwaitsStart
<1>3. CASE line' = Append(line, j) /\ j \notin Elems(line)
  <2>1. /\ line' \in Seq(Jobs) /\ line' # <<>> /\ Once(line')
        /\ \A x : x \in Elems(line') <=> x \in Elems(line) \/ x = j
        /\ line # <<>> => Head(line') = Head(line)
    BY <1>1, <1>3, JobJoins
  <2>2. startup # None => Behind(line', startup)
    BY <1>1, <1>3, LastInLine DEF LatestHoldsSlot
  <2>3. LatestHoldsSlot'
    BY <1>1, <2>2 DEF LatestHoldsSlot
  <2>. QED
    BY <1>1, <1>2, <1>3, <2>1, <2>3 DEF HolderIsFirst, Turn
<1>4. CASE line' = Tail(line) /\ Turn(j)
  <2>1. /\ line' \in Seq(Jobs) /\ Once(line') /\ j \in Elems(line)
        /\ \A x : x \in Elems(line') <=> x \in Elems(line) /\ x # j
    BY <1>1, <1>4, JobLeaves DEF Turn
  <2>2. startup # None => Behind(line', startup)
    BY <1>1, <1>4, LastInLine DEF LatestHoldsSlot, Turn
  <2>3. LatestHoldsSlot'
    BY <1>1, <2>2 DEF LatestHoldsSlot
  <2>4. /\ \A r \in Rec : start[r] # "ensuring" /\ stop[r] \notin {"stopping", "finalizing"}
        /\ migration = "moving" => j = <<"migrate", None>>
    BY <1>1, <1>4 DEF HolderIsFirst, Turn
  <2>. QED
    BY <1>2, <2>1, <2>3, <2>4
<1>. QED
  BY <1>3, <1>4

\* The leg is moved to another worker, or the move is refused or fails.
LEMMA MoveSteps ==
    ASSUME RcInv, MigrateAsks \/ MigrateBegins \/ MigrateEnds
    PROVE  RcInv'
<1>. DEFINE j == <<"migrate", None>>
<1>1. /\ TypeOK /\ LineTells /\ HolderIsFirst /\ OnlyHomeRecords /\ StoppedIsSilent /\ CleanIsLast
      /\ LatestHoldsSlot /\ AskedFirst /\ StopAwaitsStart
  BY DEF RcInv, LockInv, WorkersInv
<1>2. /\ UNCHANGED <<leg, kind, op, start, target, startup, stop, waitsFor, overtaken, clean, cleanFor>>
      /\ \/ line' = Append(line, j) /\ migration = "none" /\ migration' = "queued" /\ UNCHANGED <<home, rec, snap>>
         \/ /\ line' = line /\ Turn(j) /\ migration = "queued" /\ migration' = "moving" /\ leg = "live"
            /\ UNCHANGED <<home, rec, snap>>
         \/ /\ line' = Tail(line) /\ Turn(j) /\ migration # "none" /\ migration' = "none"
            /\ migration = "queued" => UNCHANGED <<home, rec, snap>>
  <2>1. CASE MigrateAsks
    BY <2>1 DEF MigrateAsks, Join, worker, cleaning
  <2>2. CASE MigrateBegins
    BY <2>2 DEF MigrateBegins, Leave, worker, cleaning
  <2>3. CASE MigrateEnds
    BY <1>1, <2>3 DEF MigrateEnds, HolderIsFirst, Leave, worker, cleaning
  <2>. QED
    BY <2>1, <2>2, <2>3
<1>3. /\ home' \in Worker \cup {None} /\ rec' \in [Worker -> SUBSET Rec] /\ snap' \subseteq Rec
      /\ migration' \in {"none", "queued", "moving"}
      /\ \A w \in Worker : rec'[w] \subseteq rec[w]
      /\ home' # home => migration = "moving" /\ (home \in Worker => rec'[home] = {})
  <2>1. CASE MigrateEnds
    <3>1. CASE UNCHANGED worker
      BY <1>1, <2>1, <3>1 DEF worker, MigrateEnds, TypeOK
    <3>2. CASE /\ home' \in Worker \ {home}
               /\ rec' = [rec EXCEPT ![home] = {}] /\ snap' = {}
      <4>1. home \in Worker => rec'[home] = {}
        BY <1>1, <3>2 DEF TypeOK
      <4>2. home = None => rec' = rec
        BY <1>1, <3>2, TheJobs DEF TypeOK
      <4>. QED
        BY <1>1, <2>1, <3>2, <4>1, <4>2 DEF MigrateEnds, TypeOK
    <3>. QED
      BY <2>1, <3>1, <3>2 DEF MigrateEnds
  <2>2. CASE MigrateAsks \/ MigrateBegins
    BY <1>1, <2>2 DEF MigrateAsks, MigrateBegins, worker, TypeOK
  <2>. QED
    BY <2>1, <2>2
<1>4. /\ line' \in Seq(Jobs) /\ LineTells' /\ HolderIsFirst'
      /\ LatestHoldsSlot' /\ AskedFirst' /\ StopAwaitsStart'
  <2>1. CASE line' = line /\ Turn(j) /\ migration = "queued" /\ migration' = "moving"
    BY <1>1, <1>2, <2>1 DEF TypeOK, LineTells, HolderIsFirst, Turn, LatestHoldsSlot, AskedFirst,
       StopAwaitsStart
  <2>2. CASE \/ line' = Append(line, j) /\ migration = "none" /\ migration' = "queued"
             \/ line' = Tail(line) /\ Turn(j) /\ migration # "none" /\ migration' = "none"
    <3>1. \/ line' = Append(line, j) /\ j \notin Elems(line)
          \/ line' = Tail(line) /\ Turn(j)
      BY <1>1, <2>2 DEF LineTells
    <3>2. /\ line' \in Seq(Jobs) /\ Once(line')
          /\ \A x : x # j => (x \in Elems(line') <=> x \in Elems(line))
          /\ j \in Elems(line') <=> j \notin Elems(line)
          /\ \A r \in Rec : start[r] = "ensuring" => Turn(<<"start", r>>)'
          /\ \A r \in Rec : stop[r] \in {"stopping", "finalizing"} => Turn(<<"stop", r>>)'
          /\ LatestHoldsSlot' /\ AskedFirst' /\ StopAwaitsStart'
      BY <1>2, <3>1, OthersInLine
    <3>3. /\ \A r \in Rec : <<"start", r>> # j /\ <<"stop", r>> # j
          /\ <<"clean", None>> # j
      OBVIOUS
    <3>4. LineTells'
      BY <1>1, <1>2, <2>2, <3>2, <3>3 DEF LineTells
    <3>5. HolderIsFirst'
      BY <1>2, <2>2, <3>2 DEF HolderIsFirst
    <3>. QED
      BY <3>2, <3>4, <3>5
  <2>. QED
    BY <1>2, <2>1, <2>2
<1>5. TypeOK'
  BY <1>1, <1>2, <1>3, <1>4 DEF TypeOK
<1>6. WorkersInv'
  <2>1. OnlyHomeRecords'
    BY <1>1, <1>2, <1>3 DEF OnlyHomeRecords
  <2>2. StoppedIsSilent'
    BY <1>1, <1>2, <1>3 DEF StoppedIsSilent
  <2>3. CleanIsLast'
    BY <1>1, <1>2, <1>3 DEF CleanIsLast
  <2>. QED
    BY <2>1, <2>2, <2>3 DEF WorkersInv
<1>. QED
  BY <1>4, <1>5, <1>6 DEF RcInv, LockInv

\* The leg ends and its clean-up goes on, outside the lock.
LEMMA CleanUpSteps ==
    ASSUME RcInv, LegEnds \/ CleanBegins \/ CleanAborted \/ CleanGlobalOver \/ CleanLists
    PROVE  RcInv'
<1>1. TypeOK
  BY DEF RcInv
<1>2. /\ UNCHANGED <<kind, op, start, target, startup, stop, waitsFor, migration, line,
                     home, rec, snap, overtaken>>
      /\ leg' \in {"live", "ended", "gone"} /\ (leg' = leg \/ leg' = "gone" \/ leg = "live")
      /\ clean \notin {"bridge", "remove", "over"}
      /\ clean' \in {"signalling", "stable", "aborted", "listing", "media"}
      /\ cleanFor' \subseteq Rec
  BY <1>1 DEF LegEnds, CleanBegins, CleanAborted, CleanGlobalOver, CleanLists, Cleans, unmoved,
     worker, Unfinished, OfKind, TypeOK
<1>3. TypeOK'
  BY <1>1, <1>2 DEF TypeOK
<1>4. LockInv'
  BY <1>2, LockRests
<1>5. WorkersInv'
  BY <1>2, WorkersRest
<1>. QED
  BY <1>3, <1>4, <1>5 DEF RcInv

\* The clean-up takes the lock twice, and removes the endpoint the second time.
LEMMA CleanUpLocks ==
    ASSUME RcInv, CleanStable \/ CleanUnbridged \/ CleanRemoveJoins \/ CleanRemove
    PROVE  RcInv'
<1>. DEFINE j == <<"clean", None>>
<1>1. /\ TypeOK /\ LineTells /\ HolderIsFirst /\ OnlyHomeRecords /\ StoppedIsSilent /\ CleanIsLast
  BY DEF RcInv, LockInv, WorkersInv
<1>2. /\ UNCHANGED <<kind, op, start, target, startup, stop, waitsFor, migration>>
      /\ \/ /\ line' = Append(line, j) /\ clean \in {"stable", "media"}
            /\ clean' \in {"bridge", "remove"} /\ leg' = leg
         \/ /\ line' = Tail(line) /\ Turn(j) /\ clean \in {"bridge", "remove"}
            /\ clean' = "global" /\ leg' = leg
         \/ /\ line' = Tail(line) /\ Turn(j) /\ clean \in {"bridge", "remove"}
            /\ clean' = "over" /\ leg' = "gone" /\ home' = None
      /\ clean' \in {"bridge", "remove", "global", "over"} /\ leg' \in {"live", "ended", "gone"}
      /\ cleanFor' \subseteq Rec
  <2>1. CASE CleanStable
    BY <1>1, <2>1 DEF CleanStable, Cleans, Join, unmoved, worker, TypeOK
  <2>2. CASE CleanUnbridged
    BY <1>1, <2>2 DEF CleanUnbridged, Cleans, Leave, unmoved, worker, TypeOK
  <2>3. CASE CleanRemoveJoins
    BY <1>1, <2>3 DEF CleanRemoveJoins, Cleans, Join, unmoved, worker, TypeOK
  <2>4. CASE CleanRemove
    BY <1>1, <2>4 DEF CleanRemove, Cleans, Leave, EndpointRemoved, unmoved, TypeOK
  <2>. QED
    BY <2>1, <2>2, <2>3, <2>4
<1>3. /\ home' \in {home, None} /\ rec' \in [Worker -> SUBSET Rec] /\ snap' \subseteq Rec
      /\ overtaken' = overtaken
      /\ \A w \in Worker : rec'[w] \subseteq rec[w] /\ (home' # home /\ w = home => rec'[w] = {})
  <2>1. CASE CleanRemove
    BY <1>1, <2>1 DEF CleanRemove, EndpointRemoved, TypeOK
  <2>2. CASE CleanStable \/ CleanUnbridged \/ CleanRemoveJoins
    BY <1>1, <2>2 DEF CleanStable, CleanUnbridged, CleanRemoveJoins, worker, TypeOK
  <2>. QED
    BY <2>1, <2>2
<1>4. \/ line' = Append(line, j) /\ j \notin Elems(line)
      \/ line' = Tail(line) /\ Turn(j)
  BY <1>1, <1>2 DEF LineTells
<1>5. /\ line' \in Seq(Jobs) /\ Once(line')
      /\ \A x : x # j => (x \in Elems(line') <=> x \in Elems(line))
      /\ j \in Elems(line') <=> j \notin Elems(line)
      /\ \A r \in Rec : start[r] = "ensuring" => Turn(<<"start", r>>)'
      /\ \A r \in Rec : stop[r] \in {"stopping", "finalizing"} => Turn(<<"stop", r>>)'
      /\ migration = "moving" => Turn(<<"migrate", None>>)'
      /\ LatestHoldsSlot' /\ AskedFirst' /\ StopAwaitsStart'
  BY <1>2, <1>4, OthersInLine
<1>6. LineTells'
  <2>1. /\ \A r \in Rec : <<"start", r>> # j /\ <<"stop", r>> # j
        /\ <<"migrate", None>> # j
    OBVIOUS
  <2>2. j \in Elems(line') <=> clean' \in {"bridge", "remove"}
    BY <1>1, <1>2, <1>5 DEF LineTells
  <2>. QED
    BY <1>1, <1>2, <1>5, <2>1, <2>2 DEF LineTells
<1>7. HolderIsFirst'
  BY <1>2, <1>5 DEF HolderIsFirst
<1>8. TypeOK'
  BY <1>1, <1>2, <1>3, <1>5 DEF TypeOK
<1>9. CleanIsLast'
  <2>1. Turn(j) => migration # "moving" /\ \A r \in Rec : start[r] # "ensuring"
    BY <1>1 DEF HolderIsFirst, Turn
  <2>. QED
    BY <1>1, <1>2, <2>1 DEF CleanIsLast
<1>10. OnlyHomeRecords' /\ StoppedIsSilent'
  BY <1>1, <1>2, <1>3 DEF OnlyHomeRecords, StoppedIsSilent
<1>. QED
  BY <1>5, <1>6, <1>7, <1>8, <1>9, <1>10 DEF RcInv, LockInv, WorkersInv

\* Every step keeps the invariant.
LEMMA RcStepHolds == RcInv /\ [Next]_vars => RcInv'
<1>. SUFFICES ASSUME RcInv, [Next]_vars PROVE RcInv'
  OBVIOUS
<1>1. CASE UNCHANGED vars
  <2>1. TypeOK'
    BY <1>1 DEF RcInv, TypeOK, vars, worker, cleaning
  <2>2. LockInv'
    BY <1>1 DEF RcInv, LockInv, LineTells, HolderIsFirst, Turn, LatestHoldsSlot, AskedFirst,
       StopAwaitsStart, vars, worker, cleaning
  <2>3. WorkersInv'
    BY <1>1 DEF RcInv, WorkersInv, OnlyHomeRecords, StoppedIsSilent, CleanIsLast, vars, worker,
       cleaning
  <2>. QED
    BY <2>1, <2>2, <2>3 DEF RcInv
<1>2. ASSUME NEW r \in Rec, SendStart(r) \/ SendRefused(r) PROVE RcInv'
  BY <1>2, CommandSteps
<1>3. ASSUME NEW r \in Rec, Prune(r) PROVE RcInv'
  BY <1>3, SectionSteps
<1>4. ASSUME NEW r \in Rec, RecordAudio(r) \/ StartGlobal(r) PROVE RcInv'
  BY <1>4, AskSteps DEF RecordAudio, StartGlobal
<1>5. ASSUME NEW r \in Rec, StartSteps(r) PROVE RcInv'
  BY <1>5, JoinSteps, EnsureSteps, FailSteps, CommandSteps DEF StartSteps
<1>6. ASSUME NEW r \in Rec, Stop(r) \/ StopSteps(r), \A q \in Rec : start[q] # "ensured" PROVE RcInv'
  BY <1>6, StopAskSteps, EnterSteps, SectionSteps DEF Stop, StopSteps
<1>7. ASSUME MigrateAsks \/ MigrateSteps PROVE RcInv'
  BY <1>7, MoveSteps DEF MigrateSteps
<1>8. ASSUME LegEnds \/ CleanSteps PROVE RcInv'
  <2>1. ASSUME NEW r \in Rec, CleanStops(r) PROVE RcInv'
    BY <2>1, StopAskSteps DEF CleanStops
  <2>. QED
    BY <1>8, <2>1, CleanUpSteps, CleanUpLocks DEF CleanSteps
<1>. QED
  BY <1>1, <1>2, <1>3, <1>4, <1>5, <1>6, <1>7, <1>8 DEF Next

\* A recording that was reported as finished is recorded by no worker, and a leg
\* whose clean-up is over has no endpoint and is recorded by none, in whatever
\* order start-ups, stops, moves and the end of the leg take its lock; except a
\* recording whose command came after its endpoint was removed.
THEOREM RecordingIsSafe == Spec => []RecordingSafe
<1>1. Init => RcInv
  BY RcInitHolds
<1>2. RcInv /\ [Next]_vars => RcInv'
  BY RcStepHolds
<1>3. RcInv => RecordingSafe
  <2>. SUFFICES ASSUME RcInv PROVE RecordingSafe
    OBVIOUS
  <2>1. TypeOK /\ FinishedIsSilent
    BY DEF RcInv, WorkersInv, StoppedIsSilent, FinishedIsSilent
  <2>2. EndedLegIsSilent
    BY TheJobs DEF RcInv, WorkersInv, CleanIsLast, OnlyHomeRecords, EndedLegIsSilent, TypeOK
  <2>. QED
    BY <2>1, <2>2 DEF RecordingSafe
<1>4. QED
  BY <1>1, <1>2, <1>3, PTL DEF Spec
------------------------------------------------------------------------------
(* The digits of a caller.                                                   *)

\* The fields have their types, also those that DtTypeOK leaves out.
DtTypes ==
    /\ methods \in SUBSET {"event", "tone", "info"} /\ methods # {}
    /\ presses \in Seq(Digits) /\ Len(presses) =< MaxPresses
    /\ tone \in {0, Len(presses)}
    /\ lasted \in Nat /\ (tone # 0 => lasted =< MinTone) /\ (tone = 0 => lasted =< MinPause)
    /\ wire \subseteq (methods \ {"tone"}) \X (1 .. Len(presses))
    /\ lastKey \in 0 .. Len(presses)
    /\ detector \in [candidate : 0 .. Len(presses), length : 0 .. MinTone - 1,
                     active : 0 .. Len(presses), gap : 0 .. MinPause - 1, suppress : 0 .. Suppress]
    /\ "tone" \notin methods => detector.candidate = 0 /\ detector.active = 0
    /\ dedup \in [digit : Digits \cup {0}, age : 0 .. Window + 1]
    /\ published \in Seq([press : 1 .. Len(presses), by : methods])
    /\ dtMishaps \subseteq DtMishaps

\* A report is on its way, or its press was heard; none of the key that is down.
Arrived ==
    /\ \A m \in methods \ {"tone"} : \A p \in 1 .. Len(presses) :
          p # tone /\ <<m, p>> \notin wire => HeardPress(p, Way(m))
    /\ \A m \in methods : <<m, tone>> \notin wire
    /\ lastKey # 0 => HeardPress(lastKey, "stream")

\* What was published by a method is behind what the method reports next.
ByMethod ==
    \A i \in 1 .. Len(published) :
       LET p == published[i].press  m == published[i].by
       IN /\ p # tone
          /\ m = "event" => p =< lastKey
          /\ m = "info" => \A q \in 1 .. Len(presses) : <<"info", q>> \in wire => p < q
          /\ m = "tone" => /\ detector.candidate # 0 => p < detector.candidate
                           /\ detector.active # 0 => p < detector.active
                           /\ tone # 0 => p < tone

\* The telephone event seen last is behind the key that is down and what the
\* detector hears: it emptied the detector.
KeyAhead ==
    /\ tone # 0 => lastKey < tone
    /\ detector.candidate # 0 => lastKey < detector.candidate
    /\ detector.active # 0 => lastKey < detector.active

\* A press that waits for its telephone event is not overtaken by a tone.
NotOvertaken ==
    \A i \in 1 .. Len(published) : \A p \in 1 .. Len(presses) :
       /\ published[i].by = "tone" /\ <<"event", p>> \in wire /\ p < published[i].press
       => HeardPress(p, "stream")

Increasing ==
    \A i, j \in 1 .. Len(published) :
       i < j /\ Way(published[i].by) = Way(published[j].by) => published[i].press < published[j].press

\* Where tones are all there is of the stream, the detector keeps step with the key.
Alone == "tone" \in methods /\ "event" \notin methods

ToneAlone ==
    Alone =>
       /\ detector.suppress = 0
       /\ \A p \in 1 .. Len(presses) - 1 : HeardPress(p, "stream")
       /\ tone # 0 /\ lasted < MinTone =>
             /\ detector.active = 0 /\ detector.length = lasted
             /\ detector.candidate = IF lasted = 0 THEN 0 ELSE tone
       /\ tone # 0 /\ lasted = MinTone => detector.active = tone /\ detector.gap = 0
       /\ tone = 0 /\ lasted < MinPause =>
             Len(presses) # 0 /\ detector.active = Len(presses) /\ detector.gap = lasted
       /\ tone = 0 /\ lasted = MinPause =>
             /\ detector = Silent
             /\ Len(presses) # 0 => HeardPress(Len(presses), "stream")

DtCalm == Arrived /\ ByMethod /\ KeyAhead /\ NotOvertaken /\ Increasing /\ ToneAlone

\* Nothing is promised after a mishap but the types.
DtInv == DtTypes /\ (dtMishaps = {} => DtCalm)

LEMMA DtRecords ==
    ASSUME DtTypes, NEW i \in 1 .. Len(published)
    PROVE  /\ published[i] \in [press : 1 .. Len(presses), by : methods]
           /\ published[i].press \in Nat /\ published[i].by \in methods
<1> DEFINE R == [press : 1 .. Len(presses), by : methods]
<1>1. published \in Seq(R) /\ Len(presses) \in Nat
  BY DEF DtTypes
<1> HIDE DEF R
<1>2. published[i] \in R
  BY <1>1
<1>3. QED
  BY <1>1, <1>2 DEF R

LEMMA DtDigit ==
    ASSUME DtmfAssumption, DtTypes, NEW p \in 0 .. Len(presses)
    PROVE  /\ p # 0 => Digit(p) \in Digits
           /\ Digit(p) \in Digits \cup {0}
           /\ Digit(p) = 0 <=> p = 0
<1>1. CASE p = 0
  BY <1>1 DEF Digit
<1>2. CASE p # 0
  <2>1. p \in 1 .. Len(presses) /\ presses \in Seq(Digits)
    BY <1>2 DEF DtTypes
  <2>2. presses[p] \in Digits
    BY <2>1
  <2>3. QED
    BY <1>2, <2>2 DEF Digit, DtmfAssumption
<1>3. QED
  BY <1>1, <1>2

\* What the detector does with a frame of press q.
FedNothing(fed, q) ==
    /\ detector.suppress > 0 \/ (detector.active = 0 /\ q = 0)
    /\ fed = [state |-> Silent, done |-> 0]

FedSame(fed, q) ==
    /\ detector.suppress = 0 /\ detector.active # 0 /\ SameDigit(q, detector.active)
    /\ fed = [state |-> Hears(0, 0, detector.active, 0), done |-> 0]

FedGap(fed, q) ==
    /\ detector.suppress = 0 /\ detector.active # 0 /\ ~SameDigit(q, detector.active)
    /\ detector.gap + 1 < MinPause
    /\ fed = [state |-> Hears(0, 0, detector.active, detector.gap + 1),
              done |-> 0]

FedEnd(fed, q) ==
    /\ detector.suppress = 0 /\ detector.active # 0 /\ ~SameDigit(q, detector.active)
    /\ detector.gap + 1 >= MinPause
    /\ fed = [state |-> Hears(q, IF q = 0 THEN 0 ELSE 1, 0, 0),
              done |-> detector.active]

\* The tone lasts, or begins.
FedTone(fed, q) ==
    \E c \in {q, detector.candidate}, n \in 1 .. MinTone :
       /\ detector.suppress = 0 /\ detector.active = 0 /\ q # 0 /\ c # 0
       /\ \/ SameDigit(q, detector.candidate) /\ c = detector.candidate /\ n = detector.length + 1
          \/ ~SameDigit(q, detector.candidate) /\ c = q /\ n = 1
       /\ fed = [state |-> IF n = MinTone THEN Hears(0, 0, c, 0)
                           ELSE Hears(c, n, 0, 0),
                 done |-> 0]

LEMMA FeedDoes ==
    ASSUME DtmfAssumption, DtTypes, NEW q \in {0, tone}, NEW fed, fed = Feed(detector, q)
    PROVE  FedNothing(fed, q) \/ FedSame(fed, q) \/ FedGap(fed, q) \/ FedEnd(fed, q) \/ FedTone(fed, q)
<1> DEFINE d == detector
           s == d.suppress
           a == d.active
           c == d.candidate
           k == d.length
           g == d.gap
<1>1. /\ s \in Nat /\ a \in 0 .. Len(presses) /\ c \in 0 .. Len(presses) /\ k \in 0 .. MinTone - 1
      /\ g \in Nat /\ q \in 0 .. Len(presses) /\ MinTone \in Nat \ {0, 1} /\ MinPause \in Nat \ {0}
  BY DEF DtTypes, DtmfAssumption
<1>2. CASE s > 0
  <2>1. fed = [state |-> Silent, done |-> 0]
    BY <1>2 DEF Feed
  <2>2. QED
    BY <1>2, <2>1 DEF FedNothing
<1>3. CASE s = 0 /\ a # 0 /\ SameDigit(q, a)
  <2>1. fed = [state |-> Hears(0, 0, a, 0), done |-> 0]
    BY <1>3 DEF Feed
  <2>2. QED
    BY <1>3, <2>1 DEF FedSame
<1>4. CASE s = 0 /\ a # 0 /\ ~SameDigit(q, a) /\ g + 1 < MinPause
  <2>1. fed = [state |-> Hears(0, 0, a, g + 1), done |-> 0]
    BY <1>1, <1>4 DEF Feed
  <2>2. QED
    BY <1>4, <2>1 DEF FedGap
<1>5. CASE s = 0 /\ a # 0 /\ ~SameDigit(q, a) /\ g + 1 >= MinPause
  <2>1. fed = [state |-> Hears(q, IF q = 0 THEN 0 ELSE 1, 0, 0), done |-> a]
    BY <1>1, <1>5 DEF Feed
  <2>2. QED
    BY <1>5, <2>1 DEF FedEnd
<1>6. CASE s = 0 /\ a = 0 /\ q = 0
  <2>1. fed = [state |-> Silent, done |-> 0]
    BY <1>6 DEF Feed
  <2>2. QED
    BY <1>6, <2>1 DEF FedNothing
<1>7. CASE s = 0 /\ a = 0 /\ q # 0
  <2> DEFINE longer == IF SameDigit(q, c) THEN [press |-> c, length |-> Up(k, MinTone)]
                       ELSE [press |-> q, length |-> 1]
  <2>1. fed = [state |-> IF longer.length >= MinTone THEN Hears(0, 0, longer.press, 0)
                         ELSE Hears(longer.press, longer.length, 0, 0),
               done |-> 0]
    BY <1>1, <1>7 DEF Feed
  <2>2. CASE SameDigit(q, c)
    <3>1. c # 0
      BY <1>1, <1>7, <2>2, DtDigit DEF SameDigit
    <3>2. longer.press = c /\ longer.length = k + 1
      BY <1>1, <2>2 DEF Up
    <3>3. k + 1 \in 1 .. MinTone /\ (k + 1 >= MinTone <=> k + 1 = MinTone)
      BY <1>1
    <3> HIDE DEF longer
    <3>4. QED
      BY <1>7, <2>1, <2>2, <3>1, <3>2, <3>3 DEF FedTone
  <2>3. CASE ~SameDigit(q, c)
    <3>1. longer.press = q /\ longer.length = 1
      BY <2>3
    <3>2. 1 \in 1 .. MinTone /\ (1 >= MinTone <=> 1 = MinTone)
      BY <1>1
    <3> HIDE DEF longer
    <3>3. QED
      BY <1>7, <2>1, <2>3, <3>1, <3>2 DEF FedTone
  <2>4. QED
    BY <2>2, <2>3
<1>8. s = 0 \/ s > 0
  BY <1>1
<1>9. g + 1 < MinPause \/ g + 1 >= MinPause
  BY <1>1
<1>10. QED
  BY <1>2, <1>3, <1>4, <1>5, <1>6, <1>7, <1>8, <1>9

\* The detector keeps its types, and what it completes was pressed.
LEMMA FedTypes ==
    ASSUME DtmfAssumption, DtTypes, NEW q \in {0, tone}, NEW fed, fed = Feed(detector, q), NEW s \in 0 .. Suppress
    PROVE  /\ [fed.state EXCEPT !.suppress = s]
                 \in [candidate : 0 .. Len(presses), length : 0 .. MinTone - 1,
                      active : 0 .. Len(presses), gap : 0 .. MinPause - 1, suppress : 0 .. Suppress]
           /\ fed.done \in 0 .. Len(presses)
           /\ fed.done # 0 => fed.done = detector.active /\ FedEnd(fed, q)
<1> DEFINE L == Len(presses)
           Typed == [fed.state EXCEPT !.suppress = s]
                       \in [candidate : 0 .. Len(presses), length : 0 .. MinTone - 1,
                            active : 0 .. Len(presses), gap : 0 .. MinPause - 1, suppress : 0 .. Suppress]
<1>1. /\ detector.active \in 0 .. L /\ detector.candidate \in 0 .. L /\ q \in 0 .. L /\ 0 \in 0 .. L
      /\ MinTone \in Nat \ {0, 1} /\ MinPause \in Nat \ {0} /\ detector.gap \in 0 .. MinPause - 1
      /\ detector.length \in 0 .. MinTone - 1 /\ 0 \in 0 .. MinTone - 1 /\ 0 \in 0 .. MinPause - 1
  BY DEF DtTypes, DtmfAssumption
<1>2. ASSUME NEW c \in 0 .. L, NEW k \in 0 .. MinTone - 1, NEW a \in 0 .. L, NEW g \in 0 .. MinPause - 1,
             fed.state = Hears(c, k, a, g)
      PROVE  Typed
  BY <1>2 DEF Hears
<1> SUFFICES Typed /\ fed.done \in 0 .. L /\ (fed.done # 0 => fed.done = detector.active /\ FedEnd(fed, q))
  OBVIOUS
<1> HIDE DEF Typed, L
<1>3. CASE FedNothing(fed, q)
  <2>1. fed.state = Hears(0, 0, 0, 0) /\ fed.done = 0
    BY <1>3 DEF FedNothing, Silent
  <2>2. QED
    BY <1>1, <1>2, <2>1
<1>4. CASE FedSame(fed, q)
  <2>1. fed.state = Hears(0, 0, detector.active, 0) /\ fed.done = 0
    BY <1>4 DEF FedSame
  <2>2. QED
    BY <1>1, <1>2, <2>1
<1>5. CASE FedGap(fed, q)
  <2>1. detector.gap + 1 \in 0 .. MinPause - 1
    BY <1>1, <1>5 DEF FedGap
  <2>2. fed.state = Hears(0, 0, detector.active, detector.gap + 1) /\ fed.done = 0
    BY <1>5 DEF FedGap
  <2>3. QED
    BY <1>1, <1>2, <2>1, <2>2
<1>6. CASE FedEnd(fed, q)
  <2> DEFINE k == IF q = 0 THEN 0 ELSE 1
  <2>1. k \in 0 .. MinTone - 1
    BY <1>1
  <2>2. fed.state = Hears(q, k, 0, 0) /\ fed.done = detector.active
    BY <1>6 DEF FedEnd
  <2> HIDE DEF k
  <2>3. QED
    BY <1>1, <1>2, <1>6, <2>1, <2>2
<1>7. CASE FedTone(fed, q)
  <2>1. PICK c \in {q, detector.candidate}, n \in 1 .. MinTone :
           fed = [state |-> IF n = MinTone THEN Hears(0, 0, c, 0)
                            ELSE Hears(c, n, 0, 0), done |-> 0]
    BY <1>7 DEF FedTone
  <2>2. n # MinTone => n \in 0 .. MinTone - 1
    BY <1>1
  <2>3. fed.done = 0 /\ fed.state = IF n = MinTone THEN Hears(0, 0, c, 0) ELSE Hears(c, n, 0, 0)
    BY <2>1
  <2>4. c \in 0 .. L
    BY <1>1
  <2>5. QED
    BY <1>1, <1>2, <2>2, <2>3, <2>4
<1>8. QED
  BY <1>3, <1>4, <1>5, <1>6, <1>7, FeedDoes

\* A report of a press that is ahead of what its way published.
LEMMA DtAppends ==
    ASSUME DtmfAssumption, DtTypes, NEW p \in 1 .. Len(presses), NEW m \in methods,
           HandleInboundDtmf(p, m)
    PROVE  /\ published' \in Seq([press : 1 .. Len(presses), by : methods])
           /\ \A q, w : HeardPress(q, w) => HeardPress(q, w)'
           /\ HeardPress(p, Way(m))'
           /\ \A i \in 1 .. Len(published') :
                 \/ i \in 1 .. Len(published) /\ published'[i] = published[i]
                 \/ published'[i].press = p /\ published'[i].by = m
           /\ /\ Increasing
              /\ \A i \in 1 .. Len(published) : Way(published[i].by) = Way(m) => published[i].press < p
              => Increasing'
<1> DEFINE R == [press : 1 .. Len(presses), by : methods]
           n == Len(published)
<1>1. published \in Seq(R) /\ published' = Append(published, [press |-> p, by |-> m])
      /\ [press |-> p, by |-> m] \in R
  BY DEF DtTypes, HandleInboundDtmf
<1> HIDE DEF R
<1>2. /\ n \in Nat /\ Len(published') = n + 1 /\ published'[n + 1] = [press |-> p, by |-> m]
      /\ \A i \in 1 .. n : published'[i] = published[i]
      /\ published' \in Seq(R)
  BY <1>1
<1> HIDE DEF n
<1>3. /\ n + 1 \in 1 .. n + 1 /\ \A i \in 1 .. n : i \in 1 .. n + 1
      /\ \A i \in 1 .. n + 1 : i \in 1 .. n \/ i = n + 1
  BY <1>2
<1>4. HeardPress(p, Way(m))'
  BY <1>2, <1>3 DEF HeardPress, Way
<1>5. \A q, w : HeardPress(q, w) => HeardPress(q, w)'
  BY <1>2, <1>3 DEF HeardPress, Way, n
<1>6. \A i \in 1 .. Len(published') :
         \/ i \in 1 .. Len(published) /\ published'[i] = published[i]
         \/ published'[i].press = p /\ published'[i].by = m
  BY <1>2, <1>3 DEF n
<1>7. ASSUME Increasing, \A i \in 1 .. n : Way(published[i].by) = Way(m) => published[i].press < p
      PROVE  Increasing'
  <2>1. SUFFICES ASSUME NEW i \in 1 .. n + 1, NEW j \in 1 .. n + 1, i < j,
                        Way(published'[i].by) = Way(published'[j].by)
                 PROVE  published'[i].press < published'[j].press
    BY <1>2 DEF Increasing, Way
  <2>2. i \in 1 .. n
    BY <1>2, <2>1
  <2>3. CASE j \in 1 .. n
    BY <1>2, <1>7, <2>1, <2>2, <2>3 DEF Increasing, n
  <2>4. CASE j = n + 1
    BY <1>2, <1>7, <2>1, <2>2, <2>4
  <2>5. QED
    BY <1>3, <2>3, <2>4
<1>8. QED
  BY <1>2, <1>4, <1>5, <1>6, <1>7 DEF R, n

\* A telephone event that comes in time is ahead of all the stream told.
LEMMA DtEventIsNew ==
    ASSUME DtmfAssumption, DtTypes, ByMethod, NotOvertaken, NEW p \in 1 .. Len(presses),
           <<"event", p>> \in wire, lastKey < p, ~HeardAsTone(p)
    PROVE  \A i \in 1 .. Len(published) : Way(published[i].by) = Way("event") => published[i].press < p
<1>1. SUFFICES ASSUME NEW i \in 1 .. Len(published), Way(published[i].by) = Way("event")
               PROVE  published[i].press < p
  OBVIOUS
<1>2. /\ \A j \in 1 .. Len(published) :
            /\ published[j] \in [press : 1 .. Len(presses), by : methods]
            /\ published[j].press \in Nat /\ published[j].by \in methods
      /\ methods \subseteq {"event", "tone", "info"} /\ p \in Nat /\ lastKey \in Nat
  <2>1. \A j \in 1 .. Len(published) :
           /\ published[j] \in [press : 1 .. Len(presses), by : methods]
           /\ published[j].press \in Nat /\ published[j].by \in methods
    BY DtRecords
  <2>2. methods \subseteq {"event", "tone", "info"} /\ p \in Nat /\ lastKey \in Nat
    BY DEF DtTypes
  <2>3. QED
    BY <2>1, <2>2
<1>3. \A j \in 1 .. Len(published) : published[j].by = "event" => published[j].press =< lastKey
  BY DEF ByMethod
<1>4. \A j \in 1 .. Len(published) : published[j].by = "tone" => published[j].press # p
  <2>1. SUFFICES ASSUME NEW j \in 1 .. Len(published), published[j].by = "tone", published[j].press = p
                 PROVE  FALSE
    OBVIOUS
  <2>2. published[j] = [press |-> p, by |-> "tone"]
    BY <1>2, <2>1
  <2>3. QED
    BY <2>2 DEF HeardAsTone
<1>5. published[i].by \in {"event", "tone"}
  BY <1>1, <1>2 DEF Way
<1>6. ~HeardPress(p, "stream")
  <2>1. SUFFICES ASSUME NEW j \in 1 .. Len(published), published[j].press = p, Way(published[j].by) = "stream"
                 PROVE  FALSE
    BY DEF HeardPress
  <2>2. published[j].by \in {"event", "tone"}
    BY <1>2, <2>1 DEF Way
  <2>3. QED
    BY <1>2, <1>3, <1>4, <2>1, <2>2
<1>7. CASE published[i].by = "event"
  BY <1>2, <1>3, <1>7
<1>8. CASE published[i].by = "tone"
  <2>1. ~(p < published[i].press)
    BY <1>6, <1>8 DEF NotOvertaken
  <2>2. QED
    BY <1>2, <1>4, <1>8, <2>1
<1>9. QED
  BY <1>5, <1>7, <1>8

\* A tone that is over is ahead of all the stream told.
LEMMA DtToneIsNew ==
    ASSUME DtmfAssumption, DtTypes, ByMethod, KeyAhead, detector.active # 0
    PROVE  \A i \in 1 .. Len(published) :
              Way(published[i].by) = Way("tone") => published[i].press < detector.active
<1>1. SUFFICES ASSUME NEW i \in 1 .. Len(published), Way(published[i].by) = Way("tone")
               PROVE  published[i].press < detector.active
  OBVIOUS
<1>2. /\ published[i].press \in Nat /\ published[i].by \in methods
      /\ methods \subseteq {"event", "tone", "info"} /\ lastKey \in Nat /\ detector.active \in Nat
  BY DtRecords DEF DtTypes
<1>3. published[i].by \in {"event", "tone"}
  BY <1>1, <1>2 DEF Way
<1>4. CASE published[i].by = "event"
  BY <1>2, <1>4 DEF ByMethod, KeyAhead
<1>5. CASE published[i].by = "tone"
  BY <1>5 DEF ByMethod
<1>6. QED
  BY <1>3, <1>4, <1>5

\* A telephone event or an INFO is on its way for a press of the phone.
LEMMA DtOnWire ==
    ASSUME DtTypes, NEW m, NEW p, <<m, p>> \in wire
    PROVE  p \in 1 .. Len(presses) /\ m \in methods /\ m # "tone"
  BY DEF DtTypes

LEMMA DtEvent ==
    ASSUME DtmfAssumption, DtInv, dtMishaps = {},
           NEW p \in 1 .. Len(presses), NEW last \in BOOLEAN, EventArrives(p, last)
    PROVE  DtInv'
<1>1. /\ DtTypes /\ Arrived /\ ByMethod /\ KeyAhead /\ NotOvertaken /\ Increasing /\ "event" \in methods
      /\ <<"event", p>> \in wire /\ p # tone
  BY DtOnWire DEF DtInv, DtCalm, EventArrives, Arrived
<1>2. /\ wire' \subseteq wire /\ \A r \in wire : r # <<"event", p>> => r \in wire'
      /\ UNCHANGED <<methods, presses, tone, lasted, dedup>>
  BY DEF EventArrives
<1>3. CASE IsCopy(p)
  <2>1. UNCHANGED <<lastKey, detector, published, dtMishaps>> /\ p = lastKey
    BY <1>3 DEF EventArrives, IsCopy
  <2>2. \A q, w : HeardPress(q, w)' <=> HeardPress(q, w)
    BY <2>1 DEF HeardPress, Way
  <2>3. DtTypes'
    BY <1>1, <1>2, <2>1 DEF DtTypes
  <2>4. Arrived'
    <3>1. HeardPress(p, "stream") /\ p # 0
      BY <1>1, <2>1 DEF Arrived
    <3>2. ASSUME NEW m \in methods \ {"tone"}, NEW q \in 1 .. Len(presses), q # tone, <<m, q>> \notin wire'
          PROVE  HeardPress(q, Way(m))
      <4>1. CASE <<m, q>> \in wire
        <5>1. m = "event" /\ q = p
          BY <1>2, <3>2, <4>1
        <5>2. Way(m) = "stream"
          BY <5>1 DEF Way
        <5>3. QED
          BY <3>1, <5>1, <5>2
      <4>2. CASE <<m, q>> \notin wire
        BY <1>1, <3>2, <4>2 DEF Arrived
      <4>3. QED
        BY <4>1, <4>2
    <3>3. \A m : Way(m)' = Way(m)
      BY DEF Way
    <3>4. QED
      BY <1>1, <1>2, <2>1, <2>2, <3>2, <3>3 DEF Arrived
  <2>5. ByMethod' /\ Increasing' /\ KeyAhead'
    BY <1>1, <1>2, <2>1 DEF ByMethod, Increasing, KeyAhead, Way
  <2>6. NotOvertaken'
    BY <1>1, <1>2, <2>1, <2>2 DEF NotOvertaken
  <2>7. ToneAlone'
    BY <1>1, <1>2 DEF ToneAlone, Alone
  <2>8. QED
    BY <2>3, <2>4, <2>5, <2>6, <2>7 DEF DtInv, DtCalm
<1>4. CASE ~IsCopy(p)
  <2>1. /\ lastKey' = p /\ detector' = [Silent EXCEPT !.suppress = Suppress] /\ p # lastKey
        /\ HandleInboundDtmf(p, "event")
        /\ dtMishaps' = (IF lastKey > p THEN {"reordered"} ELSE {}) \cup (IF HeardAsTone(p) THEN {"doubled"} ELSE {})
    BY <1>4 DEF EventArrives, DtInv, IsCopy
  <2>2. /\ detector'.candidate = 0 /\ detector'.active = 0
        /\ detector' \in [candidate : 0 .. Len(presses), length : 0 .. MinTone - 1,
                          active : 0 .. Len(presses), gap : 0 .. MinPause - 1, suppress : 0 .. Suppress]
    <3>1. /\ 0 \in 0 .. Len(presses) /\ 0 \in 0 .. MinTone - 1 /\ 0 \in 0 .. MinPause - 1
          /\ Suppress \in 0 .. Suppress
      BY <1>1 DEF DtTypes, DtmfAssumption
    <3>2. QED
      BY <2>1, <3>1 DEF Silent, Hears
  <2>3. /\ published' \in Seq([press : 1 .. Len(presses), by : methods])
        /\ \A q, w : HeardPress(q, w) => HeardPress(q, w)'
        /\ HeardPress(p, Way("event"))'
        /\ \A i \in 1 .. Len(published') :
              \/ i \in 1 .. Len(published) /\ published'[i] = published[i]
              \/ published'[i].press = p /\ published'[i].by = "event"
        /\ /\ Increasing
           /\ \A i \in 1 .. Len(published) : Way(published[i].by) = Way("event") => published[i].press < p
           => Increasing'
    BY <1>1, <2>1, DtAppends
  <2>4. DtTypes'
    <3>1. dtMishaps' \subseteq DtMishaps
      BY <2>1 DEF DtMishaps
    <3>2. lastKey' \in 0 .. Len(presses)
      BY <2>1
    <3>3. QED
      BY <1>1, <1>2, <2>2, <2>3, <3>1, <3>2 DEF DtTypes
  <2>5. ASSUME dtMishaps' = {}
        PROVE  DtCalm'
    <3>1. ~HeardAsTone(p) /\ ~(lastKey > p)
      BY <2>1, <2>5
    <3>2. lastKey < p /\ p \in Nat /\ lastKey \in Nat
      BY <1>1, <2>1, <3>1 DEF DtTypes
    <3>3. \A i \in 1 .. Len(published) : Way(published[i].by) = Way("event") => published[i].press < p
      BY <1>1, <3>1, <3>2, DtEventIsNew
    <3>4. Increasing'
      BY <1>1, <2>3, <3>3
    <3>5. \A m : Way(m)' = Way(m)
      BY DEF Way
    <3>6. Arrived'
      <4>1. ASSUME NEW m \in methods \ {"tone"}, NEW q \in 1 .. Len(presses), q # tone, <<m, q>> \notin wire'
            PROVE  HeardPress(q, Way(m))'
        <5>1. CASE <<m, q>> \in wire
          <6>1. m = "event" /\ q = p
            BY <1>2, <4>1, <5>1
          <6>2. QED
            BY <2>3, <6>1
        <5>2. CASE <<m, q>> \notin wire
          <6>1. HeardPress(q, Way(m))
            BY <1>1, <4>1, <5>2 DEF Arrived
          <6>2. \A w : HeardPress(q, w) => HeardPress(q, w)'
            BY <2>3
          <6>3. QED
            BY <6>1, <6>2, <3>5 DEF HeardPress
        <5>3. QED
          BY <5>1, <5>2
      <4>2. \A m \in methods : <<m, tone>> \notin wire'
        BY <1>1, <1>2 DEF Arrived
      <4>3. lastKey' # 0 => HeardPress(lastKey, "stream")'
        BY <2>1, <2>3 DEF HeardPress, Way
      <4>4. QED
        BY <1>2, <4>1, <4>2, <4>3 DEF Arrived
    <3>7. ByMethod'
      <4>1. SUFFICES ASSUME NEW i \in 1 .. Len(published')
                     PROVE  /\ published'[i].press # tone
                            /\ published'[i].by = "event" => published'[i].press =< p
                            /\ published'[i].by = "info" =>
                                  \A q \in 1 .. Len(presses) : <<"info", q>> \in wire' => published'[i].press < q
                            /\ published'[i].by = "tone" /\ tone # 0 => published'[i].press < tone
        BY <1>2, <2>1, <2>2 DEF ByMethod
      <4>2. CASE i \in 1 .. Len(published) /\ published'[i] = published[i]
        <5>1. /\ published[i].press # tone
              /\ published[i].by = "event" => published[i].press =< lastKey
              /\ published[i].by = "info" =>
                    \A q \in 1 .. Len(presses) : <<"info", q>> \in wire => published[i].press < q
              /\ published[i].by = "tone" /\ tone # 0 => published[i].press < tone
          BY <1>1, <4>2 DEF ByMethod
        <5>2. published[i].press \in Nat
          BY <1>1, <4>2, DtRecords
        <5>3. published[i].by = "event" => published[i].press =< p
          BY <3>2, <5>1, <5>2
        <5>4. QED
          BY <1>2, <4>2, <5>1, <5>3
      <4>3. CASE published'[i].press = p /\ published'[i].by = "event"
        BY <1>1, <3>2, <4>3
      <4>4. QED
        BY <2>3, <4>2, <4>3
    <3>8. KeyAhead'
      <4>1. tone # 0 => p < tone
        BY <1>1, <3>2 DEF DtTypes
      <4>2. QED
        BY <1>2, <2>1, <2>2, <4>1 DEF KeyAhead
    <3>9. NotOvertaken'
      BY <1>1, <1>2, <2>3 DEF NotOvertaken
    <3>10. ToneAlone'
      BY <1>1, <1>2 DEF ToneAlone, Alone
    <3>11. QED
      BY <3>4, <3>6, <3>7, <3>8, <3>9, <3>10 DEF DtCalm
  <2>6. QED
    BY <2>4, <2>5 DEF DtInv
<1>5. QED
  BY <1>3, <1>4

LEMMA DtInfo ==
    ASSUME DtmfAssumption, DtInv, dtMishaps = {}, NEW p \in 1 .. Len(presses), InfoArrives(p)
    PROVE  DtInv'
<1>1. /\ DtTypes /\ Arrived /\ ByMethod /\ KeyAhead /\ NotOvertaken /\ Increasing /\ ToneAlone
      /\ "info" \in methods /\ <<"info", p>> \in wire /\ p # tone /\ p \in Nat
  BY DtOnWire DEF DtInv, DtCalm, InfoArrives, Arrived
<1>2. /\ wire' = wire \ {<<"info", p>>} /\ \A q \in 1 .. p - 1 : <<"info", q>> \notin wire
      /\ dtMishaps' = IF dedup.digit = Digit(p) /\ dedup.age =< Window THEN {"swallowed"} ELSE {}
      /\ UNCHANGED <<methods, presses, tone, lasted, lastKey, detector>>
  BY DEF InfoArrives, DtInv
<1>3. CASE Repeated(Digit(p))
  <2>1. UNCHANGED <<dedup, published>> /\ dtMishaps' = {"swallowed"}
    BY <1>2, <1>3 DEF InfoArrives, HandleTransportDtmf, Repeated
  <2>2. QED
    BY <1>1, <1>2, <2>1 DEF DtInv, DtTypes, DtMishaps
<1>4. CASE ~Repeated(Digit(p))
  <2>1. /\ dedup' = [digit |-> Digit(p), age |-> 0] /\ HandleInboundDtmf(p, "info") /\ dtMishaps' = {}
    BY <1>2, <1>4 DEF InfoArrives, HandleTransportDtmf, Repeated
  <2>2. /\ published' \in Seq([press : 1 .. Len(presses), by : methods])
        /\ \A q, w : HeardPress(q, w) => HeardPress(q, w)'
        /\ HeardPress(p, Way("info"))'
        /\ \A i \in 1 .. Len(published') :
              \/ i \in 1 .. Len(published) /\ published'[i] = published[i]
              \/ published'[i].press = p /\ published'[i].by = "info"
        /\ /\ Increasing
           /\ \A i \in 1 .. Len(published) : Way(published[i].by) = Way("info") => published[i].press < p
           => Increasing'
    BY <1>1, <2>1, DtAppends
  <2>3. DtTypes'
    <3>1. dedup' \in [digit : Digits \cup {0}, age : 0 .. Window + 1]
      <4>1. Digit(p) \in Digits /\ 0 \in 0 .. Window + 1
        BY <1>1, DtDigit DEF DtmfAssumption
      <4>2. QED
        BY <2>1, <4>1
    <3>2. wire' \subseteq wire
      BY <1>2
    <3>3. QED
      BY <1>1, <1>2, <2>1, <2>2, <3>1, <3>2 DEF DtTypes
  <2>4. Increasing'
    <3>1. ASSUME NEW i \in 1 .. Len(published), Way(published[i].by) = Way("info")
          PROVE  published[i].press < p
      <4>1. published[i].by = "info"
        BY <3>1 DEF Way
      <4>2. QED
        BY <1>1, <4>1 DEF ByMethod
    <3>2. QED
      BY <1>1, <2>2, <3>1
  <2>5. Arrived'
    <3>1. ASSUME NEW m \in methods \ {"tone"}, NEW q \in 1 .. Len(presses), q # tone, <<m, q>> \notin wire'
          PROVE  HeardPress(q, Way(m))'
      <4>1. CASE <<m, q>> \in wire
        <5>1. m = "info" /\ q = p
          BY <1>2, <3>1, <4>1
        <5>2. QED
          BY <2>2, <5>1
      <4>2. CASE <<m, q>> \notin wire
        <5>1. HeardPress(q, Way(m))
          BY <1>1, <3>1, <4>2 DEF Arrived
        <5>2. Way(m)' = Way(m) /\ \A w : HeardPress(q, w) => HeardPress(q, w)'
          BY <2>2 DEF Way
        <5>3. QED
          BY <5>1, <5>2 DEF HeardPress
      <4>3. QED
        BY <4>1, <4>2
    <3>2. \A m \in methods : <<m, tone>> \notin wire'
      BY <1>1, <1>2 DEF Arrived
    <3>3. lastKey' # 0 => HeardPress(lastKey, "stream")'
      <4>1. lastKey # 0 => HeardPress(lastKey, "stream")
        BY <1>1 DEF Arrived
      <4>2. PICK k : k = lastKey
        OBVIOUS
      <4>3. HeardPress(k, "stream") => HeardPress(k, "stream")'
        BY <2>2
      <4>4. QED
        BY <1>2, <4>1, <4>2, <4>3 DEF HeardPress
    <3>4. QED
      BY <1>2, <3>1, <3>2, <3>3 DEF Arrived
  <2>6. ByMethod'
    <3>1. SUFFICES ASSUME NEW i \in 1 .. Len(published')
                   PROVE  LET q == published'[i].press  m == published'[i].by
                          IN /\ q # tone
                             /\ m = "event" => q =< lastKey
                             /\ m = "info" => \A k \in 1 .. Len(presses) : <<"info", k>> \in wire' => q < k
                             /\ m = "tone" => /\ detector.candidate # 0 => q < detector.candidate
                                              /\ detector.active # 0 => q < detector.active
                                              /\ tone # 0 => q < tone
      BY <1>2 DEF ByMethod
    <3>2. CASE i \in 1 .. Len(published) /\ published'[i] = published[i]
      BY <1>1, <1>2, <3>2 DEF ByMethod
    <3>3. CASE published'[i].press = p /\ published'[i].by = "info"
      <4>1. ASSUME NEW k \in 1 .. Len(presses), <<"info", k>> \in wire'
            PROVE  p < k
        <5>1. k # p /\ k \notin 1 .. p - 1
          BY <1>2, <4>1
        <5>2. QED
          BY <1>1, <5>1
      <4>2. QED
        BY <1>1, <3>3, <4>1
    <3>4. QED
      BY <2>2, <3>2, <3>3
  <2>7. KeyAhead'
    BY <1>1, <1>2 DEF KeyAhead
  <2>8. NotOvertaken'
    <3>1. SUFFICES ASSUME NEW i \in 1 .. Len(published'), NEW q \in 1 .. Len(presses),
                          published'[i].by = "tone", <<"event", q>> \in wire, q < published'[i].press
                   PROVE  HeardPress(q, "stream")'
      BY <1>2 DEF NotOvertaken
    <3>2. i \in 1 .. Len(published) /\ published'[i] = published[i]
      BY <2>2, <3>1
    <3>3. HeardPress(q, "stream")
      BY <1>1, <3>1, <3>2 DEF NotOvertaken
    <3>4. QED
      BY <2>2, <3>3
  <2>9. ToneAlone'
    <3>1. \A q \in Nat : HeardPress(q, "stream") => HeardPress(q, "stream")'
      BY <2>2
    <3>2. Silent' = Silent /\ Alone' = Alone
      BY <1>2 DEF Silent, Hears, Alone
    <3>3. PICK n : n = Len(presses)
      OBVIOUS
    <3>4. HeardPress(Len(presses), "stream") => HeardPress(Len(presses), "stream")'
      <4>1. HeardPress(n, "stream") => HeardPress(n, "stream")'
        BY <2>2
      <4>2. QED
        BY <1>2, <3>3, <4>1 DEF HeardPress
    <3>5. \A q \in 1 .. Len(presses) - 1 : q \in Nat
      BY <1>1 DEF DtTypes
    <3>6. QED
      BY <1>1, <1>2, <3>1, <3>2, <3>4, <3>5 DEF ToneAlone
  <2>10. QED
    BY <2>1, <2>3, <2>4, <2>5, <2>6, <2>7, <2>8, <2>9 DEF DtInv, DtCalm
<1>5. QED
  BY <1>3, <1>4

LEMMA DtLost ==
    ASSUME DtInv, NEW p, EventLost(p)
    PROVE  DtInv'
<1>1. dtMishaps' # {} /\ dtMishaps' \subseteq DtMishaps
  BY DEF DtInv, DtTypes, DtMishaps, EventLost
<1>2. wire' \subseteq wire /\ UNCHANGED <<methods, presses, tone, lasted, lastKey, detector, dedup, published>>
  BY DEF EventLost
<1>3. QED
  BY <1>1, <1>2 DEF DtInv, DtTypes

LEMMA DtPress ==
    ASSUME DtmfAssumption, DtInv, dtMishaps = {}, NEW d \in Digits, Press(d)
    PROVE  DtInv'
<1> DEFINE L == Len(presses)
<1>1. /\ DtTypes /\ Arrived /\ ByMethod /\ KeyAhead /\ NotOvertaken /\ Increasing /\ ToneAlone /\ tone = 0
      /\ presses \in Seq(Digits) /\ L \in Nat /\ L < MaxPresses /\ MaxPresses \in Nat
  BY DEF DtInv, DtCalm, Press, DtTypes, DtmfAssumption
<1>2. /\ presses' = Append(presses, d) /\ tone' = L + 1 /\ lasted' = 0
      /\ dtMishaps' = IF "tone" \in methods /\ lasted < MinPause THEN dtMishaps \cup {"hasty"} ELSE dtMishaps
      /\ UNCHANGED <<methods, wire, lastKey, detector, dedup, published>>
  BY DEF Press
<1>3. presses' \in Seq(Digits) /\ Len(presses') = L + 1
  BY <1>1, <1>2
<1> HIDE DEF L
<1>4. /\ L + 1 =< MaxPresses /\ 0 .. L \subseteq 0 .. L + 1 /\ 1 .. L \subseteq 1 .. L + 1
      /\ \A q \in 1 .. L + 1 : q # L + 1 => q \in 1 .. L
      /\ \A q \in 1 .. L : q # L + 1 /\ q < L + 1
  BY <1>1
<1>5. \A i \in 1 .. Len(published) : published[i].press \in 1 .. L
  BY <1>1, DtRecords DEF L
<1>6. DtTypes'
  <2>1. detector' \in [candidate : 0 .. L + 1, length : 0 .. MinTone - 1,
                       active : 0 .. L + 1, gap : 0 .. MinPause - 1, suppress : 0 .. Suppress]
    BY <1>1, <1>2, <1>4 DEF DtTypes, L
  <2>2. published' \in Seq([press : 1 .. L + 1, by : methods])
    <3> DEFINE R == [press : 1 .. L, by : methods]
               S == [press : 1 .. L + 1, by : methods]
    <3>1. published \in Seq(R)
      BY <1>1 DEF DtTypes, L
    <3>2. \A r \in R : r \in S
      BY <1>4
    <3> HIDE DEF R, S
    <3>3. published \in Seq(S)
      BY <3>1, <3>2
    <3>4. QED
      BY <1>2, <3>3 DEF S
  <2>3. wire' \subseteq (methods \ {"tone"}) \X (1 .. L + 1)
    BY <1>1, <1>2, <1>4 DEF DtTypes, L
  <2>4. lasted' \in Nat /\ lasted' =< MinTone /\ tone' # 0 /\ tone' = L + 1
    BY <1>1, <1>2 DEF DtmfAssumption
  <2>5. dtMishaps' \subseteq DtMishaps
    BY <1>2 DEF DtInv, DtMishaps
  <2>6. lastKey' \in 0 .. L + 1
    BY <1>1, <1>2, <1>4 DEF DtTypes, L
  <2>7. QED
    BY <1>1, <1>2, <1>3, <1>4, <2>1, <2>2, <2>3, <2>4, <2>5, <2>6 DEF DtTypes
<1>7. ASSUME dtMishaps' = {}
      PROVE  DtCalm'
  <2>1. \A q, w : HeardPress(q, w)' <=> HeardPress(q, w)
    BY <1>2 DEF HeardPress, Way
  <2>2. Arrived'
    <3>1. \A m \in methods \ {"tone"} : \A q \in 1 .. L + 1 : q # L + 1 /\ <<m, q>> \notin wire => HeardPress(q, Way(m))
      BY <1>1, <1>4 DEF Arrived, L
    <3>2. \A m \in methods : <<m, L + 1>> \notin wire
      BY <1>1, <1>4, DtOnWire DEF L
    <3>3. lastKey # 0 => HeardPress(lastKey, "stream")
      BY <1>1 DEF Arrived
    <3>4. QED
      BY <1>2, <1>3, <2>1, <3>1, <3>2, <3>3 DEF Arrived, Way
  <2>3. ByMethod'
    <3>1. SUFFICES ASSUME NEW i \in 1 .. Len(published)
                   PROVE  LET q == published[i].press  m == published[i].by
                          IN /\ q # L + 1
                             /\ m = "event" => q =< lastKey
                             /\ m = "info" => \A k \in 1 .. L + 1 : <<"info", k>> \in wire => q < k
                             /\ m = "tone" => /\ detector.candidate # 0 => q < detector.candidate
                                              /\ detector.active # 0 => q < detector.active
                                              /\ L + 1 # 0 => q < L + 1
      BY <1>2, <1>3 DEF ByMethod
    <3>2. \A k \in 1 .. L + 1 : <<"info", k>> \in wire => k \in 1 .. L
      BY <1>1, DtOnWire DEF L
    <3>3. published[i].press # L + 1 /\ published[i].press < L + 1
      BY <1>4, <1>5
    <3>4. LET q == published[i].press  m == published[i].by
          IN /\ m = "event" => q =< lastKey
             /\ m = "info" => \A k \in 1 .. L : <<"info", k>> \in wire => q < k
             /\ m = "tone" => /\ detector.candidate # 0 => q < detector.candidate
                              /\ detector.active # 0 => q < detector.active
      BY <1>1 DEF ByMethod, L
    <3>5. QED
      BY <3>2, <3>3, <3>4
  <2>4. NotOvertaken'
    <3>1. \A q \in 1 .. L + 1 : <<"event", q>> \in wire => q \in 1 .. L
      BY <1>1, DtOnWire DEF L
    <3>2. QED
      BY <1>1, <1>2, <1>3, <2>1, <3>1 DEF NotOvertaken, L
  <2>5. Increasing'
    BY <1>1, <1>2 DEF Increasing, Way
  <2>6. ToneAlone'
    <3>1. SUFFICES ASSUME Alone
                   PROVE  /\ detector.suppress = 0
                          /\ \A q \in 1 .. L : HeardPress(q, "stream")
                          /\ detector.active = 0 /\ detector.length = 0 /\ detector.candidate = 0
      <4>1. tone' # 0 /\ lasted' # MinTone /\ Len(presses') - 1 = L
        BY <1>1, <1>2, <1>3 DEF DtmfAssumption
      <4>2. lasted' = 0 /\ detector' = detector /\ methods' = methods
        BY <1>2
      <4>3. \A q, w : HeardPress(q, w)' <=> HeardPress(q, w)
        BY <2>1
      <4>4. QED
        BY <4>1, <4>2, <4>3 DEF ToneAlone, Alone
    <3>2. lasted = MinPause
      <4>1. ~(lasted < MinPause)
        BY <1>2, <1>7, <3>1 DEF Alone
      <4>2. lasted \in Nat /\ MinPause \in Nat /\ lasted =< MinPause
        BY <1>1 DEF DtTypes, DtmfAssumption
      <4>3. QED
        BY <4>1, <4>2
    <3>3. detector = Silent /\ (L # 0 => HeardPress(L, "stream")) /\ \A q \in 1 .. L - 1 : HeardPress(q, "stream")
      BY <1>1, <3>1, <3>2 DEF ToneAlone, Alone, L
    <3>4. \A q \in 1 .. L : q = L \/ q \in 1 .. L - 1
      BY <1>1
    <3>5. \A q \in 1 .. L : HeardPress(q, "stream")
      BY <1>1, <3>3, <3>4
    <3>6. QED
      BY <3>3, <3>5 DEF Silent, Hears
  <2>7. KeyAhead'
    <3>1. lastKey < L + 1
      BY <1>1 DEF DtTypes, L
    <3>2. QED
      BY <1>1, <1>2, <3>1 DEF KeyAhead
  <2>8. QED
    BY <2>2, <2>3, <2>4, <2>5, <2>6, <2>7 DEF DtCalm
<1>8. QED
  BY <1>6, <1>7 DEF DtInv

LEMMA DtKeyUp ==
    ASSUME DtmfAssumption, DtInv, dtMishaps = {}, KeyUp
    PROVE  DtInv'
<1> DEFINE L == Len(presses)
           sent == {<<m, tone>> : m \in methods \ {"tone"}}
<1>1. /\ DtTypes /\ Arrived /\ ByMethod /\ KeyAhead /\ NotOvertaken /\ Increasing /\ ToneAlone
      /\ tone = L /\ L \in Nat \ {0} /\ tone # 0
  BY DEF DtInv, DtCalm, KeyUp, DtTypes
<1>2. /\ wire' = wire \cup sent /\ tone' = 0 /\ lasted' = 0
      /\ dtMishaps' = IF "tone" \in methods /\ lasted < MinTone THEN dtMishaps \cup {"hasty"} ELSE dtMishaps
      /\ UNCHANGED <<methods, presses, lastKey, detector, dedup, published>>
  BY DEF KeyUp
<1>3. DtTypes'
  <2>1. wire' \subseteq (methods \ {"tone"}) \X (1 .. Len(presses))
    BY <1>1, <1>2 DEF DtTypes
  <2>2. lasted' \in Nat /\ lasted' =< MinPause
    BY <1>2 DEF DtmfAssumption
  <2>3. dtMishaps' \subseteq DtMishaps
    BY <1>2 DEF DtInv, DtMishaps
  <2>4. QED
    BY <1>1, <1>2, <2>1, <2>2, <2>3 DEF DtTypes
<1>4. ASSUME dtMishaps' = {}
      PROVE  DtCalm'
  <2>1. \A q, w : HeardPress(q, w)' <=> HeardPress(q, w)
    BY <1>2 DEF HeardPress, Way
  <2>2. \A m, q : <<m, q>> \in wire' => <<m, q>> \in wire \/ (q = tone /\ m \in methods \ {"tone"})
    BY <1>2
  <2>3. Arrived'
    <3>1. ASSUME NEW m \in methods \ {"tone"}, NEW q \in 1 .. L, <<m, q>> \notin wire'
          PROVE  HeardPress(q, Way(m))
      <4>1. q # tone /\ <<m, q>> \notin wire
        BY <1>2, <3>1
      <4>2. QED
        BY <1>1, <4>1 DEF Arrived
    <3>2. \A m \in methods : <<m, 0>> \notin wire'
      BY <1>1, <2>2, DtOnWire
    <3>3. lastKey # 0 => HeardPress(lastKey, "stream")
      BY <1>1 DEF Arrived
    <3>4. QED
      BY <1>2, <2>1, <3>1, <3>2, <3>3 DEF Arrived, Way
  <2>4. ByMethod'
    <3>1. SUFFICES ASSUME NEW i \in 1 .. Len(published)
                   PROVE  LET q == published[i].press  m == published[i].by
                          IN /\ q # 0
                             /\ m = "event" => q =< lastKey
                             /\ m = "info" => \A k \in 1 .. L : <<"info", k>> \in wire' => q < k
                             /\ m = "tone" => /\ detector.candidate # 0 => q < detector.candidate
                                              /\ detector.active # 0 => q < detector.active
      BY <1>2 DEF ByMethod
    <3>4. published[i].press # tone
      BY <1>1 DEF ByMethod
    <3>5. published[i].press \in 1 .. L
      BY <1>1, DtRecords
    <3>2. published[i].press # 0 /\ published[i].press # tone
      BY <1>1, <3>4, <3>5
    <3>3. published[i].press < L
      BY <1>1, <3>4, <3>5
    <3>6. LET q == published[i].press  m == published[i].by
          IN /\ m = "event" => q =< lastKey
             /\ m = "info" => \A k \in 1 .. L : <<"info", k>> \in wire => q < k
             /\ m = "tone" => /\ detector.candidate # 0 => q < detector.candidate
                              /\ detector.active # 0 => q < detector.active
      BY <1>1 DEF ByMethod
    <3>7. \A k \in 1 .. L : <<"info", k>> \in wire' => <<"info", k>> \in wire \/ k = L
      BY <1>1, <2>2
    <3>8. QED
      BY <3>2, <3>3, <3>6, <3>7
  <2>5. NotOvertaken'
    <3>1. SUFFICES ASSUME NEW i \in 1 .. Len(published), NEW q \in 1 .. L, published[i].by = "tone",
                          <<"event", q>> \in wire', q < published[i].press
                   PROVE  HeardPress(q, "stream")
      BY <1>2, <2>1 DEF NotOvertaken
    <3>2. published[i].press \in 1 .. L
      BY <1>1, DtRecords
    <3>3. q # tone
      BY <1>1, <3>1, <3>2
    <3>4. QED
      BY <1>1, <2>2, <3>1, <3>3 DEF NotOvertaken
  <2>6. Increasing'
    BY <1>1, <1>2 DEF Increasing, Way
  <2>7. ToneAlone'
    <3>1. SUFFICES ASSUME Alone
                   PROVE  /\ detector.suppress = 0
                          /\ \A q \in 1 .. L - 1 : HeardPress(q, "stream")
                          /\ L # 0 /\ detector.active = L /\ detector.gap = 0
      <4>1. lasted' = 0 /\ lasted' # MinPause /\ tone' = 0
        BY <1>2 DEF DtmfAssumption
      <4>2. detector' = detector /\ methods' = methods /\ presses' = presses
        BY <1>2
      <4>3. QED
        BY <2>1, <4>1, <4>2 DEF ToneAlone, Alone
    <3>2. lasted = MinTone
      <4>1. ~(lasted < MinTone)
        BY <1>2, <1>4, <3>1 DEF Alone
      <4>2. lasted \in Nat /\ MinTone \in Nat /\ lasted =< MinTone
        BY <1>1 DEF DtTypes, DtmfAssumption
      <4>3. QED
        BY <4>1, <4>2
    <3>3. QED
      BY <1>1, <3>1, <3>2 DEF ToneAlone, Alone
  <2>8. KeyAhead'
    BY <1>1, <1>2 DEF KeyAhead
  <2>9. QED
    BY <2>3, <2>4, <2>5, <2>6, <2>7, <2>8 DEF DtCalm
<1>5. QED
  BY <1>3, <1>4 DEF DtInv

AfterFrame(fed, s) == [fed.state EXCEPT !.suppress = s]

\* What the detector holds after a frame is a press it held, or the one of the frame.
LEMMA FedHolds ==
    ASSUME DtmfAssumption, DtTypes, NEW q \in {0, tone}, NEW fed, fed = Feed(detector, q), NEW s,
           NEW h, h = AfterFrame(fed, s)
    PROVE  /\ h.candidate \in {0, q, detector.candidate}
           /\ h.active \in {0, q, detector.active, detector.candidate}
           /\ h.suppress = s
           /\ fed.done # 0 => h.candidate = q /\ h.active = 0
<1>1. CASE FedNothing(fed, q)
  <2>1. h = [Hears(0, 0, 0, 0) EXCEPT !.suppress = s] /\ fed.done = 0
    BY <1>1 DEF FedNothing, Silent, AfterFrame
  <2>2. h.candidate = 0 /\ h.active = 0 /\ h.suppress = s
    BY <2>1 DEF Hears
  <2>3. QED
    BY <2>1, <2>2
<1>2. CASE FedSame(fed, q)
  <2>1. h = [Hears(0, 0, detector.active, 0) EXCEPT !.suppress = s] /\ fed.done = 0
    BY <1>2 DEF FedSame, AfterFrame
  <2>2. h.candidate = 0 /\ h.active = detector.active /\ h.suppress = s
    BY <2>1 DEF Hears
  <2>3. QED
    BY <2>1, <2>2
<1>3. CASE FedGap(fed, q)
  <2>1. h = [Hears(0, 0, detector.active, detector.gap + 1) EXCEPT !.suppress = s] /\ fed.done = 0
    BY <1>3 DEF FedGap, AfterFrame
  <2>2. h.candidate = 0 /\ h.active = detector.active /\ h.suppress = s
    BY <2>1 DEF Hears
  <2>3. QED
    BY <2>1, <2>2
<1>4. CASE FedEnd(fed, q)
  <2>1. PICK n : h = [Hears(q, n, 0, 0) EXCEPT !.suppress = s]
    BY <1>4 DEF FedEnd, AfterFrame
  <2>2. h.candidate = q /\ h.active = 0 /\ h.suppress = s
    BY <2>1 DEF Hears
  <2>3. QED
    BY <2>2
<1>5. CASE FedTone(fed, q)
  <2>1. PICK c \in {q, detector.candidate}, n \in 1 .. MinTone :
           fed = [state |-> IF n = MinTone THEN Hears(0, 0, c, 0) ELSE Hears(c, n, 0, 0), done |-> 0]
    BY <1>5 DEF FedTone
  <2>2. fed.done = 0
    BY <2>1
  <2>3. CASE n = MinTone
    <3>1. h = [Hears(0, 0, c, 0) EXCEPT !.suppress = s]
      BY <2>1, <2>3 DEF AfterFrame
    <3>2. h.candidate = 0 /\ h.active = c /\ h.suppress = s
      BY <3>1 DEF Hears
    <3>3. QED
      BY <2>2, <3>2
  <2>4. CASE n # MinTone
    <3>1. h = [Hears(c, n, 0, 0) EXCEPT !.suppress = s]
      BY <2>1, <2>4 DEF AfterFrame
    <3>2. h.candidate = c /\ h.active = 0 /\ h.suppress = s
      BY <3>1 DEF Hears
    <3>3. QED
      BY <2>2, <3>2
  <2>5. QED
    BY <2>3, <2>4
<1>6. QED
  BY <1>1, <1>2, <1>3, <1>4, <1>5, FeedDoes

\* The detector keeps step with the key.
LEMMA DtKeepsStep ==
    ASSUME DtmfAssumption, DtTypes, ToneAlone, Alone,
           NEW fed, fed = Feed(detector, tone),
           NEW h, h = [fed.state EXCEPT !.suppress = 0],
           NEW k, k = Up(lasted, IF tone # 0 THEN MinTone ELSE MinPause)
    PROVE  /\ tone # 0 /\ k < MinTone =>
                 h.active = 0 /\ h.length = k /\ h.candidate = IF k = 0 THEN 0 ELSE tone
           /\ tone # 0 /\ k = MinTone => h.active = tone /\ h.gap = 0
           /\ tone = 0 /\ k < MinPause => h.active = Len(presses) /\ h.gap = k /\ Len(presses) # 0
           /\ tone = 0 /\ k = MinPause =>
                 h = Silent /\ (Len(presses) # 0 => HeardPress(Len(presses), "stream") \/ fed.done = Len(presses))
<1> DEFINE L == Len(presses)
<1>1. /\ detector.suppress = 0 /\ detector.active \in 0 .. L /\ detector.gap \in Nat
      /\ detector.length \in Nat /\ tone \in {0, L} /\ L \in Nat /\ lasted \in Nat
      /\ MinTone \in Nat \ {0, 1} /\ MinPause \in Nat \ {0}
      /\ (tone # 0 => lasted =< MinTone) /\ (tone = 0 => lasted =< MinPause)
  BY DEF DtTypes, DtmfAssumption, ToneAlone
<1>2. tone # 0 => Digit(tone) # 0
  BY <1>1, DtDigit
<1>3. CASE tone # 0 /\ lasted < MinTone
  <2>1. detector.active = 0 /\ detector.length = lasted /\ detector.candidate = IF lasted = 0 THEN 0 ELSE tone
    BY <1>3 DEF ToneAlone
  <2>2. FedTone(fed, tone)
    BY <1>1, <1>3, <2>1, FeedDoes DEF FedNothing, FedSame, FedGap, FedEnd
  <2>3. k = lasted + 1
    BY <1>1, <1>3 DEF Up
  <2>4. SameDigit(tone, detector.candidate) <=> lasted # 0
    BY <1>2, <1>3, <2>1 DEF SameDigit, Digit
  <2>5. fed = [state |-> IF lasted + 1 = MinTone THEN Hears(0, 0, tone, 0)
                         ELSE Hears(tone, lasted + 1, 0, 0), done |-> 0]
    <3>1. PICK c, n :
            /\ \/ SameDigit(tone, detector.candidate) /\ c = detector.candidate /\ n = detector.length + 1
               \/ ~SameDigit(tone, detector.candidate) /\ c = tone /\ n = 1
            /\ fed = [state |-> IF n = MinTone THEN Hears(0, 0, c, 0) ELSE Hears(c, n, 0, 0), done |-> 0]
      BY <2>2 DEF FedTone
    <3>2. c = tone /\ n = lasted + 1
      BY <1>1, <2>1, <2>4, <3>1
    <3>3. QED
      BY <3>1, <3>2
  <2>6. CASE lasted + 1 = MinTone
    <3>1. h = [Hears(0, 0, tone, 0) EXCEPT !.suppress = 0]
      BY <2>5, <2>6
    <3>2. h.active = tone /\ h.gap = 0
      BY <3>1 DEF Hears
    <3>3. QED
      BY <1>1, <1>3, <2>3, <2>6, <3>2
  <2>7. CASE lasted + 1 # MinTone
    <3>1. h = [Hears(tone, lasted + 1, 0, 0) EXCEPT !.suppress = 0]
      BY <2>5, <2>7
    <3>2. h.active = 0 /\ h.length = lasted + 1 /\ h.candidate = tone
      BY <3>1 DEF Hears
    <3>3. QED
      BY <1>1, <1>3, <2>3, <2>7, <3>2
  <2>8. QED
    BY <2>6, <2>7
<1>4. CASE tone # 0 /\ lasted = MinTone
  <2>1. detector.active = tone /\ SameDigit(tone, detector.active)
    BY <1>4 DEF ToneAlone, SameDigit
  <2>2. FedSame(fed, tone)
    BY <1>1, <1>4, <2>1, FeedDoes DEF FedNothing, FedTone, FedGap, FedEnd
  <2>3. h = [Hears(0, 0, tone, 0) EXCEPT !.suppress = 0]
    BY <2>1, <2>2 DEF FedSame
  <2>4. h.active = tone /\ h.gap = 0
    BY <2>3 DEF Hears
  <2>5. k = MinTone
    BY <1>1, <1>4 DEF Up
  <2>6. QED
    BY <1>1, <1>4, <2>4, <2>5
<1>5. CASE tone = 0 /\ lasted < MinPause
  <2>1. L # 0 /\ detector.active = L /\ detector.gap = lasted
    BY <1>5 DEF ToneAlone
  <2>2. ~SameDigit(0, L)
    BY <1>1, <2>1, DtDigit DEF SameDigit
  <2>3. k = lasted + 1
    BY <1>1, <1>5 DEF Up
  <2>4. CASE lasted + 1 < MinPause
    <3>1. FedGap(fed, 0)
      BY <1>1, <1>5, <2>1, <2>2, <2>4, FeedDoes DEF FedNothing, FedSame, FedTone, FedEnd
    <3>2. h = [Hears(0, 0, L, lasted + 1) EXCEPT !.suppress = 0]
      BY <2>1, <3>1 DEF FedGap
    <3>3. h.active = L /\ h.gap = lasted + 1
      BY <3>2 DEF Hears
    <3>4. QED
      BY <1>1, <1>5, <2>1, <2>3, <2>4, <3>3
  <2>5. CASE lasted + 1 = MinPause
    <3>1. FedEnd(fed, 0)
      BY <1>1, <1>5, <2>1, <2>2, <2>5, FeedDoes DEF FedNothing, FedSame, FedTone, FedGap
    <3>2. fed.done = L /\ h = [Hears(0, 0, 0, 0) EXCEPT !.suppress = 0]
      BY <2>1, <3>1 DEF FedEnd
    <3>3. h = Silent
      BY <3>2 DEF Hears, Silent
    <3>4. QED
      BY <1>1, <1>5, <2>3, <2>5, <3>2, <3>3
  <2>6. QED
    BY <1>1, <1>5, <2>4, <2>5
<1>6. CASE tone = 0 /\ lasted = MinPause
  <2>1. detector = Silent /\ (L # 0 => HeardPress(L, "stream"))
    BY <1>6 DEF ToneAlone
  <2>2. detector.active = 0
    BY <2>1 DEF Silent, Hears
  <2>3. FedNothing(fed, 0)
    BY <1>1, <1>6, <2>2, FeedDoes DEF FedSame, FedTone, FedGap, FedEnd
  <2>4. h = [Silent EXCEPT !.suppress = 0]
    BY <2>3 DEF FedNothing
  <2>5. h = Silent
    BY <2>4 DEF Hears, Silent
  <2>6. k = MinPause
    BY <1>1, <1>6 DEF Up
  <2>7. QED
    BY <1>1, <1>6, <2>1, <2>5, <2>6
<1>7. QED
  BY <1>1, <1>3, <1>4, <1>5, <1>6

LEMMA DtFrame ==
    ASSUME DtmfAssumption, DtInv, dtMishaps = {}, NextFrame
    PROVE  DtInv'
<1> DEFINE L == Len(presses)
<1>0. PICK q, s, fed :
         /\ q = IF "tone" \in methods THEN tone ELSE 0
         /\ fed = Feed(detector, q) /\ s = Down(detector.suppress)
  OBVIOUS
<1>1. /\ DtTypes /\ Arrived /\ ByMethod /\ KeyAhead /\ NotOvertaken /\ Increasing /\ ToneAlone
      /\ q \in {0, tone} /\ s \in 0 .. Suppress
  <2>1. DtTypes /\ Arrived /\ ByMethod /\ KeyAhead /\ NotOvertaken /\ Increasing /\ ToneAlone
    BY DEF DtInv, DtCalm
  <2>2. detector.suppress \in 0 .. Suppress /\ Suppress \in Nat
    BY <2>1 DEF DtTypes, DtmfAssumption
  <2>3. s \in 0 .. Suppress
    BY <1>0, <2>2 DEF Down
  <2>4. QED
    BY <1>0, <2>1, <2>3
<1>2. /\ detector' = [fed.state EXCEPT !.suppress = s]
      /\ lasted' = Up(lasted, IF tone # 0 THEN MinTone ELSE MinPause)
      /\ UNCHANGED <<methods, presses, tone, wire, lastKey>>
      /\ dedup' = [dedup EXCEPT !.age = Up(@, Window + 1)]
      /\ fed.done = 0 => UNCHANGED <<published, dtMishaps>>
      /\ fed.done # 0 => /\ HandleInboundDtmf(fed.done, "tone")
                         /\ dtMishaps' = IF Overtakes(fed.done) THEN {"reordered"} ELSE {}
  BY <1>0 DEF NextFrame, DtInv
<1>3. /\ detector' \in [candidate : 0 .. L, length : 0 .. MinTone - 1,
                        active : 0 .. L, gap : 0 .. MinPause - 1, suppress : 0 .. Suppress]
      /\ fed.done \in 0 .. L
      /\ fed.done # 0 => fed.done = detector.active /\ FedEnd(fed, q)
  <2>1. fed = Feed(detector, q)
    BY <1>0
  <2>2. QED
    BY <1>1, <1>2, <2>1, FedTypes
<1>4. /\ detector'.candidate \in {0, q, detector.candidate}
      /\ detector'.active \in {0, q, detector.active, detector.candidate}
      /\ detector'.suppress = s
      /\ fed.done # 0 => detector'.candidate = q /\ detector'.active = 0
  <2>1. fed = Feed(detector, q)
    BY <1>0
  <2>2. ASSUME NEW h, h = AfterFrame(fed, s)
        PROVE  /\ h.candidate \in {0, q, detector.candidate}
               /\ h.active \in {0, q, detector.active, detector.candidate}
               /\ h.suppress = s
               /\ fed.done # 0 => h.candidate = q /\ h.active = 0
    BY <1>1, <2>1, <2>2, FedHolds
  <2>3. detector' = AfterFrame(fed, s)
    BY <1>2 DEF AfterFrame
  <2>4. QED
    BY <2>2, <2>3
<1>5. "tone" \notin methods => q = 0 /\ detector.active = 0 /\ detector.candidate = 0
  BY <1>0, <1>1 DEF DtTypes
<1>6. fed.done # 0 => "tone" \in methods /\ q = tone /\ fed.done \in 1 .. L /\ fed.done # tone
  <2>1. ASSUME fed.done # 0
        PROVE  "tone" \in methods
    BY <1>3, <1>5, <2>1
  <2>2. ASSUME fed.done # 0
        PROVE  fed.done # tone
    <3>1. q = tone
      BY <1>0, <2>1, <2>2
    <3>2. ~SameDigit(q, detector.active) /\ fed.done = detector.active
      BY <1>3, <2>2 DEF FedEnd
    <3>3. QED
      BY <3>1, <3>2 DEF SameDigit
  <2>3. L \in Nat
    BY <1>1 DEF DtTypes
  <2>4. QED
    BY <1>0, <1>3, <2>1, <2>2, <2>3
<1>7. DtTypes'
  <2>1. /\ lasted' \in Nat /\ (tone # 0 => lasted' =< MinTone) /\ (tone = 0 => lasted' =< MinPause)
    <3>1. /\ lasted \in Nat /\ (tone # 0 => lasted =< MinTone) /\ (tone = 0 => lasted =< MinPause)
          /\ MinTone \in Nat /\ MinPause \in Nat
      BY <1>1 DEF DtTypes, DtmfAssumption
    <3>2. CASE tone # 0
      <4>1. lasted' = IF lasted < MinTone THEN lasted + 1 ELSE lasted
        BY <1>2, <3>2 DEF Up
      <4>2. QED
        BY <3>1, <3>2, <4>1
    <3>3. CASE tone = 0
      <4>1. lasted' = IF lasted < MinPause THEN lasted + 1 ELSE lasted
        BY <1>2, <3>3 DEF Up
      <4>2. QED
        BY <3>1, <3>3, <4>1
    <3>4. QED
      BY <3>2, <3>3
  <2>2. dedup' \in [digit : Digits \cup {0}, age : 0 .. Window + 1]
    <3>1. dedup.age \in 0 .. Window + 1 /\ Window \in Nat
      BY <1>1 DEF DtTypes, DtmfAssumption
    <3>2. Up(dedup.age, Window + 1) \in 0 .. Window + 1
      BY <3>1 DEF Up
    <3>3. dedup' = [dedup EXCEPT !.age = Up(dedup.age, Window + 1)]
      BY <1>2
    <3>4. QED
      BY <1>1, <3>2, <3>3 DEF DtTypes
  <2>3. published' \in Seq([press : 1 .. Len(presses), by : methods]) /\ dtMishaps' \subseteq DtMishaps
    <3>1. CASE fed.done = 0
      BY <1>1, <1>2, <3>1 DEF DtTypes
    <3>2. CASE fed.done # 0
      <4>1. HandleInboundDtmf(fed.done, "tone") /\ fed.done \in 1 .. Len(presses) /\ "tone" \in methods
        BY <1>2, <1>6, <3>2
      <4>2. published' \in Seq([press : 1 .. Len(presses), by : methods])
        BY <1>1, <4>1, DtAppends
      <4>3. dtMishaps' \subseteq DtMishaps
        BY <1>2, <3>2 DEF DtMishaps
      <4>4. QED
        BY <4>2, <4>3
    <3>3. QED
      BY <3>1, <3>2
  <2>4. QED
    BY <1>1, <1>2, <1>3, <1>4, <1>5, <2>1, <2>2, <2>3 DEF DtTypes
<1>8. ASSUME dtMishaps' = {}
      PROVE  DtCalm'
  <2>1. /\ \A p, w : HeardPress(p, w) => HeardPress(p, w)'
        /\ fed.done # 0 => HeardPress(fed.done, "stream")'
        /\ Increasing'
        /\ \A i \in 1 .. Len(published') :
              \/ i \in 1 .. Len(published) /\ published'[i] = published[i]
              \/ /\ fed.done # 0 /\ published'[i].press = fed.done /\ published'[i].by = "tone"
                 /\ ~Overtakes(fed.done)
    <3>1. CASE fed.done = 0
      <4>1. published' = published
        BY <1>2, <3>1
      <4>2. \A p, w : HeardPress(p, w) => HeardPress(p, w)'
        BY <4>1 DEF HeardPress, Way
      <4>3. Increasing'
        BY <1>1, <4>1 DEF Increasing, Way
      <4>4. QED
        BY <3>1, <4>1, <4>2, <4>3
    <3>2. CASE fed.done # 0
      <4>1. /\ fed.done \in 1 .. Len(presses) /\ "tone" \in methods
            /\ HandleInboundDtmf(fed.done, "tone") /\ fed.done = detector.active /\ ~Overtakes(fed.done)
        BY <1>2, <1>3, <1>6, <1>8, <3>2
      <4>2. \A i \in 1 .. Len(published) : Way(published[i].by) = Way("tone") => published[i].press < fed.done
        <5>1. detector.active # 0
          BY <3>2, <4>1
        <5>2. \A i \in 1 .. Len(published) :
                 Way(published[i].by) = Way("tone") => published[i].press < detector.active
          BY <1>1, <5>1, DtToneIsNew
        <5>3. QED
          BY <4>1, <5>2
      <4>3. PICK d : d = fed.done
        OBVIOUS
      <4>4. /\ \A p, w : HeardPress(p, w) => HeardPress(p, w)'
            /\ HeardPress(d, Way("tone"))'
            /\ \A i \in 1 .. Len(published') :
                  \/ i \in 1 .. Len(published) /\ published'[i] = published[i]
                  \/ published'[i].press = d /\ published'[i].by = "tone"
            /\ /\ Increasing
               /\ \A i \in 1 .. Len(published) : Way(published[i].by) = Way("tone") => published[i].press < d
               => Increasing'
        <5>1. d \in 1 .. Len(presses) /\ "tone" \in methods /\ HandleInboundDtmf(d, "tone")
          BY <4>1, <4>3
        <5>2. QED
          BY <1>1, <5>1, DtAppends
      <4>5. HeardPress(fed.done, "stream")'
        BY <4>3, <4>4 DEF HeardPress, Way
      <4>6. QED
        BY <1>1, <3>2, <4>1, <4>2, <4>3, <4>4, <4>5
    <3>3. QED
      BY <3>1, <3>2
  <2>2. Arrived'
    <3>1. ASSUME NEW m \in methods \ {"tone"}, NEW p \in 1 .. L, p # tone, <<m, p>> \notin wire
          PROVE  HeardPress(p, Way(m))'
      <4>1. HeardPress(p, Way(m))
        BY <1>1, <3>1 DEF Arrived
      <4>2. Way(m)' = Way(m) /\ \A w : HeardPress(p, w) => HeardPress(p, w)'
        BY <2>1 DEF Way
      <4>3. QED
        BY <4>1, <4>2 DEF HeardPress
    <3>2. lastKey' # 0 => HeardPress(lastKey, "stream")'
      BY <1>1, <1>2, <2>1 DEF Arrived, HeardPress
    <3>3. \A m \in methods : <<m, tone>> \notin wire
      BY <1>1 DEF Arrived
    <3>4. QED
      BY <1>2, <3>1, <3>2, <3>3 DEF Arrived
  <2>3. ByMethod'
    <3>1. SUFFICES ASSUME NEW i \in 1 .. Len(published')
                   PROVE  LET p == published'[i].press  m == published'[i].by
                          IN /\ p # tone
                             /\ m = "event" => p =< lastKey
                             /\ m = "info" => \A k \in 1 .. Len(presses) : <<"info", k>> \in wire => p < k
                             /\ m = "tone" => /\ detector'.candidate # 0 => p < detector'.candidate
                                              /\ detector'.active # 0 => p < detector'.active
                                              /\ tone # 0 => p < tone
      BY <1>2 DEF ByMethod
    <3>2. CASE i \in 1 .. Len(published) /\ published'[i] = published[i]
      <4>1. LET p == published[i].press  m == published[i].by
            IN /\ p # tone
               /\ m = "event" => p =< lastKey
               /\ m = "info" => \A k \in 1 .. Len(presses) : <<"info", k>> \in wire => p < k
               /\ m = "tone" => /\ detector.candidate # 0 => p < detector.candidate
                                /\ detector.active # 0 => p < detector.active
                                /\ tone # 0 => p < tone
        BY <1>1, <3>2 DEF ByMethod
      <4>2. q \in {0, tone}
        BY <1>1
      <4>3. QED
        BY <1>4, <3>2, <4>1, <4>2
    <3>3. CASE fed.done # 0 /\ published'[i].press = fed.done /\ published'[i].by = "tone"
      <4>1. tone # 0 => fed.done < tone
        <5>1. tone \in {0, L} /\ L \in Nat
          BY <1>1 DEF DtTypes
        <5>2. QED
          BY <1>6, <3>3, <5>1
      <4>2. QED
        BY <1>4, <1>6, <3>3, <4>1
    <3>4. QED
      BY <2>1, <3>2, <3>3
  <2>4. NotOvertaken'
    <3>1. SUFFICES ASSUME NEW i \in 1 .. Len(published'), NEW p \in 1 .. L,
                          published'[i].by = "tone", <<"event", p>> \in wire, p < published'[i].press
                   PROVE  HeardPress(p, "stream")'
      BY <1>2 DEF NotOvertaken
    <3>2. HeardPress(p, "stream") => HeardPress(p, "stream")'
      BY <2>1
    <3>3. CASE i \in 1 .. Len(published) /\ published'[i] = published[i]
      BY <1>1, <3>1, <3>2, <3>3 DEF NotOvertaken
    <3>4. CASE published'[i].press = fed.done /\ ~Overtakes(fed.done)
      BY <3>1, <3>2, <3>4 DEF Overtakes
    <3>5. QED
      BY <2>1, <3>3, <3>4
  <2>5. ToneAlone'
    <3>1. SUFFICES ASSUME Alone
                   PROVE  /\ detector'.suppress = 0
                          /\ \A p \in 1 .. L - 1 : HeardPress(p, "stream")
                          /\ tone # 0 /\ lasted' < MinTone =>
                                /\ detector'.active = 0 /\ detector'.length = lasted'
                                /\ detector'.candidate = IF lasted' = 0 THEN 0 ELSE tone
                          /\ tone # 0 /\ lasted' = MinTone => detector'.active = tone /\ detector'.gap = 0
                          /\ tone = 0 /\ lasted' < MinPause =>
                                L # 0 /\ detector'.active = L /\ detector'.gap = lasted'
                          /\ tone = 0 /\ lasted' = MinPause =>
                                /\ detector' = Silent
                                /\ Len(presses) # 0 => HeardPress(Len(presses), "stream")'
      <4>1. presses' = presses /\ tone' = tone /\ methods' = methods
        BY <1>2
      <4>2. \A p, w : HeardPress(p, w) => HeardPress(p, w)'
        BY <2>1
      <4>3. Silent' = Silent /\ Alone' = Alone
        BY <4>1 DEF Silent, Hears, Alone
      <4> SUFFICES ASSUME Alone PROVE ToneAlone'
        BY <4>1, <4>3 DEF ToneAlone
      <4>4. QED
        BY <4>1, <4>2, <4>3 DEF ToneAlone
    <3>2. q = tone /\ s = 0 /\ \A p \in 1 .. L - 1 : HeardPress(p, "stream")
      BY <1>0, <1>1, <3>1 DEF ToneAlone, Alone, Down
    <3>3. fed = Feed(detector, tone) /\ detector' = [fed.state EXCEPT !.suppress = 0]
      BY <1>0, <1>2, <3>2
    <3>4. /\ tone # 0 /\ lasted' < MinTone =>
                detector'.active = 0 /\ detector'.length = lasted'
                /\ detector'.candidate = IF lasted' = 0 THEN 0 ELSE tone
          /\ tone # 0 /\ lasted' = MinTone => detector'.active = tone /\ detector'.gap = 0
          /\ tone = 0 /\ lasted' < MinPause => detector'.active = L /\ detector'.gap = lasted' /\ L # 0
          /\ tone = 0 /\ lasted' = MinPause =>
                detector' = Silent /\ (L # 0 => HeardPress(L, "stream") \/ fed.done = L)
      <4>1. PICK h, k : h = detector' /\ k = lasted'
        OBVIOUS
      <4>2. h = [fed.state EXCEPT !.suppress = 0] /\ k = Up(lasted, IF tone # 0 THEN MinTone ELSE MinPause)
        BY <1>2, <3>3, <4>1
      <4>3. /\ tone # 0 /\ k < MinTone =>
                 h.active = 0 /\ h.length = k /\ h.candidate = IF k = 0 THEN 0 ELSE tone
            /\ tone # 0 /\ k = MinTone => h.active = tone /\ h.gap = 0
            /\ tone = 0 /\ k < MinPause => h.active = Len(presses) /\ h.gap = k /\ Len(presses) # 0
            /\ tone = 0 /\ k = MinPause =>
                 h = Silent /\ (Len(presses) # 0 => HeardPress(Len(presses), "stream") \/ fed.done = Len(presses))
        BY <1>1, <3>1, <3>3, <4>2, DtKeepsStep
      <4>4. QED
        BY <4>1, <4>3
    <3>5. PICK n : n = L
      OBVIOUS
    <3>8. HeardPress(Len(presses), "stream")' <=> HeardPress(n, "stream")'
      BY <1>2, <3>5 DEF HeardPress
    <3>9. HeardPress(n, "stream") => HeardPress(n, "stream")'
      BY <2>1
    <3>6. (HeardPress(L, "stream") \/ fed.done = L) /\ L # 0 => HeardPress(Len(presses), "stream")'
      BY <2>1, <3>5, <3>8, <3>9
    <3>7. QED
      BY <1>4, <3>2, <3>4, <3>6
  <2>6. KeyAhead'
    BY <1>1, <1>2, <1>4 DEF KeyAhead
  <2>7. QED
    BY <2>1, <2>2, <2>3, <2>4, <2>5, <2>6 DEF DtCalm
<1>9. QED
  BY <1>7, <1>8 DEF DtInv

LEMMA DtStart ==
    ASSUME DtmfAssumption, DtInit
    PROVE  DtInv
<1>1. DtTypes
  <2>1. Len(presses) = 0 /\ presses \in Seq(Digits) /\ published \in Seq([press : 1 .. Len(presses), by : methods])
    BY DEF DtInit
  <2>2. detector \in [candidate : 0 .. 0, length : 0 .. MinTone - 1,
                      active : 0 .. 0, gap : 0 .. MinPause - 1, suppress : 0 .. Suppress]
    BY DEF DtInit, Silent, Hears, DtmfAssumption
  <2>3. dedup \in [digit : Digits \cup {0}, age : 0 .. Window + 1]
    BY DEF DtInit, DtmfAssumption
  <2>4. detector.candidate = 0 /\ detector.active = 0
    BY DEF DtInit, Silent, Hears
  <2>5. QED
    <3>1. /\ methods \in SUBSET {"event", "tone", "info"} /\ methods # {} /\ wire = {} /\ dtMishaps = {}
          /\ tone = 0 /\ lasted = MinPause /\ lastKey = 0
      BY DEF DtInit
    <3>2. lasted \in Nat /\ lasted =< MinPause /\ 0 =< MaxPresses
      BY <3>1 DEF DtmfAssumption
    <3>3. QED
      BY <2>1, <2>2, <2>3, <2>4, <3>1, <3>2 DEF DtTypes
<1>2. Arrived
  BY DEF DtInit, Arrived
<1>3. ByMethod /\ KeyAhead /\ NotOvertaken /\ Increasing
  BY DEF DtInit, ByMethod, KeyAhead, NotOvertaken, Increasing, Silent, Hears
<1>4. ToneAlone
  BY DEF DtInit, ToneAlone, Silent, Hears, DtmfAssumption
<1>5. QED
  BY <1>1, <1>2, <1>3, <1>4 DEF DtInv, DtCalm

\* Each of the two ways publishes a press once, in order, and leaves none out,
\* until the first mishap: whatever the digits, the durations and the window are.
THEOREM DigitsIsSafe == DtSpec => []DigitsSafe
<1>1. DtInit => DtInv
  BY DtmfAssumption, DtStart
<1>2. DtInv /\ [DtNext]_dtVars => DtInv'
  <2>1. SUFFICES ASSUME DtInv, [DtNext]_dtVars
                 PROVE  DtInv'
    OBVIOUS
  <2>2. CASE UNCHANGED dtVars
    <3>1. UNCHANGED <<methods, presses, tone, lasted, wire, lastKey, detector, dedup, published, dtMishaps>>
      BY <2>2 DEF dtVars
    <3>2. DtTypes' = DtTypes
      BY <3>1 DEF DtTypes
    <3>3. Arrived' = Arrived
      BY <3>1 DEF Arrived, HeardPress, Way
    <3>4. ByMethod' = ByMethod
      BY <3>1 DEF ByMethod
    <3>5. NotOvertaken' = NotOvertaken
      BY <3>1 DEF NotOvertaken, HeardPress, Way
    <3>6. Increasing' = Increasing
      BY <3>1 DEF Increasing, Way
    <3>7. ToneAlone' = ToneAlone
      BY <3>1 DEF ToneAlone, Alone, HeardPress, Way, Silent, Hears
    <3>8. KeyAhead' = KeyAhead
      BY <3>1 DEF KeyAhead
    <3>9. QED
      BY <2>1, <3>1, <3>2, <3>3, <3>4, <3>5, <3>6, <3>7, <3>8 DEF DtInv, DtCalm
  <2>3. CASE dtMishaps = {} /\ \E p \in 1 .. Len(presses) : InfoArrives(p)
    BY <2>1, <2>3, DtmfAssumption, DtInfo
  <2>4. CASE dtMishaps = {} /\ \E p \in 1 .. Len(presses) : EventLost(p)
    BY <2>1, <2>4, DtmfAssumption, DtLost
  <2>5. CASE dtMishaps = {} /\ \E p \in 1 .. Len(presses) : \E last \in BOOLEAN : EventArrives(p, last)
    BY <2>1, <2>5, DtmfAssumption, DtEvent
  <2>6. CASE dtMishaps = {} /\ \E d \in Digits : Press(d)
    BY <2>1, <2>6, DtmfAssumption, DtPress
  <2>7. CASE dtMishaps = {} /\ NextFrame
    BY <2>1, <2>7, DtmfAssumption, DtFrame
  <2>8. CASE dtMishaps = {} /\ KeyUp
    BY <2>1, <2>8, DtmfAssumption, DtKeyUp
  <2>9. QED
    BY <2>1, <2>2, <2>3, <2>4, <2>5, <2>6, <2>7, <2>8 DEF DtNext
<1>3. DtInv => DigitsSafe
  <2>1. SUFFICES ASSUME DtInv
                 PROVE  DigitsSafe
    OBVIOUS
  <2>2. DtTypeOK
    <3>1. /\ 0 =< detector.length /\ detector.length < MinTone /\ detector.gap < MinPause
          /\ lasted =< MinTone \/ lasted =< MinPause
      BY <2>1, DtmfAssumption DEF DtInv, DtTypes, DtmfAssumption
    <3>2. tone \in 0 .. Len(presses)
      BY <2>1 DEF DtInv, DtTypes
    <3>3. QED
      BY <2>1, <3>1, <3>2 DEF DtInv, DtTypes, DtTypeOK
  <2>3. HeardOnceInOrder
    BY <2>1 DEF DtInv, DtCalm, Increasing, HeardOnceInOrder
  <2>4. NothingMissed
    <3>1. SUFFICES ASSUME dtMishaps = {}, wire = {}, tone = 0, lasted = MinPause,
                          NEW m \in methods, NEW p \in 1 .. Len(presses)
                   PROVE  HeardPress(p, Way(m))
      BY DEF NothingMissed
    <3>2. DtTypes /\ Arrived /\ ToneAlone /\ p # tone /\ Len(presses) \in Nat
      BY <2>1, <3>1 DEF DtInv, DtCalm, DtTypes
    <3>3. CASE m # "tone"
      BY <3>1, <3>2, <3>3 DEF Arrived
    <3>4. CASE m = "tone" /\ "event" \in methods
      <4>1. HeardPress(p, Way("event"))
        BY <3>1, <3>2, <3>4 DEF Arrived
      <4>2. Way("event") = Way(m)
        BY <3>4 DEF Way
      <4>3. QED
        BY <4>1, <4>2
    <3>5. CASE m = "tone" /\ "event" \notin methods
      <4>1. HeardPress(p, "stream")
        BY <3>1, <3>2, <3>5 DEF ToneAlone, Alone
      <4>2. Way(m) = "stream"
        BY <3>5 DEF Way
      <4>3. QED
        BY <4>1, <4>2
    <3>6. QED
      BY <3>3, <3>4, <3>5
  <2>5. QED
    BY <2>2, <2>3, <2>4 DEF DigitsSafe
<1>4. QED
  BY <1>1, <1>2, <1>3, PTL DEF DtSpec
=============================================================================
