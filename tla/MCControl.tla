------------------------------ MODULE MCControl ------------------------------
(* TLC instance of the machines around the calls: the daemon processes, the   *)
(* trigger streams, the extension bindings, the requests to workflows, and the*)
(* commands to a media worker.                                                *)
(* They share no state; a behaviour runs one of them.                         *)
EXTENDS DaemonProcess, TriggerStreams, Bindings, Requests, MediaWorker

VARIABLE part

vars == <<dpVars, tsVars, ebVars, rqVars, mwVars, part>>

\* Two activations of one trigger and one of another.
MCActs == {<<1, 1>>, <<1, 2>>, <<2, 1>>}

Init ==
    /\ part \in {"daemon", "streams", "bindings", "requests", "worker"}
    /\ DpInit /\ TsInit /\ EbInit /\ RqInit /\ MwInit
    /\ part # "requests" => kind = "auth"

Next ==
    /\ UNCHANGED part
    /\ \/ part = "daemon" /\ DpNext /\ UNCHANGED <<tsVars, ebVars, rqVars, mwVars>>
       \/ part = "streams" /\ TsNext /\ UNCHANGED <<dpVars, ebVars, rqVars, mwVars>>
       \/ part = "bindings" /\ EbNext /\ UNCHANGED <<dpVars, tsVars, rqVars, mwVars>>
       \/ part = "requests" /\ RqNext /\ UNCHANGED <<dpVars, tsVars, ebVars, mwVars>>
       \/ part = "worker" /\ MwNext /\ UNCHANGED <<dpVars, tsVars, ebVars, rqVars>>

\* Timers go off, what both ends of a stream have begun goes on, and so does a
\* worker's command.
Fairness ==
    /\ \A d \in Daemons : WF_dpVars(part = "daemon" /\ IdleFires(d))
    /\ \A a \in Acts :
          /\ WF_tsVars(part = "streams" /\ Reopen(a))
          /\ WF_tsVars(part = "streams" /\ Register(a))
          /\ WF_tsVars(part = "streams" /\ Activated(a))
          /\ WF_tsVars(part = "streams" /\ Attach(a))
          /\ WF_tsVars(part = "streams" /\ StreamCloses(a))
    /\ \A r \in Reqs : WF_rqVars(part = "requests" /\ TimesOut(r))
    /\ WF_mwVars(part = "worker" /\ Works)

Spec == Init /\ [][Next]_vars /\ Fairness
=============================================================================
