------------------------------- MODULE MCMedia -------------------------------
(* TLC instance of a leg's sound: what its media worker records and plays,   *)
(* the workers legs are placed on, the bridges between them, the RTP stream,  *)
(* the digits a caller presses, and a voice agent's websocket and speech.     *)
(* They share no state; one behaviour runs one of them.                       *)
EXTENDS LegFrames, LegPlayback, WorkerPool, Bridging, RtpStream, WsAudio, Dtmf

VARIABLE part

lpAll == <<lfVars, lpVars>>
strVars == <<rtVars, wsVars, waVars, dtVars>>

vars == <<lfVars, lpVars, wpVars, brVars, rtVars, wsVars, waVars, dtVars, part>>

\* One leg is bridged with either of two others.
MCPairs == {<<"a", "b">>, <<"a", "c">>}

Init ==
    /\ part \in {"frames", "playback", "pool", "bridges", "rtp", "socket", "speech", "digits"}
    /\ LfInit /\ LpInit /\ WpInit /\ BrInit /\ RtInit /\ WsInit /\ WaInit /\ DtInit
    /\ part # "frames" => webSocket /\ split
    /\ part # "digits" => methods = {"event"}

Next ==
    /\ UNCHANGED part
    /\ \/ part = "frames" /\ LfNext /\ UNCHANGED <<lpVars, wpVars, brVars, strVars>>
       \/ part = "playback" /\ LpNext /\ UNCHANGED <<lfVars, wpVars, brVars, strVars>>
       \/ part = "pool" /\ WpNext /\ UNCHANGED <<lpAll, brVars, strVars>>
       \/ part = "bridges" /\ BrNext /\ UNCHANGED <<lpAll, wpVars, strVars>>
       \/ part = "rtp" /\ RtNext /\ UNCHANGED <<lpAll, wpVars, brVars, wsVars, waVars, dtVars>>
       \/ part = "socket" /\ WsNext /\ UNCHANGED <<lpAll, wpVars, brVars, rtVars, waVars, dtVars>>
       \/ part = "speech" /\ WaNext /\ UNCHANGED <<lpAll, wpVars, brVars, rtVars, wsVars, dtVars>>
       \/ part = "digits" /\ DtNext /\ UNCHANGED <<lpAll, wpVars, brVars, rtVars, wsVars, waVars>>

Spec == Init /\ [][Next]_vars
=============================================================================
