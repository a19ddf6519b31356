-------------------------------- MODULE MCSip --------------------------------
(* TLC instance of the SIP state machines: an outbound attempt, an inbound    *)
(* call, the trunks of an endpoint, the admission of a request, and what      *)
(* crosses a bridge.  They share no state; one behaviour runs one of them,    *)
(* the others stay in a fixed initial state.                                  *)
EXTENDS SipOutbound, SipInbound, SipTrunks, Admission, BridgeRelay

VARIABLE part

vars == <<outVars, inVars, trVars, adVars, brVars, part>>

\* An endpoint that admits nobody, for the behaviours of the other parts.
AdRest ==
    /\ hosts = <<>> /\ fixed = "none" /\ invite = FALSE /\ strict = FALSE
    /\ phone = "idle" /\ nonce = NoNonce /\ owner = 0 /\ tries = 0 /\ admission = {}

Init ==
    /\ part \in {"outbound", "inbound", "trunks", "admission", "relay"}
    /\ part = "outbound" \/ (own = TRUE /\ auth = TRUE /\ reachable = TRUE)
    /\ part = "inbound" \/ guarded = TRUE
    /\ OutInit /\ InInit /\ TrInit /\ BrInit
    /\ part = "relay" \/ dialog.sdp = TRUE
    /\ IF part = "admission" THEN AdInit ELSE AdRest

Next ==
    /\ UNCHANGED part
    /\ \/ part = "outbound" /\ OutNext /\ UNCHANGED <<inVars, trVars, adVars, brVars>>
       \/ part = "inbound" /\ InNext /\ UNCHANGED <<outVars, trVars, adVars, brVars>>
       \/ part = "trunks" /\ TrNext /\ UNCHANGED <<outVars, inVars, adVars, brVars>>
       \/ part = "admission" /\ AdNext /\ UNCHANGED <<outVars, inVars, trVars, brVars>>
       \/ part = "relay" /\ BrNext /\ UNCHANGED <<outVars, inVars, trVars, adVars>>

\* The fairness of the part that runs.
Fairness ==
    /\ WF_outVars(part = "outbound" /\ OutSystem)
    /\ WF_inVars(part = "inbound" /\ InSystem)
    /\ WF_inVars(part = "inbound" /\ InviteAgain)
    /\ WF_inVars(part = "inbound" /\ HearsRefusal)
    /\ WF_inVars(part = "inbound" /\ HearsOK)
    /\ \A h \in Hosts : WF_trVars(part = "trunks" /\ RegisterFails(h))

Spec == Init /\ [][Next]_vars /\ Fairness
=============================================================================
