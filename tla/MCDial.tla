------------------------------- MODULE MCDial -------------------------------
(* TLC instance of dials.  A behaviour runs one of three parts, which share   *)
(* no state: a single dial with up to three targets and one dial.wait, the    *)
(* directory of extensions whose phones several dials ring, or several        *)
(* dial.wait actions on two dials.                                            *)
EXTENDS Dial, Directory, DialWaits

CONSTANTS d1, d2

VARIABLE part

\* One dial with attempts that are lost, another that just ends.
MCNews == (d1 :> 2) @@ (d2 :> 0)

MCInit == part \in {"dial", "directory", "waits"} /\ Init /\ DyInit /\ DwInit

MCNext ==
    /\ UNCHANGED part
    /\ \/ part = "dial" /\ Next /\ UNCHANGED <<dyVars, dwVars>>
       \/ part = "directory" /\ DyNext /\ UNCHANGED <<vars, dwVars>>
       \/ part = "waits" /\ DwNext /\ UNCHANGED <<vars, dyVars>>

\* The timers of the dial.
MCFairness ==
    /\ WF_vars(part = "dial" /\ GapOver)
    /\ WF_vars(part = "dial" /\ FreeTtl)
    /\ WF_vars(part = "dial" /\ WaitEnds)

MCSpec == MCInit /\ [][MCNext]_<<vars, dyVars, dwVars, part>> /\ MCFairness
=============================================================================
