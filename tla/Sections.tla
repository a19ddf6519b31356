------------------------------ MODULE Sections ------------------------------
(***************************************************************************)
(* What the leg locks promise their users (the comment of                  *)
(* src/daemon/legs/leg-coordinator.ts: "mutations of leg state serialize   *)
(* correctly across subsystems"): a section has the legs it named to       *)
(* itself, all at once, from its first step to its last.                   *)
(***************************************************************************)
CONSTANTS Task, Leg

VARIABLE mine \* the legs of the section a task is running, {} outside one

SectionsInit == mine = [t \in Task |-> {}]

Enter(t, S) ==
    /\ mine[t] = {} /\ S # {}
    /\ \A u \in Task : mine[u] \cap S = {}
    /\ mine' = [mine EXCEPT ![t] = S]

Exit(t) ==
    /\ mine[t] # {}
    /\ mine' = [mine EXCEPT ![t] = {}]

SectionsNext == \E t \in Task : Exit(t) \/ \E S \in SUBSET Leg : Enter(t, S)

SectionsSpec == SectionsInit /\ [][SectionsNext]_mine
=============================================================================
