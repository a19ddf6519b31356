------------------------------- MODULE MCQueue -------------------------------
(* Two callers, one of them with a callback: the other one may take over   *)
(* its entry.  Two entries, one with each strategy, one retry.  With two   *)
(* extensions the first one stays free for the queue, so that the dials of *)
(* both entries and an orphaned one compete; with one extension it comes   *)
(* and goes, and nobody online is the rule.                                *)
EXTENDS Queue, TLC

CONSTANTS l1, l2, q1, q2, d1, d2

\* Only the dials are alike: q1 is sequential, l1 may ask for a callback.
Symmetry == Permutations({d1, d2})
=============================================================================
