----------------------------- MODULE MCLegLocks -----------------------------
EXTENDS LegLocks, TLC

\* Tasks are interchangeable, but the run checks liveness: no symmetry.
=============================================================================
