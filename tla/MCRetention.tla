----------------------------- MODULE MCRetention -----------------------------
(* A leg (asynchronous executor), a dial (synchronous one), three tickets. *)
EXTENDS Retention

CONSTANTS leg1, dial1, t1, t2, t3
=============================================================================
