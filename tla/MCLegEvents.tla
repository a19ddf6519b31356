---------------------------- MODULE MCLegEvents ----------------------------
(***************************************************************************)
(* Instance of LegEvents: a call a and its peer b.  The caller presses 1   *)
(* and 2; the rules are 1 and 12, and 2 ends a multi-digit entry.  A       *)
(* call.wait collects an entry, or takes every digit at once and is told   *)
(* of interrupts; a media.wait drops digits, has a timeout, or both.       *)
(***************************************************************************)
EXTENDS LegEvents

CONSTANTS a, b

MCOrders == {<<a>>, <<a, b>>}
MCDigits == [l \in {a, b} |-> IF l = a THEN {<<1>>, <<2>>} ELSE {}]
MCRules == {<<1>>, <<1, 2>>}
MCTerminator == <<2>>
MCCallOptions ==
    {[clear |-> FALSE, fallback |-> TRUE, multi |-> TRUE, interdigit |-> TRUE, reasons |-> FALSE],
     [clear |-> TRUE, fallback |-> TRUE, multi |-> FALSE, interdigit |-> FALSE, reasons |-> TRUE]}
MCMediaOptions == {[drain |-> TRUE, timed |-> FALSE], [drain |-> TRUE, timed |-> TRUE],
                   [drain |-> FALSE, timed |-> TRUE]}
=============================================================================
