----------------------------- MODULE WaitRules -----------------------------
(***************************************************************************)
(* How call.wait matches digits (src/daemon/legs/leg-wait-service.ts,      *)
(* processEvent and finalizeDigits).  A rule is its pattern; its label is  *)
(* left out.  The options o of a wait: fallback (report digits that match  *)
(* no rule), multi (collect them up to the terminator), interdigit (there  *)
(* is an inter-digit timeout) and reasons (interrupts are reported).       *)
(***************************************************************************)
EXTENDS Naturals, Sequences, SequencesExt

CONSTANTS Rules,      \* the patterns, sequences of digits
          Terminator, \* the digits that end a multi-digit entry
          Nobody      \* the leg of an answer that is about no leg

Answer(l, out, ds) == [leg |-> l, out |-> out, digits |-> ds]
Unanswered == Answer(Nobody, "none", <<>>)

Longer(ds) == \E r \in Rules : IsStrictPrefix(ds, r)
Terminated(ds) == Terminator # <<>> /\ IsSuffix(Terminator, ds)
Stripped(ds) == SubSeq(ds, 1, Len(ds) - Len(Terminator))

\* What a wait holds after more digits, and what it reports if it ends.
Keep(ds) == [digits |-> ds, answer |-> Unanswered]
Report(l, out, ds) == [digits |-> ds, answer |-> Answer(l, out, ds)]

ProcessDigits(l, ds, o) ==
    LET terminated == o.multi /\ Terminated(ds)
        final == ds \in Rules /\ (~Longer(ds) \/ ~o.interdigit)
        hopeless == ds \notin Rules /\ ~Longer(ds)
    IN CASE final -> Report(l, "matched", ds)
         [] ~final /\ terminated /\ Stripped(ds) \in Rules -> Report(l, "matched", Stripped(ds))
         [] ~final /\ terminated /\ Stripped(ds) \notin Rules ->
              IF o.fallback THEN Report(l, "fallback", Stripped(ds)) ELSE Keep(<<>>)
         [] ~final /\ ~terminated /\ hopeless /\ ~o.multi ->
              IF o.fallback THEN Report(l, "fallback", ds) ELSE Keep(<<>>)
         [] ~final /\ ~terminated /\ hopeless /\ o.multi ->
              IF o.fallback /\ ~o.interdigit THEN Report(l, "fallback", ds) ELSE Keep(ds)
         [] OTHER -> Keep(ds)

ProcessEvent(l, ds, e, o) ==
    CASE e.kind = "ended" -> [digits |-> ds, answer |-> Answer(l, "ended", <<>>)]
      [] e.kind = "interrupt" ->
           [digits |-> ds, answer |-> IF o.reasons THEN Answer(l, "interrupt", <<>>) ELSE Unanswered]
      [] e.kind = "dtmf" -> ProcessDigits(l, ds \o e.digits, o)

\* What the digits collected so far are worth when the time is up.
FinalizeDigits(l, ds, o) ==
    LET entry == Stripped(ds)
        terminated == o.multi /\ Terminated(ds) /\ Len(ds) > Len(Terminator)
    IN CASE ds = <<>> -> Unanswered
         [] ds # <<>> /\ ds \in Rules -> Answer(l, "matched", ds)
         [] ds # <<>> /\ ds \notin Rules /\ terminated /\ entry \in Rules -> Answer(l, "matched", entry)
         [] OTHER ->
              IF ~o.fallback THEN Unanswered
              ELSE Answer(l, "fallback", IF terminated THEN entry ELSE ds)
=============================================================================
