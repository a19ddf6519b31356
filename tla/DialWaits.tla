------------------------------ MODULE DialWaits ------------------------------
(* What dial.wait hears of the dials it is given                              *)
(*   dials/dial-wait-service.ts       queued events, terminal snapshots, live *)
(*                                    events, whichever comes first           *)
(*   dials/dial-service.ts, types.ts  the events a dial publishes             *)
(*   sip-pbx-daemon.ts, "dial.wait"   the race with an interruption           *)
(* An event goes to one wait, or is queued in its dial; the end of a dial is  *)
(* kept in a snapshot for a while.  An interruption (a digit, or the end of   *)
(* the caller's leg) is only looked at when the wait begins: it stays queued  *)
(* on the leg, and settles before what the dials have to say.                 *)
EXTENDS Naturals, Sequences, FiniteSetsExt, SequencesExt

CONSTANTS Dials, Waiters,
          MaxNews    \* bound for each dial: its events before its end

ASSUME DialWaitsAssumption ==
    IsFiniteSet(Dials) /\ IsFiniteSet(Waiters) /\ MaxNews \in [Dials -> Nat]

VARIABLES
    dials,     \* "half": answered, but the hang-up of a leg that is gone threw
    snapshot,  \* terminalSnapshots
    said,      \* history: the events each dial published
    mail,      \* events nobody wanted, as places in said, and in their order
    ears,      \* listeners of each dial
    wait,      \* the dial.wait actions; turn orders the listeners of a dial
    typed,     \* an interrupting event is queued on the leg
    dropped    \* history: events that were taken and not returned

dwVars == <<dials, snapshot, said, mail, ears, wait, typed, dropped>>

Ends == {"answered", "failed"}
Silent == [on |-> <<>>, rejections |-> FALSE, stops |-> FALSE]

\* What a wait returns: event n of a dial, the snapshot of one, or neither.
Result(how, d, n) == [how |-> how, dial |-> d, event |-> n]
Other(how) == Result(how, "none", 0)
NoResult == Other("none")

DwInit ==
    /\ dials = [d \in Dials |-> "dialing"]
    /\ snapshot = [d \in Dials |-> "none"]
    /\ said = [d \in Dials |-> <<>>]
    /\ mail = [d \in Dials |-> {}]
    /\ ears = [d \in Dials |-> {}]
    /\ wait = [w \in Waiters |-> [st |-> "new", ask |-> Silent, turn |-> 0, got |-> NoResult]]
    /\ typed = FALSE
    /\ dropped = {}

-----------------------------------------------------------------------------
\* The end of a dial is for everybody, a rejection for those who asked for it.
Matches(ask, what) == what \in Ends \/ ask.rejections

\* EventWaiterSet.publish: the first listener that wants it, if there is one.
Taker(listeners, what) ==
    LET takers == {w \in listeners : Matches(wait[w].ask, what)}
    IN {w \in takers : \A v \in takers : wait[w].turn =< wait[v].turn}

Over(got) == [st |-> "over", ask |-> Silent, turn |-> 0, got |-> got]

\* The waits in settled are over: their listeners on other dials are cancelled.
Settle(settled, got) ==
    /\ wait' = [w \in Waiters |-> IF w \in settled THEN Over(got[w]) ELSE wait[w]]
    /\ ears' = [d \in Dials |-> ears[d] \ settled]

\* Mutant: the others listen on at a dial that is over.
OnlyHearers(d, hearers, over) == hearers

\* rejectEventWaiters: when the dial is over nobody listens any more.
Settled(d, hearers, over) == IF over THEN ears[d] ELSE hearers

\* One handler publishes the events es of d, one or two, and then rejects who
\* still listens, if the dial is over.
PublishAll(d, es, over) ==
    LET n == Len(said[d])
        one == Taker(ears[d], es[1])
        two == IF Len(es) = 2 THEN Taker(ears[d] \ one, es[2]) ELSE {}
        got == [w \in ears[d] |-> CASE w \in one -> Result("event", d, n + 1)
                                    [] w \in two -> Result("event", d, n + 2)
                                    [] OTHER -> Result("dial_finalized", d, 0)]
        unheard == {k \in n + 1 .. n + Len(es) : \A w \in one \cup two : got[w].event # k}
    IN /\ said' = [said EXCEPT ![d] = @ \o es]
       /\ mail' = [mail EXCEPT ![d] = IF over THEN {} ELSE @ \cup unheard]
       /\ Settle(Settled(d, one \cup two, over), got)

\* handleDialDestroy: the snapshot, the event, the rejection of the others.
Finalize(d, es, end) ==
    /\ dials' = [dials EXCEPT ![d] = "over"]
    /\ snapshot' = [snapshot EXCEPT ![d] = end]
    /\ PublishAll(d, Append(es, end), TRUE)
    /\ UNCHANGED <<typed, dropped>>

-----------------------------------------------------------------------------
(* Dials.                                                                    *)

\* markAttemptRejected: another attempt rings or will ring, or it was the last.
Rejected(d) ==
    /\ dials[d] # "over" /\ Len(said[d]) < MaxNews[d]
    /\ \/ /\ PublishAll(d, <<"rejected">>, FALSE)
          /\ UNCHANGED <<dials, snapshot, typed, dropped>>
       \/ Finalize(d, <<"rejected">>, "failed")

\* markAttemptAnswered: published by itself and once more by finalizeDial,
\* unless the hang-up of an earlier attempt throws, whose leg is gone.
IsAnswered(d) ==
    /\ dials[d] # "over"
    /\ \/ /\ dials[d] = "dialing"
          /\ Finalize(d, <<"answered">>, "answered")
       \/ /\ said[d] # <<>> /\ Len(said[d]) < MaxNews[d]
          /\ dials' = [dials EXCEPT ![d] = "half"]
          /\ PublishAll(d, <<"answered">>, FALSE)
          /\ UNCHANGED <<snapshot, typed, dropped>>

\* The last attempt fails or ends, the dial is broken, or its free TTL is over.
Fails(d) == dials[d] # "over" /\ Finalize(d, <<>>, "failed")

SnapshotExpires(d) ==
    /\ snapshot[d] # "none"
    /\ snapshot' = [snapshot EXCEPT ![d] = "none"]
    /\ UNCHANGED <<dials, said, mail, ears, wait, typed, dropped>>

-----------------------------------------------------------------------------
(* Waits.                                                                    *)

Queued(d, ask) == {n \in mail[d] : Matches(ask, said[d][n])}

\* What waitForEvent finds: first the queues of the dials that are listed, in
\* the order they were named, then the snapshots.
Found(ask) ==
    LET on == ask.on
        full == {i \in DOMAIN on : dials[on[i]] # "over" /\ Queued(on[i], ask) # {}}
        ended == {i \in DOMAIN on : snapshot[on[i]] # "none"}
    IN IF \E d \in ToSet(on) : dials[d] = "over" /\ snapshot[d] = "none" THEN Other("invalid")
       ELSE IF full # {} THEN Result("event", on[Min(full)], Min(Queued(on[Min(full)], ask)))
       ELSE IF ended # {} THEN Result("snapshot", on[Min(ended)], 0)
       ELSE NoResult

\* A wait listens behind those that listen already.
NextTurn == Cardinality({v \in Waiters : wait[v].st # "new"}) + 1

DialWait(w, ask) ==
    LET found == Found(ask)
        interrupted == ask.stops /\ typed
        takes == found.how = "event"
    IN /\ wait[w].st = "new"
       /\ wait' = [wait EXCEPT ![w] =
             IF interrupted THEN Over(Other("interrupted"))
             ELSE IF found # NoResult THEN Over(found)
             ELSE [st |-> "waiting", ask |-> ask, turn |-> NextTurn, got |-> NoResult]]
       /\ mail' = IF takes THEN [mail EXCEPT ![found.dial] = @ \ {found.event}] ELSE mail
       /\ dropped' = IF takes /\ interrupted
                     THEN dropped \cup {<<found.dial, found.event>>} ELSE dropped
       /\ ears' = IF wait'[w].st = "waiting"
                  THEN [d \in Dials |-> IF d \in ToSet(ask.on) THEN ears[d] \cup {w} ELSE ears[d]]
                  ELSE ears
       /\ UNCHANGED <<dials, snapshot, said, typed>>

\* A wait ends without its dials: all its listeners are cancelled.
GivesUp(w, how) ==
    /\ wait[w].st = "waiting"
    /\ Settle({w}, [v \in {w} |-> Other(how)])
    /\ UNCHANGED <<dials, snapshot, said, mail, dropped>>

WaitTimesOut(w) == \E how \in {"timeout", "cancelled"} : GivesUp(w, how) /\ UNCHANGED typed

\* A digit of the caller: one wait that it interrupts hears it, or it is queued.
Interrupts(w) == wait[w].ask.stops /\ GivesUp(w, "interrupted") /\ UNCHANGED typed

TypedAhead ==
    /\ ~typed /\ \A w \in Waiters : wait[w].st = "waiting" => ~wait[w].ask.stops
    /\ typed' = TRUE
    /\ UNCHANGED <<dials, snapshot, said, mail, ears, wait, dropped>>

\* A call.wait takes the digit.
ReadByOther ==
    /\ typed /\ typed' = FALSE
    /\ UNCHANGED <<dials, snapshot, said, mail, ears, wait, dropped>>

Asks == [on : {s \in SeqOf(Dials, Cardinality(Dials)) : s # <<>> /\ IsInjective(s)},
         rejections : BOOLEAN, stops : BOOLEAN]

DwNext ==
    \/ \E d \in Dials : Rejected(d) \/ IsAnswered(d) \/ Fails(d) \/ SnapshotExpires(d)
    \/ \E w \in Waiters :
          (\E ask \in Asks : DialWait(w, ask)) \/ WaitTimesOut(w) \/ Interrupts(w)
    \/ TypedAhead \/ ReadByOther

DwSpec == DwInit /\ [][DwNext]_dwVars

-----------------------------------------------------------------------------
DwTypeOK ==
    /\ dials \in [Dials -> {"dialing", "half", "over"}]
    /\ snapshot \in [Dials -> {"none"} \cup Ends]
    /\ \A d \in Dials :
          /\ Len(said[d]) =< MaxNews[d] + 2 /\ mail[d] \subseteq DOMAIN said[d]
          /\ ears[d] \subseteq Waiters
    /\ \A w \in Waiters : wait[w].st \in {"new", "waiting", "over"}
    /\ typed \in BOOLEAN /\ \A e \in dropped : e[2] \in DOMAIN said[e[1]]

\* Who waits, waits for dials that go on, with a listener on each of them
\* (dial-wait-service.ts:98-131, dial-service.ts:317-318): an end that came
\* while the wait looked elsewhere would leave it there without a time-out.
WaitsForTheLiving ==
    \A d \in Dials : /\ ears[d] = {w \in Waiters : wait[w].st = "waiting" /\ d \in ToSet(wait[w].ask.on)}
                     /\ dials[d] = "over" => ears[d] = {}

\* Nothing that a wait would take is queued beside it.
NothingPassesBy ==
    \A w \in Waiters, d \in Dials :
        wait[w].st = "waiting" /\ d \in ToSet(wait[w].ask.on) => Queued(d, wait[w].ask) = {}

Heard(w, d) == wait[w].got.how = "event" /\ wait[w].got.dial = d

\* While a dial goes on each of its events is queued or was returned by one
\* wait, unless that wait was interrupted as it began.
EventsAreKept ==
    \A d \in Dials : dials[d] # "over" =>
        \A n \in DOMAIN said[d] :
            Cardinality({w \in Waiters : Heard(w, d) /\ wait[w].got.event = n})
            + (IF n \in mail[d] THEN 1 ELSE 0)
            + (IF <<d, n>> \in dropped THEN 1 ELSE 0) = 1

\* How a wait learns that d ended.
Learnt(w, d) ==
    LET got == wait[w].got
    IN CASE Heard(w, d) -> {said[d][got.event]} \cap Ends
         [] got.how = "snapshot" /\ got.dial = d -> {"answered", "failed"} \cap {Last(said[d])}
         [] OTHER -> {}

\* Two workflows that hear how one dial ended hear the same, unless the answer
\* could not finalize it.
EndsAgree ==
    \A d \in Dials : ~ Ends \subseteq ToSet(said[d]) =>
        \A v, w \in Waiters : Learnt(v, d) # {} /\ Learnt(w, d) # {} => Learnt(v, d) = Learnt(w, d)

\* A wait that was turned away by the end of a dial left that end to another:
\* somebody heard it.
TurnedAwayByAnother ==
    \A w \in Waiters, d \in Dials :
        wait[w].got.how = "dial_finalized" /\ wait[w].got.dial = d =>
            \E v \in Waiters \ {w} : Learnt(v, d) # {}

\* What dial.wait promises.
DialWaitsSafe ==
    /\ DwTypeOK
    /\ WaitsForTheLiving /\ NothingPassesBy /\ EventsAreKept /\ EndsAgree /\ TurnedAwayByAnother
=============================================================================
