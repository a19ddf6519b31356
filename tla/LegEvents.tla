----------------------------- MODULE LegEvents -----------------------------
(***************************************************************************)
(* Who hears of what happens on a leg: digits, interrupts and the end of   *)
(* the call.  A leg hands an event to the first of its listeners that      *)
(* wants it, and queues it if none does (src/daemon/core).  Four actions   *)
(* listen: call.wait on one or more legs (src/daemon/legs), media.wait     *)
(* while a medium of the leg plays (src/daemon/media), dial.wait and the   *)
(* voice agent of the leg (src/daemon/sip-pbx-daemon.ts).                  *)
(*                                                                         *)
(* The daemon has one thread.  A publication and the promises it settles   *)
(* are over before the next timer fires or the next message is read: the   *)
(* waits it woke resume first, see Settled.  Time passes when it may: a    *)
(* deadline is either still ahead or over whenever the code looks at it.   *)
(* Terminal snapshots are remembered for longer than any of this takes.    *)
(***************************************************************************)
EXTENDS WaitRules, FiniteSets

CONSTANTS Leg,
          Waits,        \* how many waits are ever asked for
          MaxDtmf, MaxInterrupts, \* bounds: how many events of a kind are published
          QueueLimit,   \* how many events a leg keeps
          Digits,       \* what a digit event of each leg may carry
          CallOptions,  \* options of call.wait, see WaitRules
          MediaOptions, \* of media.wait: drain (the digits of the leg), timed (it has a timeout)
          Orders,       \* the legs of a call.wait, or of a bridge, in order
          Main          \* the legs that media, dials and agents are about

Wait == 1 .. Waits

ASSUME LegEventsAssumption ==
    /\ Waits \in Nat /\ MaxDtmf \in Nat /\ MaxInterrupts \in Nat /\ QueueLimit \in Nat \ {0}
    /\ Main \subseteq Leg
    /\ \A order \in Orders : order \in Seq(Leg) \ {<<>>} /\ IsInjective(order)
    /\ \A l \in Leg : \A ds \in Digits[l] : ds \in Seq(Range(ds)) \ {<<>>}
    /\ Terminator \in Seq(Range(Terminator))

VARIABLES
    leg,       \* "live", "ended" (still registered), "gone"
    queue,     \* the events of a leg that nobody has taken
    listeners, \* its waiters, in the order they registered
    media,     \* the medium of a leg: "playing" or "over"
    watchers,  \* the waiters of that medium
    published, \* how many digits and interrupts were published
    kind,      \* what a wait is: "call", "media", "dial", "agent"
    phase,     \* "none", "waiting", "woken" and "over"
    frame,     \* the locals of a wait under way: its legs, options and digits
    news,      \* what woke it
    answer,    \* what its caller was told
    typed,     \* history: the digits published on a leg
    readers,   \* history: the waits that read or dropped a digit of a leg
    missed     \* history: waits past which an event went, see MediaEnds and CallGoesOn

legVars == <<leg, media, published, typed>>
evVars == <<leg, queue, listeners, media, watchers, published, kind, phase, frame, news,
          answer, typed, readers, missed>>

Event == {[kind |-> "dtmf", digits |-> d] : d \in UNION {Digits[l] : l \in Leg}}
            \cup {[kind |-> "interrupt"], [kind |-> "ended"]}
Ended == [kind |-> "ended"]
IsDtmf(e) == e.kind = "dtmf"
NotDtmf(e) == ~IsDtmf(e)

\* A wait that is not under way, and one that nothing woke.
NoDigits == [l \in Leg |-> <<>>]
NoFrame == [legs |-> <<>>, opts |-> <<>>, digits |-> NoDigits]
NoNews == [what |-> "none"]

\* media.wait drains the digits of a leg unless its medium is interrupted by
\* them.  dial.wait may be interrupted by digits.
Options ==
    [call  |-> CallOptions,
     media |-> MediaOptions,
     dial  |-> [onDtmf : BOOLEAN],
     agent |-> {<<>>}]

EvTypeOK ==
    /\ leg \in [Leg -> {"live", "ended", "gone"}]
    /\ \A l \in Leg : queue[l] \in Seq(Event) /\ Len(queue[l]) <= QueueLimit
    /\ \A l \in Leg : listeners[l] \in Seq(Wait) /\ watchers[l] \in Seq(Wait)
    /\ media \in [Leg -> {"playing", "over"}]
    /\ published \in [dtmf : 0 .. MaxDtmf, interrupt : 0 .. MaxInterrupts]
    /\ \A w \in Wait :
          /\ kind[w] \in {"none", "call", "media", "dial", "agent"}
          /\ phase[w] \in {"none", "waiting", "woken", "over"}
          /\ frame[w] = NoFrame <=> phase[w] \in {"none", "over"}
          /\ frame[w] # NoFrame =>
                /\ frame[w].legs \in Seq(Leg) \ {<<>>}
                /\ frame[w].opts \in Options[kind[w]]
          /\ phase[w] = "woken" <=> news[w] # NoNews
          /\ phase[w] = "over" => answer[w] # Unanswered
          /\ answer[w].out \in {"none", "matched", "fallback", "interrupt", "ended", "timeout", "media",
                               "dial", "cancelled", "leg_finalized", "error"}
    /\ missed \subseteq Wait

EvInit ==
    /\ leg = [l \in Leg |-> "live"] /\ queue = [l \in Leg |-> <<>>]
    /\ listeners = [l \in Leg |-> <<>>]
    /\ media = [l \in Leg |-> IF l \in Main THEN "playing" ELSE "over"] /\ watchers = [l \in Leg |-> <<>>]
    /\ published = [dtmf |-> 0, interrupt |-> 0]
    /\ kind = [w \in Wait |-> "none"] /\ phase = [w \in Wait |-> "none"]
    /\ frame = [w \in Wait |-> NoFrame] /\ news = [w \in Wait |-> NoNews]
    /\ answer = [w \in Wait |-> Unanswered]
    /\ typed = [l \in Leg |-> <<>>] /\ readers = [l \in Leg |-> {}]
    /\ missed = {}

-----------------------------------------------------------------------------
(* Queues and listeners.                                                   *)

\* The k-th place of K, and what s keeps: its elements at those places.
Nth(K, k) == CHOOSE i \in K : Cardinality({j \in K : j <= i}) = k
Picked(s, K) == [k \in 1 .. Cardinality(K) |-> s[Nth(K, k)]]

Wants(w, e) ==
    CASE kind[w] = "call"  -> TRUE
      [] kind[w] = "media" -> IsDtmf(e)
      [] kind[w] = "dial"  -> IsDtmf(e) \/ e = Ended
      [] kind[w] = "agent" -> e = Ended

Takers(l, e) == {w \in ToSet(listeners[l]) : Wants(w, e)}
Taker(l, e) == listeners[l][Min({i \in DOMAIN listeners[l] : Wants(listeners[l][i], e)})]

Push(q, e) ==
    IF Len(q) < QueueLimit THEN Append(q, e) ELSE Append(Tail(q), e)

Without(s, w) == Picked(s, {i \in DOMAIN s : s[i] # w})
Silent(w, ls) == [l \in Leg |-> Without(ls[l], w)]
ListenOn(S, w, ls) == [l \in Leg |-> IF l \in S THEN Append(ls[l], w) ELSE ls[l]]

\* A wait that was woken by one leg is not woken again: what its listener on
\* another leg is handed before it resumes is gone.
Wake(W, what) ==
    LET awake == {w \in W : phase[w] = "waiting"}
    IN /\ phase' = [w \in Wait |-> IF w \in awake THEN "woken" ELSE phase[w]]
       /\ news' = [w \in Wait |-> IF w \in awake THEN what[w] ELSE news[w]]

\* Every wait that was woken has resumed.
Settled == \A w \in Wait : phase[w] # "woken"

\* Bound: nothing happens on a leg any more once every wait is over.
Interest == \E w \in Wait : phase[w] # "over"

\* Event e on the legs of order, one after the other.
Publish(order, e) ==
    LET S == {l \in ToSet(order) : Takers(l, e) # {}}
        first(w) == order[Min({i \in DOMAIN order : order[i] \in S /\ Taker(order[i], e) = w})]
    IN /\ queue' = [l \in Leg |-> IF l \in ToSet(order) \ S THEN Push(queue[l], e) ELSE queue[l]]
       /\ listeners' = [l \in Leg |->
             IF l \in S THEN Without(listeners[l], Taker(l, e)) ELSE listeners[l]]
       /\ Wake({Taker(l, e) : l \in S},
               [w \in Wait |-> [what |-> "event", leg |-> first(w), event |-> e]])

PublishDtmf(l, ds) ==
    /\ Settled /\ Interest /\ published.dtmf < MaxDtmf /\ leg[l] # "gone"
    /\ published' = [published EXCEPT !.dtmf = @ + 1]
    /\ typed' = [typed EXCEPT ![l] = @ \o ds]
    /\ Publish(<<l>>, [kind |-> "dtmf", digits |-> ds])
    /\ UNCHANGED <<leg, media, watchers, kind, frame, answer, readers, missed>>

\* An interrupt of one leg, or of the two legs of a bridge in the same turn.
PublishInterrupt(order) ==
    /\ Settled /\ Interest /\ published.interrupt < MaxInterrupts
    /\ \A l \in ToSet(order) : leg[l] # "gone"
    /\ published' = [published EXCEPT !.interrupt = @ + 1]
    /\ Publish(order, [kind |-> "interrupt"])
    /\ UNCHANGED <<leg, media, watchers, kind, frame, answer, typed, readers, missed>>

\* Mutant: the other listeners are left alone.
EndTellsOne(l) ==
    /\ Settled /\ Interest /\ leg[l] = "live"
    /\ leg' = [leg EXCEPT ![l] = "ended"]
    /\ Publish(<<l>>, Ended)
    /\ UNCHANGED <<media, watchers, published, kind, frame, answer, typed, readers, missed>>

\* handleLegDestroy: the end goes to one listener, the others are rejected.
EndLeg(l) ==
    /\ Settled /\ Interest /\ leg[l] = "live"
    /\ leg' = [leg EXCEPT ![l] = "ended"]
    /\ queue' = [queue EXCEPT ![l] = IF Takers(l, Ended) = {} THEN Push(@, Ended) ELSE @]
    /\ listeners' = [listeners EXCEPT ![l] = <<>>]
    /\ Wake(ToSet(listeners[l]),
            [w \in Wait |-> IF Takers(l, Ended) # {} /\ w = Taker(l, Ended)
                            THEN [what |-> "event", leg |-> l, event |-> Ended]
                            ELSE [what |-> "leg_finalized"]])
    /\ UNCHANGED <<media, watchers, published, kind, frame, answer, typed, readers, missed>>

\* The medium of a leg ends by itself, is stopped, or is ended by the clean-up
\* of the leg.  Its event goes to the first watcher; the others wait on.
MediaEnds(l) ==
    /\ Settled /\ Interest /\ media[l] = "playing"
    /\ media' = [media EXCEPT ![l] = "over"]
    /\ watchers' = [watchers EXCEPT ![l] = IF @ = <<>> THEN @ ELSE Tail(@)]
    /\ Wake(IF watchers[l] = <<>> THEN {} ELSE {Head(watchers[l])}, [w \in Wait |-> [what |-> "media"]])
    /\ missed' = missed \cup (ToSet(watchers[l]) \ {Head(watchers[l]) : i \in DOMAIN watchers[l]})
    /\ UNCHANGED <<leg, queue, listeners, published, kind, frame, answer, typed, readers>>

\* The clean-up of the leg ends and the registry forgets it.
LegGoes(l) ==
    /\ Settled /\ Interest /\ leg[l] = "ended" /\ media[l] = "over"
    /\ leg' = [leg EXCEPT ![l] = "gone"]
    /\ UNCHANGED <<queue, listeners, media, watchers, published, kind, phase, frame, news,
                   answer, typed, readers, missed>>

-----------------------------------------------------------------------------
(* What all waits have in common.                                          *)

\* Requests come one after the other.
Ask(w, k) ==
    /\ Settled /\ phase[w] = "none" /\ \A v \in 1 .. (w - 1) : phase[v] # "none"
    /\ kind' = [kind EXCEPT ![w] = k]

Become(w, p, f) ==
    /\ phase' = [phase EXCEPT ![w] = p]
    /\ frame' = [frame EXCEPT ![w] = f]
    /\ news' = [news EXCEPT ![w] = NoNews]

GoOn(w, f) == Become(w, "waiting", f) /\ UNCHANGED answer

\* A wait that was cancelled has told its caller already.
Over(w, a) ==
    /\ Become(w, "over", NoFrame)
    /\ answer' = [answer EXCEPT ![w] = IF @ = Unanswered THEN a ELSE @]

\* The frame of a wait on one leg.
On(l, o) == [legs |-> <<l>>, opts |-> o, digits |-> NoDigits]
TheLeg(w) == frame[w].legs[1]

Told(out) == Answer(Nobody, out, <<>>)

Waiting(w, k) == Settled /\ phase[w] = "waiting" /\ kind[w] = k
Woken(w, k) == phase[w] = "woken" /\ kind[w] = k

\* w drops the digits queued on the legs of S.
Drained(S) == [l \in Leg |-> IF l \in S 
                        THEN Picked(queue[l], {i \in DOMAIN queue[l] : NotDtmf(queue[l][i])})
                        ELSE queue[l]]
DrainedBy(w, S) ==
    readers' = [l \in Leg |->
       IF l \in S /\ (\E i \in DOMAIN queue[l] : IsDtmf(queue[l][i])) THEN readers[l] \cup {w} ELSE readers[l]]

-----------------------------------------------------------------------------
(* call.wait                                                               *)

\* What a call.wait has read: what it leaves in the queues, its digits, its
\* answer, and the legs it took digits from.
Reading(q) == [queue |-> q, digits |-> NoDigits, answer |-> Unanswered, from |-> {}]

\* One event is taken from the queue of each registered leg, until one is an
\* answer.
OnePass(order, o, r) ==
    LET result(i) ==
            ProcessEvent(order[i], r.digits[order[i]], Head(r.queue[order[i]]), o)
        all == {i \in DOMAIN order : leg[order[i]] # "gone" /\ r.queue[order[i]] # <<>>}
        answers == {i \in all : result(i).answer # Unanswered}
        read == {i \in all : \A j \in answers : i <= j}
        legsRead == {order[i] : i \in read}
        at(l) == CHOOSE i \in read : order[i] = l
    IN [queue |-> [l \in Leg |-> IF l \in legsRead THEN Tail(r.queue[l]) ELSE r.queue[l]],
        digits |-> [l \in Leg |-> IF l \in legsRead THEN result(at(l)).digits ELSE r.digits[l]],
        answer |-> IF answers = {} THEN Unanswered ELSE result(Min(answers)).answer,
        from |-> r.from \cup {l \in legsRead : IsDtmf(Head(r.queue[l]))}]

\* The first leg whose digits are worth something answers for all.
Finalized(order, o, ds) ==
    LET worth(i) == FinalizeDigits(order[i], ds[order[i]], o)
        some == {i \in DOMAIN order : worth(i) # Unanswered}
    IN IF some = {} THEN Told("timeout") ELSE worth(Min(some))

HasRead(w, r) ==
    /\ queue' = r.queue
    /\ readers' = [l \in Leg |-> IF l \in r.from THEN readers[l] \cup {w} ELSE readers[l]]

\* With an answer the wait is over.  Otherwise it makes another pass, and then
\* listens until its deadline, whatever is queued, unless that is over.
CallGoesOn(w, order, o, r, ls) ==
    LET now == IF r.answer # Unanswered THEN r ELSE OnePass(order, o, r)
    IN /\ HasRead(w, now)
       /\ \/ /\ now.answer # Unanswered
             /\ Over(w, now.answer)
             /\ listeners' = ls /\ UNCHANGED missed
          \/ /\ now.answer = Unanswered
             /\ Over(w, Finalized(order, o, now.digits))
             /\ listeners' = ls /\ UNCHANGED missed
          \/ /\ now.answer = Unanswered
             /\ GoOn(w, [legs |-> order, opts |-> o, digits |-> now.digits])
             /\ listeners' = ListenOn(ToSet(order), w, ls)
             /\ missed' = IF \E l \in ToSet(order) : now.queue[l] # <<>>
                          THEN missed \cup {w} ELSE missed

\* Mutant: the terminal snapshots are not looked at.
CallWaitForgetsEnd(w, order, o) ==
    /\ Ask(w, "call")
    /\ CallGoesOn(w, order, o, OnePass(order, o, Reading(queue)), listeners)
    /\ UNCHANGED <<legVars, watchers>>

\* A leg that ended before has a terminal snapshot: it is looked at after one
\* event was taken from each leg that is still registered.
CallWait(w, order, o) ==
    LET kept == IF o.clear THEN Drained({l \in ToSet(order) : leg[l] # "gone"}) ELSE queue
        first == OnePass(order, o, Reading(kept))
        ended == {i \in DOMAIN order : leg[order[i]] # "live"}
    IN /\ Ask(w, "call")
       /\ CallGoesOn(w, order, o,
             IF first.answer = Unanswered /\ ended # {}
             THEN [first EXCEPT !.answer = Answer(order[Min(ended)], "ended", <<>>)] ELSE first,
             listeners)
       /\ UNCHANGED <<legVars, watchers>>

\* The wait is cancelled on its other legs.
CallResumes(w) ==
    LET l == news[w].leg
        f == frame[w]
        result == ProcessEvent(l, f.digits[l], news[w].event, f.opts)
    IN /\ Woken(w, "call") /\ news[w].what = "event"
       /\ CallGoesOn(w, f.legs, f.opts,
             [queue |-> queue, digits |-> [f.digits EXCEPT ![l] = result.digits],
              answer |-> result.answer,
              from |-> IF IsDtmf(news[w].event) THEN {l} ELSE {}],
             Silent(w, listeners))
       /\ UNCHANGED <<legVars, watchers, kind>>

CallRejected(w) ==
    /\ Woken(w, "call") /\ news[w].what = "leg_finalized"
    /\ listeners' = Silent(w, listeners)
    /\ Over(w, Told("leg_finalized"))
    /\ UNCHANGED <<legVars, watchers, kind, queue, readers, missed>>

CallTimesOut(w) ==
    /\ Waiting(w, "call")
    /\ listeners' = Silent(w, listeners)
    /\ Over(w, Finalized(frame[w].legs, frame[w].opts, frame[w].digits))
    /\ UNCHANGED <<legVars, watchers, kind, queue, readers, missed>>

-----------------------------------------------------------------------------
(* media.wait, of the medium of one leg                                    *)

\* The wait registers for the medium and, to drain them, for the digits.
Watch(w, l, o, ls, ws) ==
    LET S == IF o.drain THEN {l} ELSE {}
    IN /\ queue' = Drained(S)
       /\ \/ /\ GoOn(w, On(l, o))
             /\ listeners' = ListenOn(S, w, ls) /\ watchers' = ListenOn({l}, w, ws)
          \/ /\ o.timed
             /\ Over(w, Told("timeout"))
             /\ listeners' = ls /\ watchers' = ws

\* The event of a medium that is over is in its terminal snapshot.
MediaWait(w, l, o) ==
    /\ Ask(w, "media")
    /\ \/ /\ media[l] = "over"
          /\ Over(w, Told("media"))
          /\ UNCHANGED <<queue, listeners, watchers, readers>>
       \/ /\ media[l] = "playing"
          /\ Watch(w, l, o, listeners, watchers)
          /\ DrainedBy(w, IF o.drain THEN {l} ELSE {})
    /\ UNCHANGED <<legVars, missed>>

\* A digit is dropped, and the wait registers anew, behind the others.
MediaDrains(w) ==
    LET l == TheLeg(w)
    IN /\ Woken(w, "media") /\ news[w].what = "event"
       /\ Watch(w, l, frame[w].opts, listeners, Silent(w, watchers))
       /\ readers' = [readers EXCEPT ![l] = @ \cup {w}]
       /\ UNCHANGED <<legVars, kind, missed>>

Unwatched(w) ==
    /\ listeners' = Silent(w, listeners)
    /\ watchers' = Silent(w, watchers)

\* The event of the medium, or the rejection of the digit listener.
MediaResumes(w) ==
    /\ Woken(w, "media") /\ news[w].what # "event"
    /\ Unwatched(w)
    /\ Over(w, Told(news[w].what))
    /\ UNCHANGED <<legVars, kind, queue, readers, missed>>

MediaTimesOut(w) ==
    /\ Waiting(w, "media") /\ frame[w].opts.timed
    /\ Unwatched(w)
    /\ Over(w, Told("timeout"))
    /\ UNCHANGED <<legVars, kind, queue, readers, missed>>

-----------------------------------------------------------------------------
(* dial.wait with a leg that may interrupt it                              *)

\* Digits that do not interrupt are dropped.  What interrupts stays queued.
DialListens(w, l, o) ==
    LET S == IF o.onDtmf THEN {} ELSE {l}
        interrupts == \E i \in DOMAIN Drained(S)[l] :
                         LET e == Drained(S)[l][i] IN e = Ended \/ IsDtmf(e)
    IN /\ queue' = Drained(S)
       /\ \/ /\ interrupts
             /\ Over(w, Told("interrupt"))
             /\ UNCHANGED listeners
          \/ /\ ~interrupts
             /\ GoOn(w, On(l, o))
             /\ listeners' = ListenOn({l}, w, listeners)

DialWait(w, l, o) ==
    /\ Ask(w, "dial")
    /\ \/ /\ leg[l] # "gone"
          /\ DialListens(w, l, o)
          /\ DrainedBy(w, IF o.onDtmf THEN {} ELSE {l})
       \/ /\ leg[l] = "gone"
          /\ GoOn(w, On(l, o))
          /\ UNCHANGED <<queue, listeners, readers>>
    /\ UNCHANGED <<legVars, watchers, missed>>

DialInterrupted(w) ==
    LET l == TheLeg(w)
    IN /\ Woken(w, "dial") /\ news[w].what = "event"
       /\ frame[w].opts.onDtmf \/ news[w].event = Ended
       /\ Over(w, Told("interrupt"))
       /\ readers' = IF news[w].event = Ended THEN readers ELSE [readers EXCEPT ![l] = @ \cup {w}]
       /\ UNCHANGED <<legVars, watchers, kind, queue, listeners, missed>>

DialDrains(w) ==
    LET l == TheLeg(w)
    IN /\ Woken(w, "dial") /\ news[w].what = "event"
       /\ ~frame[w].opts.onDtmf /\ IsDtmf(news[w].event)
       /\ DialListens(w, l, frame[w].opts)
       /\ readers' = [readers EXCEPT ![l] = @ \cup {w}]
       /\ UNCHANGED <<legVars, watchers, kind, missed>>

\* A rejected listener is ignored: the wait goes on without one.
DialDeaf(w) ==
    /\ Woken(w, "dial") /\ news[w].what = "leg_finalized"
    /\ GoOn(w, frame[w])
    /\ UNCHANGED <<legVars, watchers, kind, queue, listeners, readers, missed>>

\* The dial has news, or the time is up.
DialAnswers(w) ==
    /\ Waiting(w, "dial")
    /\ listeners' = Silent(w, listeners)
    /\ \E out \in {"dial", "timeout"} : Over(w, Told(out))
    /\ UNCHANGED <<legVars, watchers, kind, queue, readers, missed>>

-----------------------------------------------------------------------------
(* The voice agent of a leg, and cancellation                              *)

AgentWait(w, l) ==
    /\ Ask(w, "agent")
    /\ \/ /\ leg[l] = "gone"
          /\ Over(w, Told("error"))
          /\ UNCHANGED <<queue, listeners>>
       \/ /\ leg[l] = "ended"
          /\ Over(w, Told("ended"))
          /\ queue' = [queue EXCEPT ![l] =
                IF Ended \in ToSet(@) THEN RemoveAt(@, Min({i \in DOMAIN @ : @[i] = Ended})) ELSE @]
          /\ UNCHANGED listeners
       \/ /\ leg[l] = "live"
          /\ GoOn(w, On(l, <<>>))
          /\ listeners' = ListenOn({l}, w, listeners)
          /\ UNCHANGED queue
    /\ UNCHANGED <<legVars, watchers, readers, missed>>

AgentResumes(w) ==
    /\ Woken(w, "agent")
    /\ Over(w, Told(IF news[w].what = "event" THEN "ended" ELSE "leg_finalized"))
    /\ UNCHANGED <<legVars, watchers, kind, queue, listeners, readers, missed>>

\* The request is cancelled.  A media.wait tells its caller, and goes on.
Cancel(w) ==
    /\ Settled /\ phase[w] = "waiting" /\ answer[w] = Unanswered
    /\ \/ /\ kind[w] = "media"
          /\ answer' = [answer EXCEPT ![w] = Told("cancelled")]
          /\ UNCHANGED <<phase, frame, news, listeners>>
       \/ /\ kind[w] # "media"
          /\ listeners' = Silent(w, listeners)
          /\ Over(w, Told("cancelled"))
    /\ UNCHANGED <<legVars, watchers, kind, queue, readers, missed>>

-----------------------------------------------------------------------------
Asks(w) ==
    \/ \E order \in Orders, o \in CallOptions : CallWait(w, order, o)
    \/ \E l \in Main :
          \/ \E o \in Options.media : MediaWait(w, l, o)
          \/ \E o \in Options.dial : DialWait(w, l, o)
          \/ AgentWait(w, l)

Resumes(w) ==
    \/ CallResumes(w) \/ CallRejected(w)
    \/ MediaDrains(w) \/ MediaResumes(w)
    \/ DialInterrupted(w) \/ DialDrains(w) \/ DialDeaf(w)
    \/ AgentResumes(w)

TimesOut(w) == CallTimesOut(w) \/ MediaTimesOut(w) \/ DialAnswers(w)

EvNext ==
    \/ \E l \in Leg :
          (\E ds \in Digits[l] : PublishDtmf(l, ds)) \/ EndLeg(l) \/ MediaEnds(l) \/ LegGoes(l)
    \/ \E order \in Orders : PublishInterrupt(order)
    \/ \E w \in Wait : Asks(w) \/ Resumes(w) \/ TimesOut(w) \/ Cancel(w)

\* What Resumes(w), and nothing else, does to the phase of a woken wait.
Resumed(w) ==
    /\ phase[w] = "woken"
    /\ phase' \in {[phase EXCEPT ![w] = p] : p \in {"waiting", "over"}}

\* Promises settle, timers fire, and the clean-up of a leg that ended stops
\* its media and ends.  Nobody has to publish, to ask or to hang up.
EvFairness ==
    /\ WF_phase(\E w \in Wait : Resumed(w))
    /\ \A w \in Wait : WF_evVars(TimesOut(w))
    /\ \A l \in Main : WF_evVars(leg[l] # "live" /\ MediaEnds(l))

EvSpec == EvInit /\ [][EvNext]_evVars /\ EvFairness

-----------------------------------------------------------------------------
(* Properties.                                                             *)

\* Nobody listens who is not waiting, on no leg but its own and only once:
\* a listener left behind would take an event from a later wait.  The one
\* exception is a media.wait whose request was cancelled.
OnlyWaitsListen ==
    \A l \in Leg : \A w \in ToSet(listeners[l]) \cup ToSet(watchers[l]) :
       /\ phase[w] \in {"waiting", "woken"} /\ l \in ToSet(frame[w].legs)
       /\ answer[w] # Unanswered => kind[w] = "media" /\ answer[w].out = "cancelled"
       /\ \A i, j \in DOMAIN listeners[l] : i # j => listeners[l][i] # listeners[l][j]

\* A call.wait never sits on a leg that ended, whoever took the end of the
\* call out of the queue, or pushed it out.
EndIsHeard ==
    \A w \in Wait : kind[w] = "call" /\ phase[w] = "waiting" =>
       \A l \in ToSet(frame[w].legs) : leg[l] = "live"

\* The digits a call.wait reports are digits that were pressed on that leg,
\* one after the other: none is missed, none comes twice, none is in the wrong
\* place.  Two exceptions: digits of the leg went to another wait, or the wait
\* listened although more was queued than it had taken.
AnswerWasTyped ==
    \A w \in Wait :
       /\ kind[w] = "call" /\ answer[w].out \in {"matched", "fallback"}
       /\ readers[answer[w].leg] \subseteq {w} /\ w \notin missed
       => \E i \in 1 .. Len(typed[answer[w].leg]) :
             IsPrefix(answer[w].digits,
                      SubSeq(typed[answer[w].leg], i, Len(typed[answer[w].leg])))

\* Every wait on a leg that ended comes to its end, the voice agent and the
\* media.wait without a timeout too, whoever was handed the end of the call.
\* One exception: the event of the medium went to another media.wait.
Robbed(w) == kind[w] = "media" /\ w \in missed
EndedLegFreesWaits ==
    \A w \in Wait :
       frame[w] # NoFrame /\ (\E l \in ToSet(frame[w].legs) : leg[l] # "live")
          ~> phase[w] = "over" \/ Robbed(w)

\* What the waits keep in every state: their listeners, the end of the call,
\* and the digits they report.
EventsSafe == EvTypeOK /\ OnlyWaitsListen /\ EndIsHeard /\ AnswerWasTyped
=============================================================================
