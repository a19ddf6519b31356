------------------------------ MODULE Directory ------------------------------
(***************************************************************************)
(* Whom a dial may ring: the endpoints registered for an extension, which  *)
(* of them are busy, and where an attempt goes when its turn comes.        *)
(*   signaling/extensions/extension-host.ts     listings, busy markers     *)
(*   signaling/calls/outbound-call-service.ts   dial.make, its targets     *)
(*   dials/dial-service.ts                      attempts, one after another*)
(*   signaling/sip/sip-transport-service.ts     resolveOutboundTarget      *)
(*                                                                         *)
(* An endpoint is a contact, so a phone that moves to another address is   *)
(* another endpoint, and the old one stays until it expires.  A busy       *)
(* marker is a leg that is not ended and names an endpoint.                *)
(***************************************************************************)
EXTENDS Naturals, FiniteSets, Sequences, Functions

CONSTANTS Phones,    \* 1 .. n, listed in this order
          Mobile,    \* those that may move, once
          LegIds,      \* legs that may be created
          DialIds    \* dial.make actions

ASSUME DirectoryAssumption ==
    /\ Phones \subseteq Nat \ {0} /\ DialIds \subseteq Nat \ {0} /\ Mobile \subseteq Phones
    /\ IsFiniteSet(Phones) /\ IsFiniteSet(LegIds)

Addresses == {1, 2}
Endpoints == Phones \X Addresses
Nobody == <<0, 0>>

VARIABLES
    at,       \* by phone: the address it has
    bound,    \* the endpoints with a binding in the registry
    legOf,    \* by leg that is not ended: its state, the endpoint in its metadata, its phone,
              \* its dial (0: a call the phone made)
    dial,     \* by dial: its state, strategy, what it asked for, the targets still to try
    dyFlaws   \* history: what the listing could not know

dyVars == <<at, bound, legOf, dial, dyFlaws>>

\* "stale"     a target was picked while free and is rung in its turn while busy
\* "moved"     the phone changed its address during a call
\* "unknown"   a call of the phone could not be matched with its binding
DyFlaws == {"stale", "moved", "unknown"}

NoLeg == [state |-> "none", marker |-> Nobody, phone |-> 0, dial |-> 0]
NoDial == [state |-> "none", strategy |-> "parallel", free |-> TRUE, pending |-> <<>>]

DyTypeOK ==
    /\ at \in [Phones -> Addresses]
    /\ bound \subseteq Endpoints
    /\ legOf \in [LegIds -> [state : {"none", "trying", "answered"},
                         marker : Endpoints \cup (Phones \X {0}), phone : Phones \cup {0},
                         dial : DialIds \cup {0}] \cup {NoLeg}]
    /\ dial \in [DialIds -> [state : {"none", "ringing", "gap", "answered", "failed", "refused"},
                        strategy : {"parallel", "sequential"}, free : BOOLEAN,
                        pending : Seq(Endpoints)]]
    /\ \A d \in DialIds : Len(dial[d].pending) =< Cardinality(Endpoints)
    /\ dyFlaws \subseteq DyFlaws

DyInit ==
    /\ at = [p \in Phones |-> 1]
    /\ bound = {}
    /\ legOf = [l \in LegIds |-> NoLeg]
    /\ dial = [d \in DialIds |-> NoDial]
    /\ dyFlaws = {}

InCall(g, l) == g[l].state \in {"trying", "answered"}
Using(g, p) == {l \in LegIds : InCall(g, l) /\ g[l].phone = p}

NewLegs == {l \in LegIds : legOf[l] = NoLeg}

-----------------------------------------------------------------------------
(* The listings                                                             *)

\* Mutant: nobody is busy.
NeverBusy(e, g) == FALSE

\* collectBusyEndpointMarkers and isRegistrationBusy.
BusyMarkers(g) == {g[l].marker : l \in {k \in LegIds : InCall(g, k)}}
IsRegistrationBusy(e, g) == e \in BusyMarkers(g)

\* listExtensionTargetsInFlow, listAvailableExtensionTargets and
\* listOnlineExtensionTargets: the busy ones left out if asked for, sorted.
Before(a, b) == a[1] < b[1] \/ (a[1] = b[1] /\ a[2] < b[2])
Targets(onlyFree) ==
    LET listed == {e \in bound : onlyFree => ~IsRegistrationBusy(e, legOf)}
        places == 1 .. Cardinality(listed)
    IN {list \in [places -> listed] : \A i, j \in places : i < j => Before(list[i], list[j])}

\* resolveEndpointIdForTriggerLeg: the binding of its contact, else the one of
\* its source, else an endpoint derived from what it sent.
ResolveEndpointId(p, sameContact, sameSource) ==
    CASE sameContact -> <<p, at[p]>>
      [] ~sameContact /\ sameSource /\ <<p, at[p]>> \in bound -> <<p, at[p]>>
      [] OTHER -> <<p, 0>>

\* resolveOutboundTarget: the binding of that endpoint and of no other; the
\* INVITE finds the phone if it is still at that address.
ResolveOutboundTarget(e) ==
    CASE e \notin bound -> [found |-> FALSE, phone |-> 0]
      [] e \in bound -> [found |-> TRUE, phone |-> IF at[e[1]] = e[2] THEN e[1] ELSE 0]

-----------------------------------------------------------------------------
(* The phones                                                               *)

Registers(p) ==
    /\ <<p, at[p]>> \notin bound
    /\ bound' = bound \cup {<<p, at[p]>>}
    /\ UNCHANGED <<at, legOf, dial, dyFlaws>>

\* An expiry that some reader swept, or a REGISTER with Expires 0.
BindingGoes(e) ==
    /\ e \in bound
    /\ bound' = bound \ {e}
    /\ UNCHANGED <<at, legOf, dial, dyFlaws>>

Moves(p) ==
    /\ p \in Mobile /\ at[p] = 1
    /\ at' = [at EXCEPT ![p] = 2]
    /\ dyFlaws' = IF Using(legOf, p) # {} THEN dyFlaws \cup {"moved"} ELSE dyFlaws
    /\ UNCHANGED <<bound, legOf, dial>>

\* A phone calls the PBX when it is not in a call: startInboundExtensionInvite.
PhoneCalls(p, sameContact, sameSource) ==
    /\ Using(legOf, p) = {}
    /\ LET e == ResolveEndpointId(p, sameContact, sameSource)
       IN /\ \E l \in NewLegs :
                legOf' = [legOf EXCEPT ![l] = [state |-> "trying", marker |-> e, phone |-> p, dial |-> 0]]
          /\ dyFlaws' = IF e[2] = 0 THEN dyFlaws \cup {"unknown"} ELSE dyFlaws
    /\ UNCHANGED <<at, bound, dial>>

-----------------------------------------------------------------------------
(* The dials                                                                *)

\* startNextAttempt and, in the same turn, the start of startAttempt, for each
\* of the endpoints: a new leg carries the endpoint, whether it is busy or not.
Attempt(endpoints, d) ==
    \E legs \in SUBSET NewLegs : \E rings \in Bijection(legs, endpoints) :
        legOf' = [l \in LegIds |->
                    IF l \in legs
                    THEN [state |-> "trying", marker |-> rings[l],
                          phone |-> ResolveOutboundTarget(rings[l]).phone, dial |-> d]
                    ELSE legOf[l]]

\* A target that is rung in spite of the mark on it.
Surprise(d, e, g) ==
    IF dial[d].free /\ IsRegistrationBusy(e, g) THEN {"stale"} ELSE {}

\* createDialFromAction: no targets, no dial; parallel attempts all of them.
MakesDial(d, strategy, free) ==
    \E targets \in Targets(free) :
       LET n == IF strategy = "parallel" \/ targets = <<>> THEN Len(targets) ELSE 1
       IN
       /\ dial[d] = NoDial /\ \A e \in DialIds : e < d => dial[e] # NoDial
       /\ Attempt({targets[i] : i \in 1 .. n}, d)
       /\ dial' = [dial EXCEPT ![d] =
                     [state |-> IF targets = <<>> THEN "refused" ELSE "ringing",
                      strategy |-> strategy, free |-> free, pending |-> SubSeq(targets, n + 1, Len(targets))]]
       /\ UNCHANGED <<at, bound, dyFlaws>>

\* The gap timer: the next target of the list made at the beginning.
NextAttempt(d) ==
    /\ dial[d].state = "gap"
    /\ Attempt({Head(dial[d].pending)}, d)
    /\ dial' = [dial EXCEPT ![d].state = "ringing", ![d].pending = Tail(@)]
    /\ dyFlaws' = dyFlaws \cup Surprise(d, Head(dial[d].pending), legOf)
    /\ UNCHANGED <<at, bound>>

\* finalizeDial: what is left of the attempts ends.
Finalized(d, state, g, except) ==
    /\ legOf' = [l \in LegIds |-> IF g[l].dial = d /\ l \notin except THEN NoLeg ELSE g[l]]
    /\ dial' = [dial EXCEPT ![d] = [NoDial EXCEPT !.state = state, !.free = dial[d].free]]

\* markAttemptRejected: by target_unavailable, by the phone or by a time-out.
AttemptFails(d, l) ==
    LET g == [legOf EXCEPT ![l] = NoLeg]
    IN /\ legOf[l].dial = d /\ legOf[l].state = "trying" /\ dial[d].state = "ringing"
       /\ CASE dial[d].pending # <<>> ->
                 legOf' = g /\ dial' = [dial EXCEPT ![d].state = "gap"]
            [] dial[d].pending = <<>> /\ (\E k \in LegIds : g[k].dial = d /\ InCall(g, k)) ->
                 legOf' = g /\ UNCHANGED dial
            [] OTHER -> Finalized(d, "failed", g, {})
       /\ UNCHANGED <<at, bound, dyFlaws>>

\* markAttemptAnswered: the other attempts end.
AttemptAnswered(d, l) ==
    /\ legOf[l].dial = d /\ legOf[l].state = "trying" /\ dial[d].state = "ringing"
    /\ legOf[l].phone # 0
    /\ Finalized(d, "answered", [legOf EXCEPT ![l].state = "answered"], {l})
    /\ UNCHANGED <<at, bound, dyFlaws>>

\* A call is over.
CallEnds(l) ==
    /\ InCall(legOf, l)
    /\ legOf[l].dial = 0 \/ legOf[l].state = "answered"
    /\ legOf' = [legOf EXCEPT ![l] = NoLeg]
    /\ UNCHANGED <<at, bound, dial, dyFlaws>>

DyNext ==
    \/ \E p \in Phones : Registers(p) \/ Moves(p)
    \/ \E e \in bound : BindingGoes(e)
    \/ \E p \in Phones, c, s \in BOOLEAN : PhoneCalls(p, c, s)
    \/ \E d \in DialIds, strategy \in {"parallel", "sequential"}, free \in BOOLEAN : MakesDial(d, strategy, free)
    \/ \E d \in DialIds : NextAttempt(d) \/ \E l \in LegIds : AttemptFails(d, l) \/ AttemptAnswered(d, l)
    \/ \E l \in LegIds : CallEnds(l)

DySpec == DyInit /\ [][DyNext]_dyVars

-----------------------------------------------------------------------------
OfFreeDial(l) == legOf[l].dial = 0 \/ dial[legOf[l].dial].free

\* A dial that wants free endpoints does not ring a phone that is in a call,
\* and two of them do not ring one phone (outbound-call-service.ts:60,
\* extension-host.ts:345-370), but for what the listing could not know.
OneCallPerPhone ==
    dyFlaws = {} =>
        \A p \in Phones : Cardinality({l \in Using(legOf, p) : OfFreeDial(l)}) =< 1

\* An attempt reaches the phone it was meant for or nobody.
RingsTheTarget ==
    \A l \in LegIds : legOf[l].dial # 0 => legOf[l].phone \in {0, legOf[l].marker[1]}

\* A sequential dial rings one endpoint at a time, and is over only when it
\* has none left to ring.
OneAfterAnother ==
    \A d \in DialIds :
        /\ dial[d].strategy = "sequential" => Cardinality({l \in LegIds : legOf[l].dial = d}) =< 1
        /\ dial[d].state = "gap" => \A l \in LegIds : legOf[l].dial # d
        /\ dial[d].state = "ringing" => \E l \in LegIds : legOf[l].dial = d
        /\ dial[d].state = "failed" => dial[d].pending = <<>>

DirectorySafe ==
    DyTypeOK /\ OneCallPerPhone /\ RingsTheTarget /\ OneAfterAnother
=============================================================================
