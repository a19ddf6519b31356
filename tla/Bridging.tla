------------------------------- MODULE Bridging -------------------------------
(* Two legs in a bridge (media/media-service.ts): the peers the media service *)
(* remembers, the retention ticket of a bridge, which both halves point at,   *)
(* and the routing of sound in the worker (media/worker/entities/bridge.ts).  *)
(* Commands of workflows bridge and unbridge; an endpoint that is ensured has *)
(* its bridge routed anew, or rolled back when that fails; a leg that ends    *)
(* takes its bridge down.  Each of them awaits between the sections that      *)
(* change something.                                                          *)
EXTENDS Integers, Sequences, SequencesExt

CONSTANTS Parties,      \* the legs
          Pairs,        \* the pairs that workflows bridge
          Jobs,         \* commands under way at once
          MaxJobs       \* bound on the commands begun

NoPeer == "nobody"

\* A pair is of two legs.
ASSUME BridgingAssumption ==
    /\ Jobs \subseteq Nat /\ MaxJobs \in Nat /\ NoPeer \notin Parties
    /\ Pairs \subseteq Parties \X Parties /\ \A p \in Pairs : p[1] # p[2]

VARIABLES
    state,      \* the legs: live, ended, terminated (its bridge taken down), gone
    peer,       \* bridgePeerByLegId
    slot,       \* bridgeRetentions
    held,       \* tickets not released
    routed,     \* the worker's bridge
    command,        \* the commands under way
    begun,      \* commands begun
    brFlaws     \* legs something went wrong with

brVars == <<state, peer, slot, held, routed, command, begun, brFlaws>>

NoTicket == [ticket |-> 0, with |-> NoPeer]
NoCommand == [at |-> "none", a |-> NoPeer, b |-> NoPeer, id |-> 0, same |-> FALSE,
          legs |-> <<>>, was |-> <<NoPeer, NoPeer>>, todo |-> {}]

BrInit ==
    /\ state = [x \in Parties |-> "live"] /\ peer = [x \in Parties |-> NoPeer]
    /\ slot = [x \in Parties |-> NoTicket] /\ held = {}
    /\ routed = [x \in Parties |-> NoPeer]
    /\ command = [j \in Jobs |-> NoCommand] /\ begun = 0 /\ brFlaws = {}

Known(x) == state[x] # "gone"
Wrong(why, who) == brFlaws' = brFlaws \cup {<<why, x>> : x \in who \ {NoPeer}}
At(j, where) == command[j].at = where
Begins(j) == At(j, "none") /\ begun < MaxJobs /\ \A k \in Jobs : k < j => ~At(k, "none")
Goes(j, where) == command' = [command EXCEPT ![j].at = where]
Done(j) == command' = [command EXCEPT ![j] = NoCommand]
Over(j) == Done(j) /\ UNCHANGED <<state, peer, slot, held, routed, begun, brFlaws>>

\* A plausible mistake: the peer's half goes whichever ticket it is.
ReleaseByLeg(x, s) ==
    [y \in Parties |-> IF s[x].ticket # 0 /\ y \in {x, s[x].with} THEN NoTicket ELSE s[y]]

\* releaseBridgeRetention: the peer's half goes only if it is the same ticket.
ReleaseSlot(x, s) ==
    LET e == s[x] IN
    [y \in Parties |-> IF e.ticket # 0 /\ (y = x \/ (y = e.with /\ s[y].ticket = e.ticket))
                       THEN NoTicket ELSE s[y]]
\* releaseBridgeRetention of these legs in turn.  The two halves of a ticket
\* name each other, so that no release finds what another left of one.
ReleaseSlots(xs, s) ==
    [y \in Parties |-> IF \E x \in xs : ReleaseSlot(x, s)[y] = NoTicket THEN NoTicket ELSE s[y]]
Tickets(s) == {s[x].ticket : x \in Parties}
GivesBack(s) == slot' = s /\ held' = held \ (Tickets(slot) \ Tickets(s))

\* A bridge between two live legs.
Stands(a, b) ==
    b # NoPeer /\ peer[a] = b /\ peer[b] = a /\ state[a] = "live" /\ state[b] = "live"

\* The worker takes these legs out of their bridges.
Split(xs) == [y \in Parties |-> IF y \in xs \/ routed[y] \in xs THEN NoPeer ELSE routed[y]]

\* A command that gives its ticket back by the name of the leg takes the one
\* that stands there.
Stolen(x, id) == {<<"stolen", y>> : y \in IF slot[x].ticket \in {0, id} THEN {}
                                          ELSE {x, slot[x].with}}

\* Deleting the peers of these legs takes one half of a bridge with another.
Torn(xs) == {y \in Parties : peer[y] # NoPeer /\ (y \in xs) # (peer[y] \in xs)}

\* Clearing the routing of these legs cuts a bridge one of them has with another.
Severed(xs) ==
    {y \in Parties : \E x \in xs, z \in Parties \ xs :
                        routed[x] = z /\ peer[x] = z /\ y \in {x, z}}

\* mergeLegs in the worker, for whatever became of the bridge meanwhile.
Merge(a, b) ==
    /\ Known(a) /\ Known(b)
    /\ routed' = [Split({a, b}) EXCEPT ![a] = b, ![b] = a]
    /\ Wrong("crossed", IF peer[a] = b /\ peer[b] = a THEN {} ELSE {a, b, routed[a], routed[b]})

-----------------------------------------------------------------------------
(* bridgeLegs.                                                               *)

\* collectPriorBridgeLegIdsForRebridge.
Prior(a, b) == (IF peer[a] # NoPeer THEN <<a, peer[a]>> ELSE <<>>)
               \o (IF peer[b] # NoPeer THEN <<b, peer[b]>> ELSE <<>>)

BridgeBegins(j, a, b) ==
    /\ Begins(j) /\ <<a, b>> \in Pairs /\ begun' = begun + 1
    /\ LET same == peer[a] = b /\ peer[b] = a IN
       command' = [command EXCEPT ![j] =
                 [NoCommand EXCEPT !.at = IF same \/ Prior(a, b) = <<>> THEN "ensuring" ELSE "detaching",
                               !.a = a, !.b = b, !.id = begun + 1, !.same = same, !.todo = {a, b},
                               !.legs = IF same THEN <<>> ELSE Prior(a, b)]]
    /\ UNCHANGED <<state, peer, slot, held, routed, brFlaws>>

\* The signalling ensures the endpoint of a leg (b is nobody).
EndpointAsked(j, x) ==
    /\ Begins(j) /\ Known(x) /\ begun' = begun + 1
    /\ command' = [command EXCEPT ![j] = [NoCommand EXCEPT !.at = "ensuring", !.a = x,
                                               !.id = begun + 1, !.todo = {x}]]
    /\ UNCHANGED <<state, peer, slot, held, routed, brFlaws>>

AfterEnsuring(j, rest) ==
    command' = [command EXCEPT ![j] =
                    IF rest # {} THEN [@ EXCEPT !.at = "ensuring", !.todo = rest]
                    ELSE IF @.b = NoPeer THEN NoCommand
                    ELSE [@ EXCEPT !.at = "activating", !.todo = {}]]

\* ensureTransportEndpoint of a live leg: a bridge that stands is routed anew.
EndpointEnsured(j, x) ==
    LET rest == command[j].todo \ {x} IN
    /\ At(j, "ensuring") /\ x \in command[j].todo /\ state[x] = "live"
    /\ IF Stands(x, peer[x])
       THEN /\ routed' = Split({x, peer[x]})
            /\ command' = [command EXCEPT ![j].at = "resyncing", ![j].todo = rest,
                                          ![j].legs = <<x, peer[x]>>]
       ELSE AfterEnsuring(j, rest) /\ UNCHANGED routed
    /\ UNCHANGED <<state, peer, slot, held, begun, brFlaws>>

Resynced(j) ==
    /\ At(j, "resyncing") /\ Merge(command[j].legs[1], command[j].legs[2])
    /\ AfterEnsuring(j, command[j].todo)
    /\ UNCHANGED <<state, peer, slot, held, begun>>

\* It failed, and a bridge that was to be routed anew is left without sound.
Unrouted(j) == Wrong("muted", IF At(j, "resyncing") THEN ToSet(command[j].legs) ELSE {})

\* handleRtpSourceChanged and bridgeLegs let the failure pass.
EndpointRefused(j) ==
    /\ At(j, "ensuring") \/ At(j, "resyncing")
    /\ Unrouted(j) /\ Done(j) /\ UNCHANGED <<state, peer, slot, held, routed, begun>>

\* rollbackBridgeAfterTransportFailure: nothing to do for a leg without peer.
RollbackBegins(j) ==
    LET x == command[j].a IN
    /\ At(j, "ensuring") \/ At(j, "resyncing")
    /\ command[j].b = NoPeer /\ peer[x] # NoPeer
    /\ command' = [command EXCEPT ![j].at = "detaching", ![j].legs = <<x, peer[x]>>, ![j].todo = {}]
    /\ Unrouted(j) /\ UNCHANGED <<state, peer, slot, held, routed, begun>>

\* acquireBridgeRetention, and activateBridge up to its wait for the locks.
Retained(j) ==
    LET a == command[j].a b == command[j].b IN
    /\ At(j, "activating") /\ (command[j].same \/ (Known(a) /\ Known(b)))
    /\ IF command[j].same THEN UNCHANGED <<slot, held, brFlaws>>
       ELSE /\ slot' = [slot EXCEPT ![a] = [ticket |-> command[j].id, with |-> b],
                                    ![b] = [ticket |-> command[j].id, with |-> a]]
            /\ held' = held \cup {command[j].id}
            /\ Wrong("overwritten", UNION {IF slot[x].ticket # 0 THEN {x, slot[x].with} ELSE {}
                                           : x \in {a, b}})
    /\ command' = [command EXCEPT ![j].at = "setting", ![j].was = <<peer[a], peer[b]>>]
    /\ UNCHANGED <<state, peer, routed, begun>>

RetentionRefused(j) ==
    /\ At(j, "activating") /\ ~command[j].same
    /\ \E x \in {command[j].a, command[j].b} : ~Known(x)
    /\ Over(j)

\* The peers are set whatever became of the legs: one whose bridge was taken
\* down already, or that another bridge took meanwhile.
PeersSet(j) ==
    LET a == command[j].a b == command[j].b IN
    /\ At(j, "setting")
    /\ peer' = [peer EXCEPT ![a] = b, ![b] = a]
    /\ brFlaws' = brFlaws
         \cup {<<"late", x>> : x \in IF state[a] \in {"terminated", "gone"}
                                        \/ state[b] \in {"terminated", "gone"} THEN {a, b} ELSE {}}
         \cup {<<"overwritten", x>> : x \in Torn({a, b})}
         \cup {<<"unheld", x>> : x \in {y \in {a, b} : slot[y].ticket = 0}}
    /\ Goes(j, "syncing")
    /\ UNCHANGED <<state, slot, held, routed, begun>>

\* syncBridgeRouting: only for a bridge that still stands between live legs.
SyncBegins(j) ==
    LET a == command[j].a b == command[j].b IN
    /\ At(j, "syncing")
    /\ IF Stands(a, b)
       THEN routed' = Split({a, b}) /\ Goes(j, "hosting")
       ELSE Goes(j, "publishing") /\ UNCHANGED routed
    /\ UNCHANGED <<state, peer, slot, held, begun, brFlaws>>

\* Both legs are on one worker.
Hosted(j) ==
    /\ At(j, "hosting")
    /\ \A x \in {command[j].a, command[j].b} : state[x] = "live"
    /\ Goes(j, "binding")
    /\ UNCHANGED <<state, peer, slot, held, routed, begun, brFlaws>>

BridgeBound(j) ==
    /\ At(j, "binding") /\ Merge(command[j].a, command[j].b) /\ Goes(j, "publishing")
    /\ UNCHANGED <<state, peer, slot, held, begun>>

\* The routing failed: the peers are what they were when activateBridge
\* looked, and nobody routes the sound of the bridge they make.
RoutingFails(j) ==
    LET a == command[j].a b == command[j].b IN
    /\ At(j, "hosting") \/ At(j, "binding")
    /\ peer' = [peer EXCEPT ![a] = command[j].was[1], ![b] = command[j].was[2]]
    /\ brFlaws' = brFlaws
         \cup {<<"muted", x>> : x \in {a, b, command[j].was[1], command[j].was[2]} \ {NoPeer}}
         \cup {<<"overwritten", x>> : x \in Torn({a, b})}
         \cup (IF command[j].same THEN {} ELSE Stolen(a, command[j].id))
    /\ IF command[j].same THEN UNCHANGED <<slot, held>> ELSE GivesBack(ReleaseSlot(a, slot))
    /\ Done(j)
    /\ UNCHANGED <<state, routed, begun>>

\* publishLegState throws for a leg that is gone: the ticket is given back,
\* the peers stay.
Published(j) ==
    LET missing == \E x \in {command[j].a, command[j].b} : ~Known(x) IN
    /\ At(j, "publishing")
    /\ IF missing /\ ~command[j].same
       THEN /\ GivesBack(ReleaseSlot(command[j].a, slot))
            /\ brFlaws' = brFlaws \cup Stolen(command[j].a, command[j].id)
       ELSE UNCHANGED <<slot, held, brFlaws>>
    /\ Done(j)
    /\ UNCHANGED <<state, peer, routed, begun>>

-----------------------------------------------------------------------------
(* unbridgeLeg, the rollback, and the first half of a re-bridge.             *)

UnbridgeBegins(j, x) ==
    /\ Begins(j) /\ Known(x) /\ begun' = begun + 1
    /\ command' = [command EXCEPT ![j] = [NoCommand EXCEPT !.at = "detaching", !.a = x, !.id = begun + 1,
                                               !.legs = IF peer[x] = NoPeer THEN <<x>>
                                                        ELSE <<x, peer[x]>>]]
    /\ UNCHANGED <<state, peer, slot, held, routed, brFlaws>>

\* deactivateBridge: clearBridgeRouting.
RoutingCleared(j) ==
    /\ At(j, "detaching") /\ routed' = Split(ToSet(command[j].legs)) /\ Goes(j, "detached")
    /\ Wrong("crossed", Severed(ToSet(command[j].legs)))
    /\ UNCHANGED <<state, peer, slot, held, begun>>

\* Its section: in turn the peers go, up to a leg that is gone, which throws;
\* the halves are the ones that were read at the beginning, and a routing
\* bound since the clearing stays.
Detached(j) ==
    LET legs == command[j].legs
        gone == {i \in 1 .. Len(legs) : ~Known(legs[i])}
        last == IF gone = {} THEN Len(legs) ELSE CHOOSE i \in gone : \A k \in gone : i =< k
        cleared == {legs[i] : i \in 1 .. last} IN
    /\ At(j, "detached")
    /\ peer' = [x \in Parties |-> IF x \in cleared THEN NoPeer ELSE peer[x]]
    /\ brFlaws' = brFlaws \cup {<<"torn", x>> : x \in Torn(cleared)}
         \cup {<<"crossed", x>> : x \in {y \in ToSet(legs) : routed[y] # NoPeer}}
         \cup {<<"unreleased", x>> : x \in IF gone = {} THEN {} ELSE ToSet(legs)}
    /\ IF gone # {} THEN Done(j) /\ UNCHANGED <<slot, held>>
       ELSE /\ GivesBack(IF command[j].b = NoPeer /\ Len(legs) = 1 THEN slot
                         ELSE ReleaseSlots(IF command[j].b = NoPeer THEN {legs[1]} ELSE ToSet(legs), slot))
            /\ IF command[j].b = NoPeer THEN Done(j) ELSE Goes(j, "ensuring")
    /\ UNCHANGED <<state, routed, begun>>

-----------------------------------------------------------------------------
(* A leg ends.                                                               *)

LegEnds(x) ==
    /\ state[x] = "live" /\ state' = [state EXCEPT ![x] = "ended"]
    /\ UNCHANGED <<peer, slot, held, routed, command, begun, brFlaws>>

\* beginBridgeTermination and the release; a peer that is gone makes it throw
\* with the peers deleted and the ticket kept, and the endpoint stays too.
TerminationBegins(x) ==
    LET p == peer[x] IN
    /\ state[x] = "ended"
    /\ peer' = [y \in Parties |-> IF p # NoPeer /\ y \in {x, p} THEN NoPeer ELSE peer[y]]
    /\ brFlaws' = brFlaws
         \cup {<<"swept", y>> : y \in IF p # NoPeer /\ ~Known(p) THEN {x, p} ELSE {}}
         \cup {<<"torn", y>> : y \in IF p = NoPeer THEN {} ELSE Torn({x, p})}
    /\ IF p # NoPeer /\ Known(p) THEN GivesBack(ReleaseSlot(x, slot)) ELSE UNCHANGED <<slot, held>>
    /\ state' = [state EXCEPT ![x] = IF p # NoPeer /\ ~Known(p) THEN "gone" ELSE "terminated"]
    /\ UNCHANGED <<routed, command, begun>>

\* orphanBridgeAfterLegEnd, removeLeg, and the leg leaves the registry.
LegGone(x) ==
    /\ state[x] = "terminated" /\ state' = [state EXCEPT ![x] = "gone"]
    /\ routed' = Split({x}) /\ peer' = [peer EXCEPT ![x] = NoPeer]
    /\ UNCHANGED <<slot, held, command, begun, brFlaws>>

BrNext ==
    \/ \E j \in Jobs :
          \/ \E a, b \in Parties : BridgeBegins(j, a, b)
          \/ Resynced(j) \/ EndpointRefused(j) \/ RollbackBegins(j)
          \/ Retained(j) \/ RetentionRefused(j)
          \/ PeersSet(j) \/ SyncBegins(j) \/ Hosted(j) \/ BridgeBound(j) \/ RoutingFails(j)
          \/ Published(j) \/ RoutingCleared(j) \/ Detached(j)
          \/ \E x \in Parties : UnbridgeBegins(j, x) \/ EndpointAsked(j, x) \/ EndpointEnsured(j, x)
    \/ \E x \in Parties : LegEnds(x) \/ TerminationBegins(x) \/ LegGone(x)

-----------------------------------------------------------------------------
Hit(whys) == {f[2] : f \in {g \in brFlaws : g[1] \in whys}}
Quiet == /\ \A j \in Jobs : At(j, "none")
         /\ \A x \in Parties : state[x] \in {"live", "gone"}

\* Every value is one the code can have.
BrTypeOK ==
    /\ state \in [Parties -> {"live", "ended", "terminated", "gone"}]
    /\ peer \in [Parties -> Parties \cup {NoPeer}]
    /\ routed \in [Parties -> Parties \cup {NoPeer}]
    /\ slot \in [Parties -> [ticket : 0 .. MaxJobs, with : Parties \cup {NoPeer}]]
    /\ held \subseteq 1 .. MaxJobs

\* A peer is mutual, unless another command changed one half between what
\* this one read and what it wrote.
PeersAgree ==
    \A x \in Parties : peer[x] # NoPeer =>
        peer[peer[x]] = x \/ x \in Hit({"overwritten", "torn", "late", "muted"})

\* At rest every ticket that is held stands in the slots of two bridged legs.
TicketsAreBridges ==
    Quiet => /\ \A x \in Parties : slot[x].ticket # 0 =>
                    \/ peer[x] = slot[x].with /\ slot[x].ticket \in held
                    \/ x \in Hit({"overwritten", "torn", "late", "muted", "unreleased", "swept"})
             /\ \A t \in held : t \in Tickets(slot) \/ Hit({"overwritten"}) # {}

\* At rest a leg is bridged with a live leg and holds the bridge's ticket.
BridgedIsHeld ==
    Quiet => \A x \in Parties : peer[x] # NoPeer =>
        \/ state[peer[x]] = "live" /\ slot[x].ticket # 0
        \/ x \in Hit({"overwritten", "torn", "late", "muted", "unreleased", "swept",
                      "unheld", "stolen"})

\* At rest sound goes between the legs of a bridge and no others.
SoundFollowsBridge ==
    Quiet => \A x \in Parties :
        \/ routed[x] = peer[x]
        \/ x \in Hit({"crossed", "overwritten", "torn", "late", "muted", "swept", "unreleased"})
        \/ routed[x] # NoPeer /\ routed[x] \in Hit({"crossed", "swept"})

\* What the media service promises of bridges.
BridgingSafe == BrTypeOK /\ PeersAgree /\ TicketsAreBridges /\ BridgedIsHeld /\ SoundFollowsBridge

BrSpec == BrInit /\ [][BrNext]_brVars
=============================================================================
