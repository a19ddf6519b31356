----------------------------- MODULE QueueProofs -----------------------------
(***************************************************************************)
(* What the call queue keeps of its entries, index, tickets, reservations  *)
(* and dials, for any number of callers, entries, extensions and dials.    *)
(*                                                                         *)
(* Every handler changes at most one entry, so the proof is about what the *)
(* new value of that entry must satisfy (OneEntryStep).  An entry that was *)
(* removed, or whose dial is under way, must not have a branch timer left  *)
(* (TimersAreIdle): the callback of such a timer would dispatch a second   *)
(* dial for it.                                                            *)
(***************************************************************************)
EXTENDS Queue, TLAPS

\* A branch timer that will fire belongs to an entry that waits.
TimersAreIdle == timer \subseteq Idle

\* A registered entry belongs to a leg, which may be over.
EntriesHaveALeg == \A e \in Listed : entry[e].leg \in Leg

IInv == QueueSafe /\ TimersAreIdle /\ EntriesHaveALeg

-----------------------------------------------------------------------------
(* One entry changes.                                                      *)

\* The extensions a dial tries, or has tried.
Tried(s) == {x \in Ext : s.attempt[x] # "no"}

\* The step leaves alone whether the dial d is under way and whom it tries.
Keeps(d) == dial'[d].on = dial[d].on /\ Tried(dial'[d]) = Tried(dial[d])

\* The parts of the state that no invariant but the types is about.
OthersOK ==
    /\ leg \in [Leg -> Phase]
    /\ talking \subseteq Ext
    /\ registered \subseteq Ext
    /\ cleanup \in BOOLEAN

\* Entry e becomes q, and only its former dial may be over: what q and the
\* index must satisfy for the queue to stay as it should be.
LEMMA OneEntryStep ==
    ASSUME QueueAssumption, IInv, OthersOK', NEW e \in Entry, NEW q \in EntryState,
           entry' = [entry EXCEPT ![e] = q],
           byLeg' \in [Leg -> Entry \cup {None}], dial' \in [DialId -> DialState],
           \A d \in DialId : \A f \in Entry \ {e} : entry[f].dispatchedDial = d => Keeps(d),
           q.state = "dispatching" <=> q.dispatchedDial # None,
           q.state = "dispatching" =>
               /\ dial'[q.dispatchedDial].on
               /\ q.reserved = Tried(dial'[q.dispatchedDial])
               /\ \A f \in Entry \ {e} : entry[f].dispatchedDial # q.dispatchedDial
               /\ \A f \in Dispatching \ {e} : entry[f].reserved \cap q.reserved = {},
           q.retention <=> q.state # "absent" /\ q.mode = "live",
           q.state # "absent" => q.leg \in Leg,
           timer' \subseteq Idle', timer \ {e} \subseteq timer',
           q.state = "idle" /\ e \notin timer' => ~q.paused /\ (q.mode = "live" => q.placed),
           IndexConsistent'
    PROVE  IInv'
<1>1. TypeOK /\ entry \in [Entry -> EntryState]
  BY DEF IInv, QueueSafe, TypeOK
<1>2. /\ entry' \in [Entry -> EntryState]
      /\ \A f \in Entry : entry'[f] = IF f = e THEN q ELSE entry[f]
  BY <1>1
<1>3. TypeOK'
  <2>1. timer' \subseteq Entry
    BY DEF Idle
  <2>2. QED
    BY <1>2, <2>1 DEF TypeOK, OthersOK
<1>4. ReservedOnce'
  <2>1. SUFFICES ASSUME NEW f \in Entry, NEW g \in Entry, f # g,
                        entry'[f].state = "dispatching", entry'[g].state = "dispatching"
                 PROVE  entry'[f].reserved \cap entry'[g].reserved = {}
    BY DEF ReservedOnce, Dispatching
  <2>2. CASE f # e /\ g # e
    BY <1>2, <2>1, <2>2 DEF IInv, QueueSafe, ReservedOnce, Dispatching
  <2>3. CASE f = e
    BY <1>2, <2>1, <2>3 DEF Dispatching
  <2>4. CASE g = e
    BY <1>2, <2>1, <2>4 DEF Dispatching
  <2>5. QED
    BY <2>2, <2>3, <2>4
<1>5. DispatchingHasADial'
  <2>1. SUFFICES ASSUME NEW f \in Entry
                 PROVE  /\ entry'[f].state = "dispatching" <=> entry'[f].dispatchedDial # None
                        /\ entry'[f].state = "dispatching" =>
                              LET d == entry'[f].dispatchedDial IN
                              /\ dial'[d].on
                              /\ \A g \in Entry \ {f} : entry'[g].dispatchedDial # d
                              /\ entry'[f].reserved = Tried(dial'[d])
    BY DEF DispatchingHasADial, Dispatching, Owner, Tried
  <2>2. CASE f = e
    BY <1>2, <2>2
  <2>3. CASE f # e
    <3>1. /\ entry[f].state = "dispatching" <=> entry[f].dispatchedDial # None
          /\ entry[f].state = "dispatching" =>
                LET d == entry[f].dispatchedDial IN
                /\ dial[d].on
                /\ \A g \in Entry \ {f} : entry[g].dispatchedDial # d
                /\ entry[f].reserved = Tried(dial[d])
      BY DEF IInv, QueueSafe, DispatchingHasADial, Dispatching, Owner, Tried
    <3>2. entry[f].state = "dispatching" => entry[f].dispatchedDial \in DialId
      BY <1>1, <3>1 DEF EntryState
    <3>3. entry[f].state = "dispatching" => Keeps(entry[f].dispatchedDial)
      BY <2>3, <3>2
    <3>4. entry[f].state = "dispatching" => q.dispatchedDial # entry[f].dispatchedDial
      BY <2>3, <3>1
    <3>5. entry'[f] = entry[f] /\ entry'[e] = q
      BY <1>2, <2>3
    <3>6. \A g \in Entry \ {f} : entry[f].state = "dispatching" =>
             entry'[g].dispatchedDial # entry[f].dispatchedDial
      BY <1>2, <3>1, <3>4
    <3>7. entry[f].state = "dispatching" =>
             /\ dial'[entry[f].dispatchedDial].on
             /\ entry[f].reserved = Tried(dial'[entry[f].dispatchedDial])
      BY <3>1, <3>3 DEF Keeps
    <3>8. QED
      BY <3>1, <3>5, <3>6, <3>7
  <2>4. QED
    BY <2>2, <2>3
<1>6. RetainedWhileLive'
  BY <1>2 DEF IInv, QueueSafe, RetainedWhileLive, Listed
<1>7. WaitingWasAnnounced'
  BY <1>2 DEF IInv, QueueSafe, WaitingWasAnnounced, Idle
<1>8. TimersAreIdle' /\ EntriesHaveALeg'
  BY <1>2 DEF IInv, TimersAreIdle, EntriesHaveALeg, Listed
<1>9. QED
  BY <1>3, <1>4, <1>5, <1>6, <1>7, <1>8 DEF IInv, QueueSafe

\* No entry changes; entries that wait may get a timer, and dials that no
\* entry knows may do anything.
LEMMA QuietStep ==
    ASSUME QueueAssumption, IInv, OthersOK', UNCHANGED <<entry, byLeg>>,
           dial' \in [DialId -> DialState],
           \A d \in DialId : Owner(d) # {} => Keeps(d),
           timer \subseteq timer', timer' \subseteq timer \cup Idle
    PROVE  IInv'
<1>1. TypeOK /\ timer' \subseteq Idle
  BY DEF IInv, QueueSafe, TimersAreIdle
<1>2. TypeOK'
  BY <1>1 DEF TypeOK, OthersOK, Idle
<1>3. DispatchingHasADial'
  <2>1. SUFFICES ASSUME NEW e \in Entry, entry[e].state = "dispatching",
                        NEW d, d = entry[e].dispatchedDial
                 PROVE  dial'[d].on /\ entry[e].reserved = Tried(dial'[d])
    BY DEF IInv, QueueSafe, DispatchingHasADial, Dispatching, Owner, Tried
  <2>2. /\ dial[d].on /\ entry[e].reserved = Tried(dial[d]) /\ d # None
    BY <2>1 DEF IInv, QueueSafe, DispatchingHasADial, Dispatching, Tried
  <2>3. d \in DialId /\ Owner(d) # {}
    BY <1>1, <2>1, <2>2 DEF TypeOK, EntryState, Owner
  <2>4. QED
    BY <2>2, <2>3 DEF Keeps
<1>4. (ReservedOnce /\ RetainedWhileLive /\ IndexConsistent)'
  BY DEF IInv, QueueSafe, ReservedOnce, RetainedWhileLive, IndexConsistent, Dispatching, Listed
<1>5. (WaitingWasAnnounced /\ TimersAreIdle /\ EntriesHaveALeg)'
  BY <1>1 DEF IInv, QueueSafe, WaitingWasAnnounced, TimersAreIdle, EntriesHaveALeg, Idle, Listed
<1>6. QED
  BY <1>2, <1>3, <1>4, <1>5 DEF IInv, QueueSafe

\* An entry that keeps its leg keeps its place in the index.
LEMMA IndexKept ==
    ASSUME QueueAssumption, IInv, NEW e \in Entry, NEW q \in EntryState,
           entry' = [entry EXCEPT ![e] = q], UNCHANGED byLeg,
           q.leg = entry[e].leg, q.state = "absent" <=> entry[e].state = "absent"
    PROVE  IndexConsistent' /\ byLeg' \in [Leg -> Entry \cup {None}]
<1>1. \A f \in Entry : entry'[f] = IF f = e THEN q ELSE entry[f]
  BY DEF IInv, QueueSafe, TypeOK
<1>2. QED
  BY <1>1 DEF IInv, QueueSafe, TypeOK, IndexConsistent, Listed

LEMMA AbsentIsAnEntry == QueueAssumption => Absent \in EntryState
BY DEF QueueAssumption, Absent, EntryState

\* An entry is removed: from the registry, the index and the timers.
LEMMA RemoveStep ==
    ASSUME QueueAssumption, IInv, OthersOK', NEW e \in Entry, RemoveEntry(e),
           dial' \in [DialId -> DialState],
           \A d \in DialId : \A f \in Entry \ {e} : entry[f].dispatchedDial = d => Keeps(d),
           timer \ {e} \subseteq timer', timer' \subseteq (timer \cup Idle) \ {e}
    PROVE  IInv'
<1>1. Absent \in EntryState /\ Absent.state = "absent"
  BY AbsentIsAnEntry DEF Absent
<1>2. TypeOK /\ entry' = [entry EXCEPT ![e] = Absent]
  BY DEF RemoveEntry, IInv, QueueSafe
<1>3. \A f \in Entry : entry'[f] = IF f = e THEN Absent ELSE entry[f]
  BY <1>2 DEF TypeOK
<1>4. \A l \in Leg : byLeg'[l] = IF l = entry[e].leg /\ byLeg[l] = e THEN None ELSE byLeg[l]
  BY DEF RemoveEntry
<1>5. byLeg' \in [Leg -> Entry \cup {None}]
  BY <1>2 DEF RemoveEntry, TypeOK
<1>6. IndexConsistent'
  <2>1. SUFFICES ASSUME NEW l \in Leg, NEW f \in Entry
                 PROVE  byLeg'[l] = f <=> entry'[f].state # "absent" /\ entry'[f].leg = l
    BY DEF IndexConsistent, Listed
  <2>2. byLeg[l] = f <=> entry[f].state # "absent" /\ entry[f].leg = l
    BY DEF IInv, QueueSafe, IndexConsistent, Listed
  <2>3. byLeg[l] = e => entry[e].leg = l
    BY DEF IInv, QueueSafe, IndexConsistent
  <2>4. None # f
    BY DEF QueueAssumption
  <2>5. QED
    BY <1>1, <1>3, <1>4, <2>2, <2>3, <2>4
<1>7. timer' \subseteq Idle'
  BY <1>3 DEF Idle, IInv, TimersAreIdle
<1>8. QED
  BY <1>1, <1>2, <1>5, <1>6, <1>7, OneEntryStep DEF Absent

\* An entry waits again, with its timer armed; its dial may be over.
LEMMA IdleStep ==
    ASSUME QueueAssumption, IInv, OthersOK', NEW e \in Listed, NEW q \in EntryState,
           entry' = [entry EXCEPT ![e] = q], UNCHANGED byLeg, timer' = timer \cup {e},
           q.state = "idle", q.dispatchedDial = None, q.leg = entry[e].leg,
           q.retention <=> q.mode = "live",
           dial' \in [DialId -> DialState],
           \A d \in DialId : \A f \in Entry \ {e} : entry[f].dispatchedDial = d => Keeps(d)
    PROVE  IInv'
<1>1. e \in Entry /\ entry[e].state # "absent" /\ entry[e].leg \in Leg
  BY DEF IInv, EntriesHaveALeg, Listed
<1>2. IndexConsistent' /\ byLeg' \in [Leg -> Entry \cup {None}]
  BY <1>1, IndexKept
<1>3. \A f \in Entry : entry'[f] = IF f = e THEN q ELSE entry[f]
  BY DEF IInv, QueueSafe, TypeOK
<1>4. timer' \subseteq Idle'
  BY <1>1, <1>3 DEF IInv, TimersAreIdle, Idle
<1>5. QED
  BY <1>1, <1>2, <1>4, OneEntryStep

\* What an entry remembers changes, but neither its place nor its dial.
LEMMA NoteStep ==
    ASSUME QueueAssumption, IInv, OthersOK', NEW e \in Entry, NEW q \in EntryState,
           entry' = [entry EXCEPT ![e] = q], UNCHANGED <<byLeg, dial>>,
           q.state = entry[e].state, q.mode = entry[e].mode, q.leg = entry[e].leg,
           q.dispatchedDial = entry[e].dispatchedDial, q.reserved = entry[e].reserved,
           q.retention = entry[e].retention,
           timer \ {e} \subseteq timer', timer' \subseteq timer \cup Idle,
           q.state = "idle" /\ e \notin timer' => ~q.paused /\ (q.mode = "live" => q.placed)
    PROVE  IInv'
<1>1. TypeOK /\ (entry[e].state # "absent" => entry[e].leg \in Leg)
  BY DEF IInv, QueueSafe, EntriesHaveALeg, Listed
<1>2. IndexConsistent' /\ byLeg' \in [Leg -> Entry \cup {None}]
  BY <1>1, IndexKept
<1>3. \A f \in Entry : entry'[f] = IF f = e THEN q ELSE entry[f]
  BY <1>1 DEF TypeOK
<1>4. timer' \subseteq Idle'
  BY <1>3 DEF IInv, TimersAreIdle, Idle
<1>5. dial' \in [DialId -> DialState] /\ \A d \in DialId : Keeps(d)
  BY <1>1 DEF TypeOK, Keeps
<1>6. /\ q.state = "dispatching" <=> q.dispatchedDial # None
      /\ q.retention <=> q.state # "absent" /\ q.mode = "live"
  BY <1>1 DEF IInv, QueueSafe, DispatchingHasADial, RetainedWhileLive, Dispatching, Listed
<1>7. q.state = "dispatching" =>
        /\ dial'[q.dispatchedDial].on
        /\ q.reserved = Tried(dial'[q.dispatchedDial])
        /\ \A f \in Entry \ {e} : entry[f].dispatchedDial # q.dispatchedDial
        /\ \A f \in Dispatching \ {e} : entry[f].reserved \cap q.reserved = {}
  <2>1. ASSUME q.state = "dispatching"
        PROVE  /\ dial[q.dispatchedDial].on
               /\ q.reserved = Tried(dial[q.dispatchedDial])
               /\ \A f \in Entry \ {e} : entry[f].dispatchedDial # q.dispatchedDial
    <3>1. e \in Dispatching
      BY <1>6, <2>1 DEF Dispatching
    <3>2. QED
      BY <3>1 DEF IInv, QueueSafe, DispatchingHasADial, Owner, Tried
  <2>2. ASSUME q.state = "dispatching"
        PROVE  \A f \in Dispatching \ {e} : entry[f].reserved \cap q.reserved = {}
    BY <1>1, <2>2 DEF IInv, QueueSafe, ReservedOnce, Dispatching
  <2>3. QED
    BY <2>1, <2>2
<1>8. QED
  BY <1>1, <1>2, <1>4, <1>5, <1>6, <1>7, OneEntryStep

-----------------------------------------------------------------------------
(* Dials that are over.                                                    *)

\* Two entries never wait for one dial.
LEMMA OneOwner ==
    ASSUME QueueAssumption, IInv, NEW e \in Entry, NEW f \in Entry,
           entry[e].dispatchedDial = entry[f].dispatchedDial, entry[e].dispatchedDial # None
    PROVE  e = f
BY DEF IInv, QueueSafe, DispatchingHasADial, Dispatching, Owner

\* Breaking a dial touches no other dial.
LEMMA CloseLemma ==
    ASSUME QueueAssumption, IInv, NEW d \in DialId, CloseDial(d)
    PROVE  /\ dial' \in [DialId -> DialState] /\ cleanup' \in BOOLEAN
           /\ ~dial'[d].on
           /\ \A c \in DialId \ {d} : Keeps(c)
<1>1. NoDial \in DialState /\ ~NoDial.on
  BY DEF NoDial, DialState
<1>2. dial \in [DialId -> DialState] /\ dial' = [dial EXCEPT ![d] = NoDial]
  BY DEF CloseDial, IInv, QueueSafe, TypeOK
<1>3. cleanup' \in BOOLEAN
  BY DEF CloseDial, IInv, QueueSafe, TypeOK
<1>4. QED
  BY <1>1, <1>2, <1>3 DEF Keeps

\* The dial an entry gives up is no other entry's.
LEMMA AbortLemma ==
    ASSUME QueueAssumption, IInv, NEW e \in Entry, AbortDial(e)
    PROVE  /\ dial' \in [DialId -> DialState] /\ cleanup' \in BOOLEAN
           /\ \A d \in DialId : \A f \in Entry \ {e} : entry[f].dispatchedDial = d => Keeps(d)
           /\ \A d \in DialId : entry[e].dispatchedDial = d => ~dial'[d].on
<1>1. TypeOK /\ entry[e].dispatchedDial \in DialId \cup {None} /\ None \notin DialId
  BY DEF IInv, QueueSafe, TypeOK, EntryState, QueueAssumption
<1>2. CASE entry[e].dispatchedDial = None
  BY <1>1, <1>2 DEF AbortDial, TypeOK, Keeps
<1>3. CASE entry[e].dispatchedDial # None
  <2>1. entry[e].dispatchedDial \in DialId /\ CloseDial(entry[e].dispatchedDial)
    BY <1>1, <1>3 DEF AbortDial
  <2>2. \A f \in Entry \ {e} : entry[f].dispatchedDial # entry[e].dispatchedDial
    BY <1>3, OneOwner
  <2>3. QED
    BY <2>1, <2>2, CloseLemma
<1>4. QED
  BY <1>2, <1>3
-----------------------------------------------------------------------------
(* The actions.                                                            *)

\* What DialKeepsItsEntry says of a step.
KeepsEntry ==
    \A d \in DialId : \A e \in Owner(d) :
        \/ entry'[e].dispatchedDial = d
        \/ ~dial'[d].on
        \/ entry'[e].leg # entry[e].leg /\ entry'[e].leg \in Leg

\* finalizeDial(.., "failed") and what handleDialFinalized does about it.
LEMMA DialFailedStep ==
    ASSUME QueueAssumption, IInv, NEW d \in DialId, DialFailed(d), UNCHANGED <<leg, operators>>
    PROVE  IInv' /\ KeepsEntry
<1>1. TypeOK
  BY DEF IInv, QueueSafe
<1>2. /\ dial' \in [DialId -> DialState] /\ cleanup' \in BOOLEAN
      /\ ~dial'[d].on
      /\ \A c \in DialId \ {d} : Keeps(c)
  BY CloseLemma DEF DialFailed
<1>3. OthersOK'
  BY <1>1, <1>2 DEF TypeOK, OthersOK, operators
<1>4. CASE Owner(d) = {} /\ UNCHANGED queue
  <2>1. \A c \in DialId : Owner(c) # {} => Keeps(c)
    BY <1>2, <1>4
  <2>2. IInv'
    BY <1>2, <1>3, <1>4, <2>1, QuietStep DEF queue
  <2>3. QED
    BY <1>4, <2>2 DEF queue, KeepsEntry, Owner
<1>5. ASSUME NEW e \in Owner(d),
             \/ EndEntry(e)
             \/ /\ entry[e].retriesLeft > 0
                /\ entry' = [entry EXCEPT ![e] = Retry(@)]
                /\ timer' = timer \cup {e}
                /\ UNCHANGED byLeg
      PROVE  IInv' /\ KeepsEntry
  <2>1. /\ e \in Entry /\ entry[e].dispatchedDial = d /\ d # None
        /\ \A f \in Entry \ {e} : entry[f].dispatchedDial # d
    BY OneOwner DEF Owner, QueueAssumption
  <2>2. e \in Dispatching /\ e \in Listed /\ entry[e] \in EntryState
    BY <1>1, <2>1 DEF IInv, QueueSafe, DispatchingHasADial, Dispatching, Listed, TypeOK
  <2>3. \A c \in DialId : \A f \in Entry \ {e} : entry[f].dispatchedDial = c => Keeps(c)
    BY <1>2, <2>1
  <2>4. CASE EndEntry(e)
    <3>1. RemoveEntry(e) /\ timer' = timer \ {e}
      BY <2>4 DEF EndEntry
    <3>2. IInv'
      BY <1>2, <1>3, <2>1, <2>3, <3>1, RemoveStep
    <3>3. \A f \in Entry \ {e} : entry'[f] = entry[f]
      BY <1>1, <3>1 DEF RemoveEntry, TypeOK
    <3>4. QED
      BY <1>2, <2>1, <3>2, <3>3 DEF KeepsEntry, Owner
  <2>5. CASE /\ entry[e].retriesLeft > 0
             /\ entry' = [entry EXCEPT ![e] = Retry(@)]
             /\ timer' = timer \cup {e}
             /\ UNCHANGED byLeg
    <3>. DEFINE q == Retry(entry[e])
    <3>1. entry' = [entry EXCEPT ![e] = q]
      BY <2>5
    <3>2. q \in EntryState
      <4>1. entry[e].retriesLeft - 1 \in 0..RetryAttempts
        BY <2>2, <2>5 DEF EntryState, QueueAssumption
      <4>2. QED
        BY <2>2, <4>1 DEF EntryState, Retry, ToIdle
    <3>3. /\ q.state = "idle" /\ q.dispatchedDial = None /\ q.leg = entry[e].leg
          /\ q.retention = entry[e].retention /\ q.mode = entry[e].mode
      BY <2>2 DEF EntryState, Retry, ToIdle
    <3>4. q.retention <=> q.mode = "live"
      BY <2>1, <2>2, <3>3 DEF IInv, QueueSafe, RetainedWhileLive
    <3>. HIDE DEF q
    <3>5. IInv'
      BY <1>2, <1>3, <2>2, <2>3, <2>5, <3>1, <3>2, <3>3, <3>4, IdleStep
    <3>6. \A f \in Entry \ {e} : entry'[f] = entry[f]
      BY <1>1, <3>1 DEF TypeOK
    <3>7. QED
      BY <1>2, <2>1, <3>5, <3>6 DEF KeepsEntry, Owner
  <2>6. QED
    BY <1>5, <2>4, <2>5
<1>6. QED
  BY <1>4, <1>5 DEF DialFailed

\* A leg takes over an entry, whose former leg the index forgets.
LEMMA BindStep ==
    ASSUME QueueAssumption, IInv, NEW l \in Leg, NEW e \in Entry, Bind(l, e),
           UNCHANGED <<dial, operators, cleanup>>,
           NEW q \in EntryState, entry' = [entry EXCEPT ![e] = q],
           q.state = "idle", q.dispatchedDial = None, q.leg = l,
           q.mode = "live", q.retention
    PROVE  IInv' /\ KeepsEntry
<1>1. TypeOK /\ byLeg[l] = None
  BY DEF IInv, QueueSafe, Bind
<1>2. \A f \in Entry : entry'[f] = IF f = e THEN q ELSE entry[f]
  BY <1>1 DEF TypeOK
<1>3. byLeg' = [m \in Leg |-> IF m = l THEN e ELSE IF byLeg[m] = e THEN None ELSE byLeg[m]]
  BY DEF Bind
<1>4. OthersOK' /\ byLeg' \in [Leg -> Entry \cup {None}]
  BY <1>1, <1>3 DEF TypeOK, OthersOK, operators, Bind, Phase
<1>5. IndexConsistent'
  <2>1. SUFFICES ASSUME NEW m \in Leg, NEW f \in Entry
                 PROVE  byLeg'[m] = f <=> entry'[f].state # "absent" /\ entry'[f].leg = m
    BY DEF IndexConsistent, Listed
  <2>2. /\ byLeg[m] = f <=> entry[f].state # "absent" /\ entry[f].leg = m
        /\ None # f
    BY DEF IInv, QueueSafe, IndexConsistent, Listed, QueueAssumption
  <2>3. QED
    BY <1>1, <1>2, <1>3, <2>2
<1>6. timer' = timer \cup {e} /\ timer' \subseteq Idle'
  BY <1>2 DEF Bind, IInv, TimersAreIdle, Idle
<1>7. dial' \in [DialId -> DialState] /\ \A d \in DialId : Keeps(d)
  BY <1>1 DEF TypeOK, Keeps
<1>8. IInv'
  BY <1>4, <1>5, <1>6, <1>7, OneEntryStep
<1>9. ASSUME NEW d \in DialId, entry[e].dispatchedDial = d
      PROVE  q.leg # entry[e].leg
  <2>1. e \in Listed
    BY <1>9 DEF IInv, QueueSafe, DispatchingHasADial, Dispatching, Listed, QueueAssumption
  <2>2. entry[e].leg # l
    BY <1>1, <2>1 DEF IInv, QueueSafe, IndexConsistent, QueueAssumption
  <2>3. QED
    BY <2>2
<1>10. KeepsEntry
  BY <1>2, <1>9 DEF KeepsEntry, Owner
<1>11. QED
  BY <1>8, <1>10

\* enqueueLeg, for a new entry and for one that is rejoined.
LEMMA EnqueueSteps ==
    ASSUME QueueAssumption, IInv, NEW l \in Leg, EnqueueLeg(l) \/ Rejoin(l)
    PROVE  IInv' /\ KeepsEntry
<1>1. TypeOK
  BY DEF IInv, QueueSafe
<1>2. ASSUME NEW e \in Entry, Bind(l, e),
             entry' = [entry EXCEPT ![e] =
               [Absent EXCEPT !.state = "idle", !.leg = l,
                              !.retriesLeft = RetryAttempts, !.retention = TRUE]],
             UNCHANGED <<dial, operators, cleanup>>
      PROVE  IInv' /\ KeepsEntry
  <2>. DEFINE q == [Absent EXCEPT !.state = "idle", !.leg = l,
                                  !.retriesLeft = RetryAttempts, !.retention = TRUE]
  <2>1. RetryAttempts \in 0..RetryAttempts
    BY DEF QueueAssumption
  <2>2. /\ q \in EntryState /\ q.state = "idle" /\ q.dispatchedDial = None /\ q.leg = l
        /\ q.mode = "live" /\ q.retention
    BY <2>1, AbsentIsAnEntry DEF EntryState, Absent
  <2>3. entry' = [entry EXCEPT ![e] = q]
    BY <1>2
  <2>. HIDE DEF q
  <2>4. QED
    BY <1>2, <2>2, <2>3, BindStep
<1>3. ASSUME NEW e \in Entry, Bind(l, e),
             entry' = [entry EXCEPT ![e] =
               [ToIdle(@) EXCEPT !.leg = l, !.mode = "live", !.retriesLeft = RetryAttempts,
                                 !.paused = FALSE, !.retention = TRUE, !.placed = FALSE]],
             UNCHANGED <<dial, operators, cleanup>>
      PROVE  IInv' /\ KeepsEntry
  <2>. DEFINE q == [ToIdle(entry[e]) EXCEPT !.leg = l, !.mode = "live",
                        !.retriesLeft = RetryAttempts,
                        !.paused = FALSE, !.retention = TRUE, !.placed = FALSE]
  <2>1. RetryAttempts \in 0..RetryAttempts /\ entry[e] \in EntryState
    BY <1>1 DEF QueueAssumption, TypeOK
  <2>2. /\ q \in EntryState /\ q.state = "idle" /\ q.dispatchedDial = None /\ q.leg = l
        /\ q.mode = "live" /\ q.retention
    BY <2>1 DEF EntryState, ToIdle
  <2>3. entry' = [entry EXCEPT ![e] = q]
    BY <1>3
  <2>. HIDE DEF q
  <2>4. QED
    BY <1>3, <2>2, <2>3, BindStep
<1>4. QED
  BY <1>2, <1>3 DEF EnqueueLeg, Rejoin, Listed

LEMMA SetQueueCallbackStep ==
    ASSUME QueueAssumption, IInv, NEW l \in Leg, NEW b \in BOOLEAN, SetQueueCallback(l, b)
    PROVE  IInv' /\ KeepsEntry
<1>. DEFINE e == byLeg[l]
<1>. DEFINE q == [entry[e] EXCEPT !.callbackEnabled = b]
<1>1. TypeOK
  BY DEF IInv, QueueSafe
<1>2. e \in Entry /\ e \in Listed
  BY <1>1 DEF SetQueueCallback, TypeOK, IInv, QueueSafe, IndexConsistent
<1>3. /\ q \in EntryState /\ q.state = entry[e].state /\ q.mode = entry[e].mode
      /\ q.leg = entry[e].leg /\ q.dispatchedDial = entry[e].dispatchedDial
      /\ q.reserved = entry[e].reserved /\ q.retention = entry[e].retention
      /\ q.paused = entry[e].paused /\ q.placed = entry[e].placed
  BY <1>1, <1>2 DEF TypeOK, EntryState
<1>4. /\ entry' = [entry EXCEPT ![e] = q]
      /\ UNCHANGED <<leg, byLeg, timer, dial, talking, registered, cleanup>>
  BY DEF SetQueueCallback, operators
<1>5. OthersOK'
  BY <1>1, <1>4 DEF TypeOK, OthersOK
<1>. HIDE DEF q, e
<1>6. q.state = "idle" /\ e \notin timer' => ~q.paused /\ (q.mode = "live" => q.placed)
  BY <1>2, <1>3, <1>4 DEF IInv, QueueSafe, WaitingWasAnnounced, Idle
<1>7. IInv'
  BY <1>2, <1>3, <1>4, <1>5, <1>6, NoteStep
<1>8. KeepsEntry
  BY <1>1, <1>3, <1>4 DEF KeepsEntry, Owner, TypeOK
<1>9. QED
  BY <1>7, <1>8

LEMMA PauseOverStep ==
    ASSUME QueueAssumption, IInv, NEW e \in Entry, PauseOver(e)
    PROVE  IInv' /\ KeepsEntry
<1>. DEFINE q == [entry[e] EXCEPT !.paused = FALSE]
<1>1. TypeOK
  BY DEF IInv, QueueSafe
<1>2. /\ q \in EntryState /\ q.state = entry[e].state /\ q.mode = entry[e].mode
      /\ q.leg = entry[e].leg /\ q.dispatchedDial = entry[e].dispatchedDial
      /\ q.reserved = entry[e].reserved /\ q.retention = entry[e].retention
      /\ q.paused = FALSE /\ q.placed = entry[e].placed
  <2>1. entry[e] \in EntryState
    BY <1>1 DEF TypeOK
  <2>2. q \in EntryState
    BY <2>1 DEF EntryState
  <2>3. QED
    BY <2>1, <2>2 DEF EntryState
<1>3. /\ entry' = [entry EXCEPT ![e] = q]
      /\ UNCHANGED <<leg, byLeg, timer, dial, talking, registered, cleanup>>
  BY DEF PauseOver, operators
<1>4. OthersOK'
  BY <1>1, <1>3 DEF TypeOK, OthersOK
<1>. HIDE DEF q
<1>5. q.state = "idle" /\ e \notin timer' => ~q.paused /\ (q.mode = "live" => q.placed)
  BY <1>2, <1>3 DEF IInv, QueueSafe, WaitingWasAnnounced, Idle
<1>6. IInv'
  BY <1>2, <1>3, <1>4, <1>5, NoteStep
<1>7. KeepsEntry
  BY <1>1, <1>2, <1>3 DEF KeepsEntry, Owner, TypeOK
<1>8. QED
  BY <1>6, <1>7

\* The leg of a caller ends: its entry, if it has one, is removed or becomes a
\* callback, and either way gives up its dial and breaks it.
LEMMA LegEndsStep ==
    ASSUME QueueAssumption, IInv, NEW l \in Leg, LegEnds(l)
    PROVE  IInv' /\ KeepsEntry
<1>. DEFINE e == byLeg[l]
<1>1. TypeOK /\ leg' \in [Leg -> Phase] /\ UNCHANGED <<talking, registered>>
  BY DEF IInv, QueueSafe, TypeOK, LegEnds, Phase, operators
<1>2. CASE e = None /\ UNCHANGED <<queue, dial, cleanup>>
  <2>1. OthersOK' /\ \A d \in DialId : Keeps(d)
    BY <1>1, <1>2 DEF TypeOK, OthersOK, Keeps
  <2>2. IInv'
    BY <1>1, <1>2, <2>1, QuietStep DEF queue, TypeOK
  <2>3. QED
    BY <1>2, <2>2 DEF KeepsEntry, Owner, queue
<1>3. CASE e # None /\ AbortDial(e)
  <2>1. e \in Entry /\ e \in Listed /\ entry[e] \in EntryState
    BY <1>1, <1>3 DEF TypeOK, IInv, QueueSafe, IndexConsistent
  <2>. HIDE DEF e
  <2>2. /\ dial' \in [DialId -> DialState] /\ OthersOK'
        /\ \A d \in DialId : \A f \in Entry \ {e} : entry[f].dispatchedDial = d => Keeps(d)
        /\ \A d \in DialId : entry[e].dispatchedDial = d => ~dial'[d].on
    BY <1>1, <1>3, <2>1, AbortLemma DEF TypeOK, OthersOK
  <2>3. CASE /\ entry' = [entry EXCEPT ![e] = ToCallback(@)]
             /\ timer' = timer \cup {e} /\ UNCHANGED byLeg
    <3>. DEFINE q == ToCallback(entry[e])
    <3>1. entry' = [entry EXCEPT ![e] = q]
      BY <2>3
    <3>2. /\ q \in EntryState /\ q.state = "idle" /\ q.dispatchedDial = None
          /\ q.leg = entry[e].leg /\ q.mode = "callback" /\ q.retention = FALSE
      BY <2>1 DEF ToCallback, ToIdle, EntryState
    <3>. HIDE DEF q
    <3>3. IInv'
      BY <2>1, <2>2, <2>3, <3>1, <3>2, IdleStep
    <3>4. \A f \in Entry \ {e} : entry'[f] = entry[f]
      BY <1>1, <3>1 DEF TypeOK
    <3>5. QED
      BY <2>2, <3>3, <3>4 DEF KeepsEntry, Owner
  <2>4. CASE EndEntry(e)
    <3>1. IInv'
      BY <2>1, <2>2, <2>4, RemoveStep DEF EndEntry
    <3>2. \A f \in Entry \ {e} : entry'[f] = entry[f]
      BY <1>1, <2>4 DEF EndEntry, RemoveEntry, TypeOK
    <3>3. QED
      BY <2>2, <3>1, <3>2 DEF KeepsEntry, Owner
  <2>5. QED
    BY <1>3, <2>3, <2>4 DEF LegEnds, e
<1>4. QED
  BY <1>2, <1>3 DEF LegEnds

-----------------------------------------------------------------------------
(* The branch timer.                                                       *)

\* makeDial for an entry whose branch timer fires: nobody knew the dial, no
\* other entry reserved the extensions it tries.
LEMMA DispatchStep ==
    ASSUME QueueAssumption, IInv, OthersOK', NEW e \in timer, NEW d \in DialId,
           NEW free \in SUBSET Ext, free \cap Reserved = {}, Dispatch(e, d, free),
           NEW rearmed \in SUBSET Idle, timer' = (timer \cup rearmed) \ {e}
    PROVE  IInv' /\ KeepsEntry
<1>. DEFINE q == [entry[e] EXCEPT !.state = "dispatching", !.dispatchedDial = d,
                                  !.reserved = free, !.paused = FALSE]
<1>1. TypeOK /\ d # None /\ free # {} /\ ~dial[d].on
  BY DEF IInv, QueueSafe, QueueAssumption, Dispatch
<1>2. /\ e \in Entry /\ entry[e].state = "idle" /\ entry[e].dispatchedDial = None
      /\ entry[e].leg \in Leg
  BY DEF IInv, QueueSafe, TimersAreIdle, Idle, DispatchingHasADial, Dispatching,
     EntriesHaveALeg, Listed
<1>3. /\ q.state = "dispatching" /\ q.dispatchedDial = d /\ q.reserved = free
      /\ q.mode = entry[e].mode /\ q.leg = entry[e].leg
      /\ q.retention = entry[e].retention /\ q \in EntryState
  <2>1. entry[e] \in EntryState
    BY <1>1, <1>2 DEF TypeOK
  <2>2. QED
    BY <2>1 DEF EntryState
<1>4. /\ entry' = [entry EXCEPT ![e] = q] /\ UNCHANGED byLeg
  BY DEF Dispatch
<1>5. IndexConsistent' /\ byLeg' \in [Leg -> Entry \cup {None}]
  <2>. HIDE DEF q
  <2>1. QED
    BY <1>2, <1>3, <1>4, IndexKept
<1>6. /\ dial' \in [DialId -> DialState]
      /\ dial'[d].on /\ Tried(dial'[d]) = free
      /\ \A c \in DialId \ {d} : Keeps(c)
  <2>. DEFINE att == [x \in Ext |-> IF x \notin free THEN "no"
                            ELSE IF ~(e \in Sequential) \/ \A y \in free : x <= y
                                 THEN "live" ELSE "pending"]
  <2>. DEFINE new == [on |-> TRUE, sequential |-> e \in Sequential, attempt |-> att]
  <2>1. dial' = [dial EXCEPT ![d] = new]
    BY DEF Dispatch
  <2>2. att \in [Ext -> {"no", "pending", "live", "ending", "gone"}]
    OBVIOUS
  <2>3. \A x \in Ext : att[x] # "no" <=> x \in free
    OBVIOUS
  <2>. HIDE DEF att
  <2>4. new \in DialState /\ new.on /\ Tried(new) = free
    BY <2>2, <2>3 DEF DialState, Tried
  <2>. HIDE DEF new
  <2>5. QED
    BY <1>1, <2>1, <2>4 DEF TypeOK, Keeps
<1>7. \A f \in Entry : entry[f].dispatchedDial # d
  BY <1>1 DEF IInv, QueueSafe, DispatchingHasADial, Dispatching
<1>8. \A f \in Dispatching \ {e} : entry[f].reserved \cap free = {}
  BY DEF Reserved
<1>9. entry[e].retention <=> entry[e].mode = "live"
  BY <1>2 DEF IInv, QueueSafe, RetainedWhileLive, Listed
<1>. HIDE DEF q
<1>10. \A f \in Entry : entry'[f] = IF f = e THEN q ELSE entry[f]
  BY <1>1, <1>4 DEF TypeOK
<1>11. timer' \subseteq Idle' /\ timer \ {e} \subseteq timer'
  BY <1>10 DEF IInv, TimersAreIdle, Idle
<1>12. /\ q.state = "dispatching" <=> q.dispatchedDial # None
       /\ dial'[q.dispatchedDial].on /\ q.reserved = Tried(dial'[q.dispatchedDial])
       /\ \A f \in Entry \ {e} : entry[f].dispatchedDial # q.dispatchedDial
       /\ \A f \in Dispatching \ {e} : entry[f].reserved \cap q.reserved = {}
       /\ q.retention <=> q.state # "absent" /\ q.mode = "live"
       /\ q.state # "absent" => q.leg \in Leg
       /\ q.state # "idle"
  BY <1>1, <1>2, <1>3, <1>6, <1>7, <1>8, <1>9
<1>13. \A c \in DialId : \A f \in Entry \ {e} : entry[f].dispatchedDial = c => Keeps(c)
  BY <1>6, <1>7
<1>14. IInv'
  BY <1>2, <1>3, <1>4, <1>5, <1>6, <1>11, <1>12, <1>13, OneEntryStep
<1>15. KeepsEntry
  BY <1>1, <1>2, <1>10 DEF KeepsEntry, Owner
<1>16. QED
  BY <1>14, <1>15

\* The callback of a branch timer: nobody is online, nobody is free, or the
\* free ones are dialled.
LEMMA TimerFiresStep ==
    ASSUME QueueAssumption, IInv, NEW e \in Entry, TimerFires(e)
    PROVE  IInv' /\ KeepsEntry
<1>1. TypeOK /\ e \in timer /\ e \in Idle /\ entry[e].paused = FALSE
  <2>1. TypeOK /\ e \in timer /\ e \in Idle /\ ~entry[e].paused
    BY DEF IInv, QueueSafe, TimersAreIdle, TimerFires
  <2>2. entry[e].paused \in BOOLEAN
    BY <2>1 DEF TypeOK, EntryState
  <2>3. QED
    BY <2>1, <2>2
<1>2. PICK online \in SUBSET registered :
        LET rearmed == IF online # registered THEN Idle ELSE {} IN
        /\ registered' = online
        /\ \/ /\ RemoveEntry(e)
              /\ timer' = (timer \cup rearmed) \ {e}
              /\ UNCHANGED dial
           \/ Wait(e, rearmed)
           \/ /\ \E d \in DialId : Dispatch(e, d, Free(online))
              /\ timer' = (timer \cup rearmed) \ {e}
  BY DEF TimerFires
<1>. DEFINE rearmed == IF online # registered THEN Idle ELSE {}
<1>3. OthersOK' /\ rearmed \in SUBSET Idle
  BY <1>1, <1>2 DEF TimerFires, TypeOK, OthersOK
<1>. HIDE DEF rearmed
<1>4. CASE /\ RemoveEntry(e)
           /\ timer' = (timer \cup rearmed) \ {e}
           /\ UNCHANGED dial
  <2>1. dial' \in [DialId -> DialState] /\ \A d \in DialId : Keeps(d)
    BY <1>1, <1>4 DEF TypeOK, Keeps
  <2>2. IInv'
    BY <1>3, <1>4, <2>1, RemoveStep
  <2>3. entry[e].dispatchedDial = None /\ \A f \in Entry \ {e} : entry'[f] = entry[f]
    BY <1>1, <1>4 DEF RemoveEntry, TypeOK, IInv, QueueSafe, DispatchingHasADial, Dispatching, Idle
  <2>4. QED
    BY <2>2, <2>3 DEF KeepsEntry, Owner, QueueAssumption
<1>5. CASE Wait(e, rearmed)
  <2>. DEFINE q == [entry[e] EXCEPT !.placed = (@ \/ entry[e].mode = "live")]
  <2>1. /\ q.state = entry[e].state /\ q.mode = entry[e].mode /\ q.leg = entry[e].leg
        /\ q.dispatchedDial = entry[e].dispatchedDial /\ q.reserved = entry[e].reserved
        /\ q.retention = entry[e].retention /\ q.paused = entry[e].paused
    BY <1>1 DEF TypeOK, EntryState
  <2>2. q \in EntryState /\ (q.mode = "live" => q.placed)
    <3>1. entry[e] \in EntryState
      BY <1>1 DEF TypeOK
    <3>2. (entry[e].placed \/ entry[e].mode = "live") \in BOOLEAN
      OBVIOUS
    <3>3. QED
      BY <3>1, <3>2 DEF EntryState
  <2>3. entry' = [entry EXCEPT ![e] = q]
    BY <1>5 DEF Wait
  <2>4. timer' = (timer \ {e}) \cup rearmed /\ UNCHANGED <<byLeg, dial>>
    BY <1>5 DEF Wait
  <2>. HIDE DEF q
  <2>5. IInv'
    BY <1>1, <1>3, <2>1, <2>2, <2>3, <2>4, NoteStep
  <2>6. KeepsEntry
    BY <1>1, <2>1, <2>3 DEF KeepsEntry, Owner, TypeOK
  <2>7. QED
    BY <2>5, <2>6
<1>6. ASSUME NEW d \in DialId, Dispatch(e, d, Free(online)),
             timer' = (timer \cup rearmed) \ {e}
      PROVE  IInv' /\ KeepsEntry
  <2>1. Free(online) \in SUBSET Ext /\ Free(online) \cap Reserved = {}
    BY <1>1, <1>2 DEF TypeOK, Free
  <2>2. QED
    BY <1>1, <1>3, <1>6, <2>1, DispatchStep
<1>7. QED
  BY <1>2, <1>4, <1>5, <1>6 DEF rearmed
-----------------------------------------------------------------------------
(* Queue dials and extensions.                                             *)

\* An attempt that was tried moves on; the dial tries no other extension.
LEMMA AttemptMoves ==
    ASSUME QueueAssumption, IInv, UNCHANGED <<entry, byLeg>>, OthersOK',
           NEW d \in DialId, NEW a \in [Ext -> {"no", "pending", "live", "ending", "gone"}],
           dial' = [dial EXCEPT ![d].attempt = a],
           \A x \in Ext : a[x] = "no" <=> dial[d].attempt[x] = "no",
           timer \subseteq timer', timer' \subseteq timer \cup Idle
    PROVE  IInv' /\ KeepsEntry
<1>1. TypeOK
  BY DEF IInv, QueueSafe
<1>2. /\ dial' \in [DialId -> DialState]
      /\ dial'[d].on = dial[d].on /\ dial'[d].attempt = a
      /\ \A c \in DialId \ {d} : dial'[c] = dial[c]
  <2>1. dial \in [DialId -> DialState] /\ dial[d] \in DialState
    BY <1>1 DEF TypeOK
  <2>2. dial'[d] = [dial[d] EXCEPT !.attempt = a] /\ \A c \in DialId \ {d} : dial'[c] = dial[c]
    BY <2>1
  <2>3. dial'[d] \in DialState /\ dial'[d].on = dial[d].on /\ dial'[d].attempt = a
    BY <2>1, <2>2 DEF DialState
  <2>4. dial' = [c \in DialId |-> dial'[c]]
    BY <2>1
  <2>5. \A c \in DialId : dial'[c] \in DialState
    BY <2>1, <2>2, <2>3
  <2>6. dial' \in [DialId -> DialState]
    BY <2>4, <2>5
  <2>7. QED
    BY <2>2, <2>3, <2>6
<1>3. \A c \in DialId : Keeps(c)
  BY <1>2 DEF Keeps, Tried
<1>4. IInv'
  BY <1>2, <1>3, QuietStep
<1>5. QED
  BY <1>4 DEF KeepsEntry, Owner

LEMMA NextAttemptStep ==
    ASSUME QueueAssumption, IInv, NEW d \in DialId, NextAttempt(d)
    PROVE  IInv' /\ KeepsEntry
<1>1. TypeOK
  BY DEF IInv, QueueSafe
<1>2. PICK x \in With(d, "pending") : dial' = [dial EXCEPT ![d].attempt[x] = "live"]
  BY DEF NextAttempt
<1>. DEFINE a == [dial[d].attempt EXCEPT ![x] = "live"]
<1>3. /\ dial' = [dial EXCEPT ![d].attempt = a]
      /\ a \in [Ext -> {"no", "pending", "live", "ending", "gone"}]
      /\ \A y \in Ext : a[y] = "no" <=> dial[d].attempt[y] = "no"
  BY <1>1, <1>2 DEF TypeOK, DialState, With
<1>4. OthersOK' /\ UNCHANGED <<entry, byLeg, timer>>
  BY <1>1 DEF NextAttempt, TypeOK, OthersOK, queue, operators
<1>. HIDE DEF a
<1>5. QED
  BY <1>3, <1>4, AttemptMoves

LEMMA AttemptLostStep ==
    ASSUME QueueAssumption, IInv, NEW d \in DialId, NEW x \in Ext, AttemptLost(d, x)
    PROVE  IInv' /\ KeepsEntry
<1>1. TypeOK /\ dial[d].attempt[x] = "live"
  BY DEF IInv, QueueSafe, AttemptLost, With
<1>2. CASE dial' = [dial EXCEPT ![d].attempt[x] = "ending"] /\ UNCHANGED <<queue, cleanup>>
  <2>. DEFINE a == [dial[d].attempt EXCEPT ![x] = "ending"]
  <2>1. /\ dial' = [dial EXCEPT ![d].attempt = a]
        /\ a \in [Ext -> {"no", "pending", "live", "ending", "gone"}]
        /\ \A y \in Ext : a[y] = "no" <=> dial[d].attempt[y] = "no"
    BY <1>1, <1>2 DEF TypeOK, DialState
  <2>2. OthersOK' /\ UNCHANGED <<entry, byLeg, timer>>
    BY <1>1, <1>2 DEF AttemptLost, TypeOK, OthersOK, queue, operators
  <2>. HIDE DEF a
  <2>3. QED
    BY <2>1, <2>2, AttemptMoves
<1>3. CASE DialFailed(d)
  BY <1>3, DialFailedStep DEF AttemptLost
<1>4. QED
  BY <1>2, <1>3 DEF AttemptLost

LEMMA AttemptCleanedUpStep ==
    ASSUME QueueAssumption, IInv, NEW d \in DialId, NEW x \in Ext, AttemptCleanedUp(d, x)
    PROVE  IInv' /\ KeepsEntry
<1>1. /\ TypeOK /\ dial[d].attempt[x] = "ending"
      /\ dial' = [dial EXCEPT ![d].attempt[x] = "gone"]
  BY DEF IInv, QueueSafe, AttemptCleanedUp, With
<1>. DEFINE a == [dial[d].attempt EXCEPT ![x] = "gone"]
<1>2. /\ dial' = [dial EXCEPT ![d].attempt = a]
      /\ a \in [Ext -> {"no", "pending", "live", "ending", "gone"}]
      /\ \A y \in Ext : a[y] = "no" <=> dial[d].attempt[y] = "no"
  BY <1>1 DEF TypeOK, DialState
<1>3. OthersOK' /\ UNCHANGED <<entry, byLeg>> /\ timer' = timer \cup Idle
  BY <1>1 DEF AttemptCleanedUp, TypeOK, OthersOK, operators, Refresh
<1>. HIDE DEF a
<1>4. QED
  BY <1>2, <1>3, AttemptMoves

\* An answer takes the entry out of the queue, or leaves the dial half over.
LEMMA AnswerStep ==
    ASSUME QueueAssumption, IInv, NEW d \in DialId, NEW x \in Ext, Answer(d, x)
    PROVE  IInv' /\ KeepsEntry
<1>1. TypeOK /\ UNCHANGED <<leg, registered>>
  BY DEF IInv, QueueSafe, Answer
<1>2. CASE /\ talking' = talking \cup {x}
           /\ dial' = [dial EXCEPT ![d] = NoDial]
           /\ cleanup' \in BOOLEAN
           /\ \/ Owner(d) = {} /\ UNCHANGED queue
              \/ \E e \in Owner(d) : EndEntry(e)
  <2>1. NoDial \in DialState /\ ~NoDial.on
    BY DEF NoDial, DialState
  <2>2. /\ dial' \in [DialId -> DialState] /\ ~dial'[d].on
        /\ \A c \in DialId \ {d} : Keeps(c)
    BY <1>1, <1>2, <2>1 DEF TypeOK, Keeps
  <2>3. OthersOK'
    BY <1>1, <1>2 DEF TypeOK, OthersOK
  <2>4. CASE Owner(d) = {} /\ UNCHANGED queue
    <3>1. \A c \in DialId : Owner(c) # {} => Keeps(c)
      BY <2>2, <2>4
    <3>2. IInv'
      BY <2>2, <2>3, <2>4, <3>1, QuietStep DEF queue
    <3>3. QED
      BY <2>4, <3>2 DEF queue, KeepsEntry, Owner
  <2>5. ASSUME NEW e \in Owner(d), EndEntry(e)
        PROVE  IInv' /\ KeepsEntry
    <3>1. /\ e \in Entry /\ entry[e].dispatchedDial = d
          /\ \A f \in Entry \ {e} : entry[f].dispatchedDial # d
      BY OneOwner DEF Owner, QueueAssumption
    <3>2. RemoveEntry(e) /\ timer' = timer \ {e}
      BY <2>5 DEF EndEntry
    <3>3. \A c \in DialId : \A f \in Entry \ {e} : entry[f].dispatchedDial = c => Keeps(c)
      BY <2>2, <3>1
    <3>4. IInv'
      BY <2>2, <2>3, <3>1, <3>2, <3>3, RemoveStep
    <3>5. \A f \in Entry \ {e} : entry'[f] = entry[f]
      BY <1>1, <3>2 DEF RemoveEntry, TypeOK
    <3>6. QED
      BY <2>2, <3>1, <3>4, <3>5 DEF KeepsEntry, Owner
  <2>6. QED
    BY <1>2, <2>4, <2>5
<1>3. CASE /\ dial' = [dial EXCEPT ![d].attempt = [y \in Ext |->
                  IF y \in With(d, "live") \ {x} /\ \A g \in With(d, "gone") : y < g
                  THEN "ending" ELSE @[y]]]
           /\ UNCHANGED <<queue, talking, cleanup>>
  <2>. DEFINE a == [y \in Ext |->
                  IF y \in With(d, "live") \ {x} /\ \A g \in With(d, "gone") : y < g
                  THEN "ending" ELSE dial[d].attempt[y]]
  <2>1. dial[d].attempt \in [Ext -> {"no", "pending", "live", "ending", "gone"}]
    BY <1>1 DEF TypeOK, DialState
  <2>2. \A y \in Ext : a[y] \in {dial[d].attempt[y], "ending"}
                      /\ (a[y] = "no" <=> dial[d].attempt[y] = "no")
    BY <2>1 DEF With
  <2>3. a \in [Ext -> {"no", "pending", "live", "ending", "gone"}]
    <3>1. \A y \in Ext : a[y] \in {"no", "pending", "live", "ending", "gone"}
      BY <2>1, <2>2
    <3>2. QED
      BY <3>1
  <2>4. dial' = [dial EXCEPT ![d].attempt = a]
    BY <1>3
  <2>5. OthersOK' /\ UNCHANGED <<entry, byLeg, timer>>
    BY <1>1, <1>3 DEF TypeOK, OthersOK, queue
  <2>. HIDE DEF a
  <2>6. QED
    BY <2>2, <2>3, <2>4, <2>5, AttemptMoves
<1>4. QED
  BY <1>1, <1>2, <1>3 DEF Answer, TypeOK

\* What only moves legs, extensions and timers of entries that wait.
LEMMA OtherSteps ==
    ASSUME QueueAssumption, IInv, OthersOK', UNCHANGED <<entry, byLeg, dial>>,
           timer' = timer \/ Refresh
    PROVE  IInv' /\ KeepsEntry
<1>1. TypeOK /\ \A d \in DialId : Keeps(d)
  BY DEF IInv, QueueSafe, Keeps
<1>2. timer \subseteq timer' /\ timer' \subseteq timer \cup Idle
  BY DEF Refresh
<1>3. IInv'
  BY <1>1, <1>2, QuietStep DEF TypeOK
<1>4. QED
  BY <1>3 DEF KeepsEntry, Owner

-----------------------------------------------------------------------------
(* The theorems.                                                           *)

LEMMA InitHolds ==
    ASSUME QueueAssumption, Init
    PROVE  IInv
<1>1. /\ \A e \in Entry : entry[e] = Absent
      /\ Listed = {} /\ Idle = {} /\ Dispatching = {}
  BY DEF Init, Listed, Idle, Dispatching, Absent
<1>2. NoDial \in DialState
  BY DEF NoDial, DialState
<1>3. TypeOK
  BY <1>2, AbsentIsAnEntry DEF Init, TypeOK, Phase, Ext, QueueAssumption
<1>4. ReservedOnce /\ DispatchingHasADial /\ WaitingWasAnnounced
  BY <1>1 DEF ReservedOnce, DispatchingHasADial, WaitingWasAnnounced, Absent
<1>5. RetainedWhileLive
  BY <1>1 DEF RetainedWhileLive, Absent
<1>6. IndexConsistent
  BY <1>1 DEF IndexConsistent, Init, QueueAssumption
<1>7. TimersAreIdle /\ EntriesHaveALeg
  BY <1>1 DEF TimersAreIdle, EntriesHaveALeg, Init
<1>8. QED
  BY <1>3, <1>4, <1>5, <1>6, <1>7 DEF IInv, QueueSafe

LEMMA StepHolds ==
    ASSUME QueueAssumption, IInv, [Next]_vars
    PROVE  IInv' /\ (KeepsEntry \/ UNCHANGED vars)
<1>1. TypeOK
  BY DEF IInv, QueueSafe
<1>2. ASSUME NEW l \in Leg, EnqueueLeg(l) \/ Rejoin(l)
      PROVE  IInv' /\ KeepsEntry
  BY <1>2, EnqueueSteps
<1>3. ASSUME NEW l \in Leg, NEW b \in BOOLEAN, SetQueueCallback(l, b)
      PROVE  IInv' /\ KeepsEntry
  BY <1>3, SetQueueCallbackStep
<1>4. ASSUME NEW l \in Leg, LegEnds(l)
      PROVE  IInv' /\ KeepsEntry
  BY <1>4, LegEndsStep
<1>5. ASSUME NEW l \in Leg, Detach(l)
      PROVE  IInv' /\ KeepsEntry
  <2>1. OthersOK' /\ UNCHANGED <<entry, byLeg, dial, timer>>
    BY <1>1, <1>5 DEF Detach, TypeOK, OthersOK, Phase, queue, operators
  <2>2. QED
    BY <2>1, OtherSteps
<1>6. ASSUME NEW e \in Entry, PauseOver(e) \/ TimerFires(e)
      PROVE  IInv' /\ KeepsEntry
  BY <1>6, PauseOverStep, TimerFiresStep
<1>7. ASSUME NEW d \in DialId, NextAttempt(d)
      PROVE  IInv' /\ KeepsEntry
  BY <1>7, NextAttemptStep
<1>8. ASSUME NEW d \in DialId, NEW x \in Ext,
             AttemptLost(d, x) \/ AttemptCleanedUp(d, x) \/ Answer(d, x)
      PROVE  IInv' /\ KeepsEntry
  BY <1>8, AttemptLostStep, AttemptCleanedUpStep, AnswerStep
<1>9. ASSUME NEW d \in DialId, DialOver(d)
      PROVE  IInv' /\ KeepsEntry
  BY <1>9, DialFailedStep DEF DialOver
<1>10. ASSUME NEW x \in Ext, Register(x) \/ Unregister(x) \/ OwnCall(x) \/ CallEnds(x)
       PROVE  IInv' /\ KeepsEntry
  <2>1. OthersOK' /\ UNCHANGED <<entry, byLeg, dial>> /\ (timer' = timer \/ Refresh)
    BY <1>1, <1>10 DEF Register, Unregister, OwnCall, CallEnds, TypeOK, OthersOK, queue
  <2>2. QED
    BY <2>1, OtherSteps
<1>11. CASE CleanedUp
  <2>1. OthersOK' /\ UNCHANGED <<entry, byLeg, dial>> /\ Refresh
    BY <1>1, <1>11 DEF CleanedUp, TypeOK, OthersOK, operators
  <2>2. QED
    BY <2>1, OtherSteps
<1>12. CASE UNCHANGED vars
  <2>1. OthersOK' /\ UNCHANGED <<entry, byLeg, dial, timer>>
    BY <1>1, <1>12 DEF vars, TypeOK, OthersOK
  <2>2. QED
    BY <1>12, <2>1, OtherSteps
<1>13. QED
  BY <1>2, <1>3, <1>4, <1>5, <1>6, <1>7, <1>8, <1>9, <1>10, <1>11, <1>12 DEF Next

LEMMA Invariance == Spec => []IInv
<1>1. Init => IInv
  BY QueueAssumption, InitHolds
<1>2. IInv /\ [Next]_vars => IInv'
  BY QueueAssumption, StepHolds
<1>3. QED
  BY <1>1, <1>2, PTL DEF Spec

\* Whatever order callers, operators, dials and timers act in: no extension is
\* reserved by two entries, an entry dispatches exactly while a dial of its
\* own is under way, the queue holds a ticket on the legs of callers on the
\* line and on no other, the index finds each entry by its leg, and a caller
\* that waits without a timer was announced.
THEOREM QueueIsSafe == Spec => []QueueSafe
<1>1. IInv => QueueSafe
  BY DEF IInv
<1>2. QED
  BY <1>1, Invariance, PTL

\* No step takes a dial under way from its entry, but a caller who rejoins
\* under another leg.
THEOREM DialsKeepTheirEntry == Spec => DialKeepsItsEntry
<1>1. IInv /\ [Next]_vars => KeepsEntry \/ UNCHANGED vars
  BY QueueAssumption, StepHolds
<1>2. QED
  BY <1>1, Invariance, PTL DEF Spec, DialKeepsItsEntry, KeepsEntry

=============================================================================
