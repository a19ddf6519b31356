------------------------------ MODULE SipTrunks ------------------------------
(***************************************************************************)
(* The triggers of the SIP transport: a trunk and an extensions trigger    *)
(* that share one UDP endpoint, its listener, and the trunk's registration *)
(* with its registrar: REGISTER, digest challenges, refresh, retry and the *)
(* unregister that outlives its trigger.                                   *)
(*                                                                         *)
(* A host is an object: every activation makes one, and the reuse of a     *)
(* host with other credentials clones it for the unregister.               *)
(***************************************************************************)
EXTENDS Naturals, FiniteSets

CONSTANTS Hosts   \* taken in this order, from 1

ASSUME HostsAssumption == Hosts \subseteq Nat \ {0}

VARIABLES
    ext,        \* an extensions host is active
    trunk,      \* the host in trunkHosts, 0: none
    made,       \* how many hosts were made
    pending,    \* pendingTrunkRegisterHosts: hosts that unregister
    listener,   \* the entry of udpListeners exists
    bound,      \* hosts whose socket is the one of that listener
    binding,    \* activations that wait for waitForUdpBind
    reusing,    \* the host whose activation waits for the unregister of its clone
    reg,        \* host.registration, per host: sent, a REGISTER went out with its Call-ID;
                \* challenge, it has a lastChallenge; good, its nonce is still accepted;
                \* attempts, authAttempts, of which only 0, 1, 2 and more matter
    useReg,     \* hosts with host.useRegistration
    regTx,      \* REGISTER transactions under way, per host
    timer,      \* hosts with host.registrationTimer
    flaws       \* history: what went wrong beyond repair

trVars == <<ext, trunk, made, pending, listener, bound, binding, reusing, reg, useReg, regTx,
            timer, flaws>>
sockets == <<listener, bound>>

\* "stuck"     a challenge that cannot be answered ends the exchange silently
\* "stranded"  the listener was closed under an unregister
\* "unsent"    the answer to the challenge of an unregister could not be sent
\* "disowned"  a trigger was deactivated while its host was being reused
Flaws == {"stuck", "stranded", "unsent", "disowned"}

NoReg == [state |-> "none", challenge |-> FALSE, attempts |-> 0, good |-> FALSE, sent |-> FALSE]
Regs == [state : {"none", "registering", "registered", "unregistering"},
         challenge : BOOLEAN, attempts : 0 .. 2, good : BOOLEAN, sent : BOOLEAN]

TrTypeOK ==
    /\ trunk \in Hosts \cup {0} /\ made \in Hosts \cup {0}
    /\ {pending, useReg, timer, bound} \subseteq SUBSET Hosts
    /\ {ext, listener} \subseteq BOOLEAN
    /\ binding \subseteq {"ext", "trunk"}
    /\ reusing \in Hosts \cup {0}
    /\ reg \in [Hosts -> Regs]
    /\ regTx \in [Hosts -> 0 .. 2]
    /\ flaws \subseteq Flaws

TrInit ==
    /\ ext = FALSE /\ trunk = 0 /\ made = 0 /\ pending = {}
    /\ listener = FALSE /\ bound = {} /\ binding = {} /\ reusing = 0
    /\ reg = [h \in Hosts |-> NoReg] /\ useReg = {} /\ regTx = [h \in Hosts |-> 0]
    /\ timer = {} /\ flaws = {}

-----------------------------------------------------------------------------
\* closeUdpListener: every transaction of its socket goes with it.
CloseUdpListener ==
    /\ listener' = FALSE /\ bound' = {}
    /\ regTx' = [h \in Hosts |-> 0]

\* A REGISTER is on its way: with a challenge known, one more attempt with it.
Sent(r, unregister, fresh, out) ==
    [state |-> IF unregister THEN "unregistering" ELSE "registering",
     challenge |-> r.challenge \/ fresh,
     attempts |-> IF ~(r.challenge \/ fresh) THEN 0
                  ELSE IF r.attempts < 2 THEN r.attempts + 1 ELSE 2,
     good |-> fresh \/ r.good,
     sent |-> out \/ r.sent]

\* sendTrunkRegister: sent and tracked, or failed and, with useRegistration,
\* tried again later.  Nothing can be sent on a socket that was closed.
SendTrunkRegister(h, unregister, fresh, timers, regular) ==
    \/ /\ regTx[h] < 2 /\ h \in bound'
       /\ reg' = [reg EXCEPT ![h] = Sent(@, unregister, fresh, TRUE)]
       /\ regTx' = [regTx EXCEPT ![h] = @ + 1] /\ timer' = timers
    \/ /\ h \in regular
       /\ reg' = [reg EXCEPT ![h] = Sent(@, unregister, fresh, FALSE)]
       /\ timer' = timers \cup {h} /\ UNCHANGED regTx

FinalizeKeepsListener(h) ==
    /\ timer' = timer \ {h}
    /\ pending' = pending \ {h}
    /\ reg' = [reg EXCEPT ![h] = NoReg]
    /\ UNCHANGED sockets

\* finalizePendingTrunkUnregister: the last user of the listener closes it.
Finalize(h) ==
    /\ timer' = timer \ {h}
    /\ pending' = pending \ {h}
    /\ reg' = [reg EXCEPT ![h] = NoReg]
    /\ IF trunk = 0 /\ ~ext /\ pending' = {} THEN CloseUdpListener
       ELSE UNCHANGED sockets

-----------------------------------------------------------------------------
(* Activation: getOrCreateUdpListener binds unless the endpoint is open;     *)
(* of two that bind at once the second fails with EADDRINUSE.               *)

BeginBinding(kind) ==
    /\ kind \notin binding
    /\ IF kind = "ext" THEN ~ext ELSE trunk = 0 /\ made + 1 \in Hosts
    /\ binding' = binding \cup {kind}
    /\ UNCHANGED <<ext, trunk, made, pending, sockets, reusing, reg, useReg, regTx, timer,
                   flaws>>

\* activateExtensionsTrigger: the listener that exists, or a new one.
ActivateExtensions ==
    /\ "ext" \in binding
    /\ binding' = binding \ {"ext"}
    /\ ext' = TRUE /\ listener' = TRUE
    /\ UNCHANGED <<trunk, made, pending, bound, reusing, reg, useReg, regTx, timer, flaws>>

\* activateTrunkTrigger for a ref without a host; it registers at once.
ActivateTrunk ==
    /\ "trunk" \in binding
    /\ binding' = binding \ {"trunk"}
    /\ made' = made + 1 /\ trunk' = made + 1
    /\ listener' = TRUE /\ bound' = bound \cup {made + 1}
    /\ \/ useReg' = useReg \cup {made + 1} /\ SendTrunkRegister(made + 1, FALSE, FALSE, timer, useReg')
       \/ UNCHANGED <<useReg, reg, regTx, timer>>
    /\ UNCHANGED <<ext, pending, reusing, flaws>>

BindFails ==
    /\ Cardinality(binding) = 1 /\ listener
    /\ binding' = {}
    /\ UNCHANGED <<ext, trunk, made, pending, sockets, reusing, reg, useReg, regTx, timer, flaws>>

\* activateTrunkTrigger for a ref that has a host: register again, or, with
\* other credentials or without registration, unregister a clone first.
\* Bound: one reuse at a time.
ReuseTrunk ==
    /\ trunk # 0 /\ reusing = 0
    /\ \/ /\ trunk \in useReg \/ reg[trunk].state = "none"
          /\ UNCHANGED bound
          /\ useReg' = useReg \cup {trunk}
          /\ SendTrunkRegister(trunk, FALSE, FALSE, timer \ {trunk}, useReg')
          /\ UNCHANGED <<made, pending, reusing>>
       \/ /\ reg[trunk].state # "none" /\ made + 1 \in Hosts
          /\ made' = made + 1 /\ reusing' = trunk
          /\ bound' = bound \cup {made + 1}
          /\ timer' = timer \ {trunk}
          /\ \/ /\ pending' = pending \cup {made + 1}
                /\ useReg' = useReg \cup {made + 1}
                /\ reg' = [reg EXCEPT ![made + 1] = Sent(reg[trunk], TRUE, FALSE, TRUE)]
                /\ regTx' = [regTx EXCEPT ![made + 1] = 1]
             \/ UNCHANGED <<pending, useReg, reg, regTx>>   \* it could not be sent
    /\ UNCHANGED <<ext, trunk, listener, binding, flaws>>

\* The unregister of the clone is out.  The host goes on with its new settings
\* even when its trigger was deactivated meanwhile.
ReuseEnds(h) ==
    /\ h = reusing
    /\ reusing' = 0
    /\ \/ /\ h \in useReg
          /\ UNCHANGED useReg
          /\ \/ /\ regTx[h] < 2 /\ h \in bound
                /\ regTx' = [regTx EXCEPT ![h] = @ + 1] /\ UNCHANGED timer
                /\ reg' = [reg EXCEPT ![h] = Sent(NoReg, FALSE, FALSE, TRUE)]
             \/ /\ timer' = timer \cup {h} /\ UNCHANGED regTx
                /\ reg' = [reg EXCEPT ![h] = Sent(NoReg, FALSE, FALSE, FALSE)]
       \/ /\ useReg' = useReg \ {h}
          /\ reg' = [reg EXCEPT ![h] = NoReg] /\ UNCHANGED <<regTx, timer>>
    /\ flaws' = flaws \cup (IF trunk # h THEN {"disowned"} ELSE {})
    /\ UNCHANGED <<ext, trunk, made, pending, sockets, binding>>

-----------------------------------------------------------------------------
(* Deactivation.                                                            *)

\* deactivateExtensionsTrigger asks for active hosts only, not for hosts that
\* still unregister.
DeactivateExtensions ==
    /\ ext
    /\ ext' = FALSE
    /\ IF trunk = 0 THEN CloseUdpListener ELSE UNCHANGED <<sockets, regTx>>
    /\ flaws' = flaws \cup (IF trunk = 0 /\ pending # {} THEN {"stranded"} ELSE {})
    /\ UNCHANGED <<trunk, made, pending, binding, reusing, reg, useReg, timer>>

\* deactivateTrunkTrigger: a host that registered unregisters in the background.
DeactivateTrunk ==
    /\ trunk # 0
    /\ trunk' = 0
    /\ IF reg[trunk].state = "none"
       THEN /\ timer' = timer \ {trunk}
            /\ IF ~ext /\ pending = {} THEN CloseUdpListener ELSE UNCHANGED <<sockets, regTx>>
            /\ UNCHANGED <<pending, reg>>
       ELSE \/ /\ regTx[trunk] < 2
               /\ pending' = pending \cup {trunk}
               /\ reg' = [reg EXCEPT ![trunk] = Sent(@, TRUE, FALSE, TRUE)]
               /\ regTx' = [regTx EXCEPT ![trunk] = @ + 1]
               /\ timer' = timer \ {trunk} /\ UNCHANGED sockets
            \/ /\ UNCHANGED <<pending>>
               /\ timer' = timer \ {trunk}
               /\ reg' = [reg EXCEPT ![trunk] = NoReg]
               /\ IF ~ext /\ pending = {} THEN CloseUdpListener ELSE UNCHANGED <<sockets, regTx>>
    /\ UNCHANGED <<ext, made, binding, reusing, useReg, flaws>>

-----------------------------------------------------------------------------
(* The registrar's responses and the timers.  A response clears the         *)
(* transaction it answers; an answer that was already given may come again. *)

Owner(h) == h = trunk \/ h \in pending
Answerable(h) == Owner(h) /\ listener /\ h \in useReg /\ reg[h].sent /\ reg[h].state # "none"
Cleared(h) == {n \in {regTx[h], regTx[h] - 1} : n \in 0 .. 2}

\* scheduleTrunkRegistrationRefresh, ...Retry.
Schedule(h) == timer' = IF h \in useReg THEN timer \cup {h} ELSE timer \ {h}

\* 2xx.  After an unregister any 2xx will do, also a late one to an earlier REGISTER.
RegisterAccepted(h) ==
    /\ Answerable(h) /\ (reg[h].good \/ ~reg[h].challenge)
    /\ IF reg[h].state = "unregistering"
       THEN Finalize(h) /\ IF listener' THEN UNCHANGED regTx ELSE TRUE
       ELSE /\ reg' = [reg EXCEPT ![h].state = "registered", ![h].attempts = 0]
            /\ Schedule(h)
            /\ \E n \in Cleared(h) : regTx' = [regTx EXCEPT ![h] = n]
            /\ UNCHANGED <<pending, sockets>>
    /\ UNCHANGED <<ext, trunk, made, binding, reusing, useReg, flaws>>

\* 423 with Min-Expires: again, at once.
IntervalTooBrief(h) ==
    /\ Answerable(h) /\ regTx[h] > 0 /\ reg[h].state # "unregistering"
    /\ reg' = [reg EXCEPT ![h] = Sent(@, FALSE, FALSE, TRUE)]
    /\ \/ h \in bound /\ UNCHANGED <<regTx, timer>>
       \/ regTx' = [regTx EXCEPT ![h] = @ - 1] /\ Schedule(h)
    /\ UNCHANGED <<ext, trunk, made, pending, sockets, binding, reusing, useReg, flaws>>

RetriesUnregister(h) ==
    /\ regTx[h] > 0 /\ (Answerable(h) \/ reg[h].state # "none")
    /\ regTx' = [regTx EXCEPT ![h] = @ - 1]
    /\ Schedule(h)
    /\ UNCHANGED <<ext, trunk, made, pending, sockets, binding, reusing, reg, useReg, flaws>>

\* Any other refusal, or no response at all for 32 s.
RegisterFails(h) ==
    /\ regTx[h] > 0 /\ (Answerable(h) \/ reg[h].state # "none")
    /\ IF reg[h].state = "unregistering"
       THEN Finalize(h) /\ IF listener' THEN regTx' = [regTx EXCEPT ![h] = @ - 1] ELSE TRUE
       ELSE /\ regTx' = [regTx EXCEPT ![h] = @ - 1]
            /\ reg' = [reg EXCEPT ![h].state = "registering"]
            /\ Schedule(h)
            /\ UNCHANGED <<pending, sockets>>
    /\ UNCHANGED <<ext, trunk, made, binding, reusing, useReg, flaws>>

\* A time-out of a host that lost its registration record schedules in vain.
OrphanTimesOut(h) ==
    /\ regTx[h] > 0 /\ reg[h].state = "none"
    /\ regTx' = [regTx EXCEPT ![h] = @ - 1]
    /\ Schedule(h)
    /\ UNCHANGED <<ext, trunk, made, pending, sockets, binding, reusing, reg, useReg, flaws>>

\* 401 or 407 with a nonce that was not used yet.  Two attempts are made; they
\* are counted across time-outs, and only a 2xx sets them back.
Challenged(h) ==
    /\ Answerable(h) /\ regTx[h] > 0
    /\ IF reg[h].attempts >= 2
       THEN IF reg[h].state = "unregistering"
            THEN /\ Finalize(h)
                 /\ IF listener' THEN regTx' = [regTx EXCEPT ![h] = @ - 1] ELSE TRUE
                 /\ UNCHANGED <<flaws>>
            ELSE /\ regTx' = [regTx EXCEPT ![h] = @ - 1] /\ Schedule(h)
                 /\ UNCHANGED <<reg, pending, sockets, flaws>>
       ELSE /\ reg' = [reg EXCEPT ![h] = Sent(@, reg[h].state = "unregistering", TRUE, TRUE)]
            /\ \/ h \in bound /\ UNCHANGED <<regTx, timer, flaws>>
               \/ /\ regTx' = [regTx EXCEPT ![h] = @ - 1] /\ Schedule(h)
                  /\ flaws' = flaws \cup (IF reg[h].state = "unregistering" THEN {"unsent"} ELSE {})
            /\ UNCHANGED <<pending, sockets>>
    /\ UNCHANGED <<ext, trunk, made, binding, reusing, useReg>>

\* The nonce again, or no credentials: nothing follows, whatever was under way.
ChallengedInVain(h) ==
    /\ Answerable(h) /\ regTx[h] > 0
    /\ regTx' = [regTx EXCEPT ![h] = @ - 1]
    /\ flaws' = flaws \cup {"stuck"}
    /\ UNCHANGED <<ext, trunk, made, pending, sockets, binding, reusing, reg, useReg, timer>>

\* A nonce the registrar forgot makes the next REGISTER a challenged one.
NonceExpires(h) ==
    /\ reg[h].good /\ regTx[h] = 0
    /\ reg' = [reg EXCEPT ![h].good = FALSE]
    /\ UNCHANGED <<ext, trunk, made, pending, sockets, binding, reusing, useReg, regTx, timer,
                   flaws>>

\* scheduleTrunkRegistrationTask: the timer asks for the ref, not for the host.
TimerFires(h) ==
    /\ h \in timer
    /\ UNCHANGED sockets
    /\ IF trunk # 0 /\ h \in useReg
       THEN SendTrunkRegister(h, FALSE, FALSE, timer \ {h}, useReg)
       ELSE timer' = timer \ {h} /\ UNCHANGED <<reg, regTx>>
    /\ UNCHANGED <<ext, trunk, made, pending, binding, reusing, useReg, flaws>>

-----------------------------------------------------------------------------
Continuations ==
    \/ ActivateExtensions \/ ActivateTrunk
    \/ \E h \in Hosts : ReuseEnds(h) \/ RegisterFails(h) \/ OrphanTimesOut(h) \/ TimerFires(h)

TrNext ==
    \/ Continuations
    \/ \E kind \in {"ext", "trunk"} : BeginBinding(kind)
    \/ BindFails \/ ReuseTrunk \/ DeactivateExtensions \/ DeactivateTrunk
    \/ \E h \in Hosts : \/ RegisterAccepted(h) \/ IntervalTooBrief(h)
                        \/ Challenged(h) \/ ChallengedInVain(h) \/ NonceExpires(h)

\* Every transaction is answered or times out.
TrFairness == \A h \in Hosts : WF_trVars(RegisterFails(h))
TrSpec == TrInit /\ [][TrNext]_trVars /\ TrFairness

-----------------------------------------------------------------------------
\* The endpoint is open exactly while somebody uses it: an active host, one
\* that still unregisters, or an activation on its way.
ListenerIffUsed ==
    /\ ext \/ trunk # 0 => listener
    /\ listener => ext \/ trunk # 0 \/ pending # {}

\* A trunk that registers always has a REGISTER under way or a timer.
KeepsRegistering ==
    (trunk \in useReg /\ reusing # trunk) =>
        regTx[trunk] > 0 \/ trunk \in timer \/ "stuck" \in flaws

\* An unregister has a REGISTER under way.
UnregisterUnderWay ==
    \A h \in pending : regTx[h] > 0 \/ flaws \cap {"stuck", "stranded", "unsent", "disowned"} # {}

\* What activation, deactivation and the registration timers keep true.
TrunksSafe == TrTypeOK /\ ListenerIffUsed /\ KeepsRegistering /\ UnregisterUnderWay

\* An unregister comes to an end.
UnregisterEnds ==
    \A h \in Hosts : 
        []<>(h \notin pending \/ flaws \cap {"stuck", "stranded", "unsent", "disowned"} # {})
=============================================================================
