------------------------------ MODULE Bindings ------------------------------
(* The phones of one extension of one extensions trigger: the REGISTERs they  *)
(* send, the bindings the registry keeps, the grace after the trigger's       *)
(* stream closed, and whom the host offers to a dial or a queue.              *)
(*   signaling/extensions/extension-binding-registry.ts                       *)
(*   signaling/extensions/extension-registration-grace.ts                     *)
(*   signaling/extensions/extension-host.ts                                   *)
(*   signaling/sip/sip-transport-service.ts (REGISTER, authorisation)         *)
(* Expiry is an event: a binding whose expiresAt has passed is "stale" until  *)
(* some reader sweeps it.  Faults: REGISTERs overtake each other or are lost; *)
(* the trigger closes while one is being authorised.                          *)
EXTENDS Integers, FiniteSets

CONSTANTS Phones,    \* endpoints of the extension, each with its contact
          MaxSent    \* REGISTERs each phone sends

ASSUME PhonesAssumption == IsFiniteSet(Phones) /\ MaxSent \in Nat

VARIABLES
    binding,  \* registry: by phone, none, fresh or stale
    phone,    \* by phone: whether it was last told it is registered, its REGISTERs sent and answered
    net,      \* REGISTERs under way, as <<phone, number, "register" or "remove">>
    auth,     \* REGISTERs whose authorisation is awaited
    trigger,  \* its stream: "active", "closed", or "activating" (activateTrigger awaited)
    grace,    \* the grace timer of the ref runs
    told,     \* the phones online at the last onAvailabilityChanged
    ebFlaws   \* what happened that the code has no answer to

ebVars == <<binding, phone, net, auth, trigger, grace, told, ebFlaws>>

EbFlaws == {"overtaken", "wiped", "late"}
Requests == Phones \X (1..MaxSent) \X {"register", "remove"}

EbTypeOK ==
    /\ binding \in [Phones -> {"none", "fresh", "stale"}]
    /\ phone \in [Phones -> [on : BOOLEAN, sent : 0..MaxSent, heard : 0..MaxSent]]
    /\ net \subseteq Requests /\ auth \subseteq Requests
    /\ trigger \in {"active", "closed", "activating"}
    /\ grace \in BOOLEAN
    /\ told \subseteq Phones
    /\ ebFlaws \subseteq EbFlaws

EbInit ==
    /\ binding = [p \in Phones |-> "none"]
    /\ phone = [p \in Phones |-> [on |-> FALSE, sent |-> 0, heard |-> 0]]
    /\ net = {} /\ auth = {}
    /\ trigger = "active"
    /\ grace = FALSE
    /\ told = {}
    /\ ebFlaws = {}

Online(b) == {p \in Phones : b[p] # "none"}

\* sweepExpiredBindings, before every listing.
Swept(b) == [p \in Phones |-> IF b[p] = "stale" THEN "none" ELSE b[p]]

\* onAvailabilityChanged: whoever waits for an extension lists it again, which sweeps.
Store(b) == binding' = Swept(b) /\ told' = Online(Swept(b))

(* ------------------------------ the phones ------------------------------- *)

Send(p, kind) ==
    /\ phone[p].sent < MaxSent
    /\ phone' = [phone EXCEPT ![p].sent = @ + 1]
    /\ net' = net \cup {<<p, phone[p].sent + 1, kind>>}
    /\ UNCHANGED <<binding, auth, trigger, grace, told, ebFlaws>>

Lose(m) ==
    /\ m \in net
    /\ net' = net \ {m}
    /\ UNCHANGED <<binding, phone, auth, trigger, grace, told, ebFlaws>>

\* The expiry the phone was granted passes, for the phone and for the registry alike.
Expire(p) ==
    /\ binding[p] = "fresh"
    /\ binding' = [binding EXCEPT ![p] = "stale"]
    /\ phone' = [phone EXCEPT ![p].on = FALSE]
    /\ UNCHANGED <<net, auth, trigger, grace, told, ebFlaws>>

(* ------------------------------- the host -------------------------------- *)

\* A REGISTER reaches a trigger that is served; its authorisation may take an await.
Arrive(m) ==
    /\ m \in net /\ trigger = "active"
    /\ net' = net \ {m}
    /\ auth' = auth \cup {m}
    /\ UNCHANGED <<binding, phone, trigger, grace, told, ebFlaws>>

Refuse(m) ==
    /\ m \in auth
    /\ auth' = auth \ {m}
    /\ UNCHANGED <<binding, phone, net, trigger, grace, told, ebFlaws>>

\* completeExtensionsRegister: Expires 0 removes the binding of the contact, anything else puts
\* it.  Neither the trigger nor the order of the REGISTERs is looked at again; the 200 OK tells
\* the phone, which heeds it unless a later request of its was answered already.
Complete(m) ==
    LET p == m[1] IN
    /\ m \in auth
    /\ auth' = auth \ {m}
    /\ Store([binding EXCEPT ![p] = IF m[3] = "register" THEN "fresh" ELSE "none"])
    /\ phone' = IF m[2] < phone[p].heard THEN phone
                ELSE [phone EXCEPT ![p].on = m[3] = "register", ![p].heard = m[2]]
    /\ ebFlaws' = ebFlaws \cup (IF m[2] < phone[p].heard THEN {"overtaken"} ELSE {})
                          \cup (IF trigger # "active" /\ m[3] = "register" THEN {"late"} ELSE {})
    /\ UNCHANGED <<net, trigger, grace>>

\* handleTriggerClosed: the grace timer starts; reactivation cancels it, but only after its await.
TriggerCloses ==
    /\ trigger = "active"
    /\ trigger' = "closed"
    /\ grace' = TRUE
    /\ UNCHANGED <<binding, phone, net, auth, told, ebFlaws>>

Reactivates ==
    /\ trigger = "closed"
    /\ trigger' = "activating"
    /\ UNCHANGED <<binding, phone, net, auth, grace, told, ebFlaws>>

TriggerActivated ==
    /\ trigger = "activating"
    /\ trigger' = "active"
    /\ grace' = FALSE
    /\ UNCHANGED <<binding, phone, net, auth, told, ebFlaws>>

\* The timer fires: unregisterByRef.  The phones were not reachable for the whole grace, unless
\* the trigger is being activated again at this very moment.
WipeSilently ==
    /\ grace
    /\ grace' = FALSE
    /\ binding' = [p \in Phones |-> "none"]
    /\ phone' = IF trigger = "closed" THEN [p \in Phones |-> [phone[p] EXCEPT !.on = FALSE]] ELSE phone
    /\ ebFlaws' = IF trigger = "activating" THEN ebFlaws \cup {"wiped"} ELSE ebFlaws
    /\ UNCHANGED <<net, auth, trigger, told>>

GraceEnds ==
    /\ grace
    /\ grace' = FALSE
    /\ binding' = [p \in Phones |-> "none"]
    /\ told' = IF Online(binding) # {} THEN {} ELSE told
    /\ phone' = IF trigger = "closed" THEN [p \in Phones |-> [phone[p] EXCEPT !.on = FALSE]] ELSE phone
    /\ ebFlaws' = IF trigger = "activating" THEN ebFlaws \cup {"wiped"} ELSE ebFlaws
    /\ UNCHANGED <<net, auth, trigger>>

\* A reader lists the extension (a dial, a queue, a statistic): the sweep reports what it removed.
Read ==
    /\ Store(binding)
    /\ UNCHANGED <<phone, net, auth, trigger, grace, ebFlaws>>

EbNext ==
    \/ \E p \in Phones : Send(p, "register") \/ Send(p, "remove") \/ Expire(p)
    \/ \E m \in net : Lose(m) \/ Arrive(m)
    \/ \E m \in auth : Refuse(m) \/ Complete(m)
    \/ Read \/ TriggerCloses \/ Reactivates \/ TriggerActivated \/ GraceEnds

EbSpec == EbInit /\ [][EbNext]_ebVars

(* ------------------------------ properties ------------------------------- *)

\* A phone that was told 200 OK and has not lapsed can be dialled: its binding is there until it
\* expires, it unregisters, or its trigger stays away for the whole grace.  An older REGISTER that
\* comes late, and a grace that ends during the reactivation, are the exceptions.
ToldPhonesAreBound ==
    ebFlaws \cap {"overtaken", "wiped"} = {} =>
        \A p \in Phones : phone[p].on => binding[p] = "fresh"

\* And nobody else is offered: a phone that unregistered or never registered has no live binding.
OnlyToldPhonesAreBound ==
    ebFlaws \cap {"overtaken", "late"} = {} =>
        \A p \in Phones : binding[p] = "fresh" => phone[p].on

\* Bindings do not outlive their trigger: after the grace there is none, except those of a
\* REGISTER that was being authorised when the trigger closed.
NoBindingAfterGrace ==
    "late" \notin ebFlaws => (trigger = "closed" /\ ~grace => Online(binding) = {})

\* Whoever waits for an extension was told of every phone that came and went; only an expiry goes
\* unnoticed until the next reader.
AvailabilityTold ==
    told = Online(binding)

BindingsSafe ==
    /\ EbTypeOK
    /\ ToldPhonesAreBound
    /\ OnlyToldPhonesAreBound
    /\ NoBindingAfterGrace
    /\ AvailabilityTold
=============================================================================
