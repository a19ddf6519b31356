------------------------------ MODULE Admission ------------------------------
(***************************************************************************)
(* Who owns a REGISTER or an initial INVITE that arrives at an endpoint    *)
(* (src/daemon/signaling/sip/sip-transport-service.ts,                     *)
(* digest-nonce-registry.ts, digest-auth.ts).  The fixed trunks come       *)
(* first, then the dynamic trunks, then the extensions triggers; a dynamic *)
(* trunk or an extensions trigger authenticates the request, by itself or  *)
(* through its workflow, and the first to which it applies decides.        *)
(*                                                                         *)
(* The phone holds one nonce and answers a challenge with it.  A nonce is  *)
(* signed for the kind of trigger that challenged, expires, and does not   *)
(* survive a restart of the daemon.                                        *)
(***************************************************************************)
EXTENDS Naturals, Sequences, SequencesExt

VARIABLES
    hosts,    \* the dynamic trunks and the extensions triggers of the endpoint, in this order
    fixed,    \* the fixed trunk that recognises the sender: "route", "address" or "none"
    invite,   \* the request is an INVITE
    strict,   \* the phone repeats refused credentials only if told that the nonce was stale
    phone,    \* "idle", "out" (its request is on its way), "served", "refused", "gaveUp"
    nonce,    \* what its Authorization header holds: whose nonce, and whether it expired
    owner,    \* the place in hosts of the one that served it, 0: none of them
    tries,    \* requests since the nonce was last spoilt
    admission \* history: what kept the phone out

adVars == <<hosts, fixed, invite, strict, phone, nonce, owner, tries, admission>>

\* A host: static compares with its own credentials, digest-first wants an
\* Authorization before it asks its workflow, raw asks at once.  knows: the
\* user is one of its credentials or bears its prefix; right: the password
\* is; says: what its workflow answers; names: and gives an extension number.
Modes == {"static", "digest-first", "raw"}
Says == {"allow", "verify_password", "deny", "not_applicable", "challenge"}

Relevant(h) ==
    /\ h.mode = "static" => h.says = "verify_password" /\ h.names
    /\ h.mode = "raw" \/ (h.kind = "trunk" /\ h.mode # "static") => h.knows
    /\ h.kind = "trunk" => h.names
    /\ h.says \notin {"allow", "verify_password"} => h.names
    /\ h.says # "verify_password" => h.right
    /\ ~h.knows => h.right /\ ~h.more /\ h.says = "verify_password" /\ h.names

HostSet(k) == {h \in [kind : {k}, mode : Modes, knows : BOOLEAN, right : BOOLEAN,
                      says : Says, names : BOOLEAN, more : BOOLEAN] : Relevant(h)}

NoNonce == [of |-> "none", old |-> FALSE]

\* "crossed"   a challenge of a dynamic trunk was answered, and an extensions
\*             trigger did not accept the answer
\* "restarted" the nonce is one of an earlier daemon
\* "masked"    a rejecting trunk that lets the search go on ended it before
\*             the extensions triggers were tried
Hindrances == {"crossed", "restarted", "masked"}

AdInit ==
    /\ fixed \in {"none", "route", "address"}
    /\ invite \in BOOLEAN /\ strict \in BOOLEAN
    /\ hosts \in {<<>>} \cup UNION {{<<h>> : h \in HostSet(k)} : k \in {"trunk", "ext"}}
                 \cup {<<a, b>> : a \in HostSet("trunk"), b \in HostSet("ext")}
                 \cup {<<a, b>> : a \in HostSet("ext"), b \in HostSet("ext")}
                 \cup {<<a, b>> : a \in HostSet("trunk"), b \in HostSet("trunk")}
    /\ Len(hosts) = 2 => fixed = "none" /\ ~invite
    /\ phone = "idle" /\ nonce = NoNonce
    /\ owner = 0 /\ tries = 0 /\ admission = {}

-----------------------------------------------------------------------------
(* Outcomes of one host                                                     *)

Allowed == [status |-> "allowed", stale |-> FALSE]
Rejected == [status |-> "rejected", stale |-> FALSE]
NotApplicable == [status |-> "notApplicable", stale |-> FALSE]
Challenge(stale) == [status |-> "challenged", stale |-> stale]

HasAuth == nonce.of # "none"

\* Mutant: the age of a nonce is not looked at.
ValidatedBySignature(h) == [ok |-> nonce.of = h.kind, stale |-> FALSE]

\* SipDigestNonceRegistry.validate: a nonce signed for another scope, or by
\* another daemon, is invalid before its age is looked at.
Validated(h) ==
    [ok |-> nonce.of = h.kind /\ ~nonce.old, stale |-> nonce.of = h.kind /\ nonce.old]

\* verifyHostDigestAuthorization, and what its callers make of it.
Verified(h, then) ==
    LET v == Validated(h)
    IN CASE ~v.ok -> Challenge(v.stale)
         [] v.ok /\ ~h.right -> Rejected
         [] OTHER -> then

ResolveStaticAuth(h) ==
    IF ~HasAuth THEN Challenge(FALSE)
    ELSE IF h.knows THEN Verified(h, Allowed) ELSE NotApplicable

\* resolveExtension: a number from the workflow, or the user name.
WithExtension(h) ==
    IF h.kind = "trunk" \/ h.names \/ HasAuth THEN Allowed ELSE Rejected

ApplyInteractiveAuthResponse(h) ==
    CASE h.says = "allow" -> WithExtension(h)
      [] h.says = "verify_password" ->
           IF HasAuth THEN Verified(h, WithExtension(h)) ELSE Challenge(FALSE)
      [] h.says = "deny" -> Rejected
      [] h.says = "not_applicable" -> NotApplicable
      [] h.says = "challenge" -> Challenge(HasAuth /\ Validated(h).stale)

ResolveTrunkAuth(h) ==
    CASE h.mode = "static" -> ResolveStaticAuth(h)
      [] h.mode = "digest-first" /\ ~HasAuth -> Challenge(FALSE)
      [] OTHER -> ApplyInteractiveAuthResponse(h)

\* Unlike a trunk, an extensions trigger asks first whether the user name
\* bears its prefix.
ResolveExtensionsAuth(h) ==
    IF h.mode # "raw" /\ HasAuth /\ ~h.knows THEN NotApplicable ELSE ResolveTrunkAuth(h)

ResolveAuth(h) == IF h.kind = "trunk" THEN ResolveTrunkAuth(h) ELSE ResolveExtensionsAuth(h)

-----------------------------------------------------------------------------
(* The traversal                                                            *)

ShouldContinue(h, r) == h.more /\ r.status = "rejected"

\* handleAuthOwnedRequestByEndpoint: the first candidate with an outcome that
\* ends the search; else the last reject that was passed over; else nobody.
Candidates(kind) == SelectSeq([i \in 1 .. Len(hosts) |-> i], LAMBDA i : hosts[i].kind = kind)

Traverse(kind) ==
    FoldLeft(LAMBDA acc, i :
                LET r == ResolveAuth(hosts[i])
                IN IF acc.done \/ r.status = "notApplicable" THEN acc
                   ELSE [done |-> ~ShouldContinue(hosts[i], r), answer |-> r, host |-> i],
             [done |-> FALSE, answer |-> NotApplicable, host |-> 0],
             Candidates(kind))

\* The dynamic trunks, and if none of them owns the request the extensions.
Kind == IF Traverse("trunk").host # 0 THEN "trunk" ELSE "ext"
Stage == Traverse(Kind)

\* handleFixedTrunkRequestByEndpoint: the route token of a registered trunk
\* counts for an INVITE only.
FixedOwns == fixed = "address" \/ (fixed = "route" /\ invite)

-----------------------------------------------------------------------------
(* The phone and the endpoint                                               *)

Sends ==
    /\ phone = "idle"
    /\ phone' = "out"
    /\ tries' = tries + 1
    /\ UNCHANGED <<hosts, fixed, invite, strict, nonce, owner, admission>>

Answered(p) == phone' = p /\ UNCHANGED <<hosts, fixed, invite, strict, tries>>

FixedTrunkServes ==
    /\ phone = "out" /\ FixedOwns
    /\ Answered("served") /\ UNCHANGED <<nonce, owner, admission>>

HostServes ==
    /\ phone = "out" /\ ~FixedOwns
    /\ Stage.answer.status = "allowed"
    /\ owner' = Stage.host
    /\ Answered("served") /\ UNCHANGED <<nonce, admission>>

\* A reject that ends the search, or the one remembered: an extensions trigger
\* behind the trunks is not tried then.
HostRejects ==
    /\ phone = "out" /\ ~FixedOwns
    /\ Stage.answer.status = "rejected"
    /\ admission' = admission \cup
          {f \in {"masked"} : Kind = "trunk" /\ ~Stage.done /\ Traverse("ext").answer.status = "allowed"}
    /\ Answered("refused") /\ UNCHANGED <<nonce, owner>>

\* sendHostAuthFailure: a nonce of this endpoint and kind of trigger.
HostChallenges ==
    /\ phone = "out" /\ ~FixedOwns
    /\ Stage.answer.status = "challenged"
    /\ nonce' = [of |-> Kind, old |-> FALSE]
    /\ admission' = admission \cup {f \in {"crossed"} : Kind = "ext" /\ nonce.of = "trunk"}
                              \cup {f \in {"restarted"} : nonce.of = "other"}
    /\ Answered(IF strict /\ HasAuth /\ ~Stage.answer.stale THEN "gaveUp" ELSE "idle")
    /\ UNCHANGED owner

\* 501 for a REGISTER, 404 for an INVITE.
NobodyServes ==
    /\ phone = "out" /\ ~FixedOwns
    /\ Stage.host = 0
    /\ Answered("refused") /\ UNCHANGED <<nonce, owner, admission>>

\* Five minutes pass, or the daemon comes back with another secret.
Spoilt(n) ==
    /\ phone = "idle" /\ HasAuth /\ ~nonce.old /\ nonce.of # "other" /\ tries < 4
    /\ nonce' = n /\ tries' = 0
    /\ UNCHANGED <<hosts, fixed, invite, strict, phone, owner, admission>>

NonceGrowsOld == Spoilt([nonce EXCEPT !.old = TRUE])
DaemonRestarts == Spoilt([nonce EXCEPT !.of = "other"])

\* A phone that is always told to try again does so five times.
Tires ==
    /\ phone = "idle" /\ tries = 4
    /\ phone' = "gaveUp"
    /\ UNCHANGED <<hosts, fixed, invite, strict, nonce, owner, tries, admission>>

AdNext ==
    \/ tries < 4 /\ Sends
    \/ FixedTrunkServes \/ HostServes \/ HostRejects \/ HostChallenges \/ NobodyServes
    \/ NonceGrowsOld \/ DaemonRestarts \/ Tires

AdSpec == AdInit /\ [][AdNext]_adVars

-----------------------------------------------------------------------------
AdTypeOK ==
    /\ phone \in {"idle", "out", "served", "refused", "gaveUp"}
    /\ nonce \in [of : {"none", "trunk", "ext", "other"}, old : BOOLEAN]
    /\ tries \in 0 .. 4
    /\ admission \subseteq Hindrances

\* A host takes a request only if its workflow allows it without a password,
\* or its password is right and the nonce a fresh one of this daemon: and
\* then no host before it had anything to say but a reject it lets pass.
ServedByRight ==
    phone = "served" /\ owner # 0 =>
        /\ LET h == hosts[owner]
           IN \/ h.mode # "static" /\ h.says = "allow"
              \/ h.right /\ nonce = [of |-> h.kind, old |-> FALSE]
        /\ \A i \in 1 .. owner - 1 :
              \/ ResolveAuth(hosts[i]).status = "notApplicable"
              \/ hosts[i].more /\ ResolveAuth(hosts[i]).status = "rejected"

\* Only a workflow that always challenges keeps a phone asking: any other
\* endpoint decides within a challenge and its answer, one more for the
\* challenge of a trunk in front of the extensions.
Insists(h) == h.says = "challenge"
DecidesSoon ==
    (\A i \in 1 .. Len(hosts) : ~Insists(hosts[i])) =>
        tries =< IF "crossed" \in admission THEN 3 ELSE 2

\* The phone gives up on a question that never ends, or because of a nonce
\* that the answering host does not know as its own.
GivesUpForAReason ==
    phone = "gaveUp" =>
        \/ \E i \in 1 .. Len(hosts) : Insists(hosts[i])
        \/ admission \cap {"crossed", "restarted"} # {}

\* A reject ends at the phone only if no host that was to be tried next
\* would have served it.
RejectedByRight ==
    phone = "refused" /\ "masked" \notin admission =>
        \A i \in 1 .. Len(hosts) :
            ResolveAuth(hosts[i]).status = "allowed" =>
                \E j \in 1 .. i - 1 :
                    LET r == ResolveAuth(hosts[j])
                    IN r.status = "challenged" \/ (r.status = "rejected" /\ ~hosts[j].more)

\* What an endpoint may do to those who ask (sip-transport-service.ts:1335-1384,
\* 1929-2250, CHANGELOG.md:75-78).
AdmissionSafe ==
    AdTypeOK /\ ServedByRight /\ DecidesSoon /\ GivesUpForAReason /\ RejectedByRight
=============================================================================
