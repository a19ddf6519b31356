------------------------------- MODULE RtpStream ------------------------------
(* The RTP transport of a SIP leg (media/transports/rtp-transport.ts): the    *)
(* attachment in the daemon, which owns the socket and holds packets back     *)
(* while the leg is placed on a worker or moved to another                    *)
(* (media/transports/media-transport.ts), and the transport in the worker,    *)
(* which numbers what it sends and reports the digits it hears.               *)
(*                                                                            *)
(* The packets of the peer are the end packets of telephone events, which     *)
(* every sender repeats and the network reorders.                             *)
EXTENDS Integers, Sequences, FiniteSets, SequencesExt

CONSTANTS MaxEvents,    \* bound on the digits the peer sends
          MaxPackets,   \* bound on the packets that arrive
          MaxPending,   \* packets held back; 16 in the code
          MaxSent,      \* bound on the packets the leg sends
          Modulus       \* sequence numbers; 2^16 in the code

ASSUME RtpAssumption ==
    /\ MaxEvents \in Nat /\ MaxPackets \in Nat /\ MaxPending \in Nat \ {0}
    /\ MaxSent \in Nat /\ Modulus \in Nat \ {0}

VARIABLES
    udp,        \* the attachment's socket, and one it lost sight of
    shut,       \* closing: close() was called
    remote,     \* where packets are sent
    setup,      \* the remote the signalling gave
    heard,      \* where the last packet came from
    holding,    \* suspended
    control,    \* the worker the attachment is bound to
    early,    \* packets held back
    inbox,      \* what was posted to each worker
    stage,      \* how far the leg is with its placing or its move
    last,       \* lastInboundDtmfKey in each worker
    next,       \* sequenceNumber in each worker
    arrived,    \* events of the packets that arrived, in order
    lost,       \* packets dropped on the way
    reported,   \* digits reported: packet, event and worker
    sent,       \* packets sent: number and worker
    reportedClosed, \* the closed socket was reported
    died        \* the socket closed or failed on its own

rtVars == <<udp, shut, remote, setup, heard, holding, control, early, inbox, stage, last,
            next, arrived, lost, reported, sent, reportedClosed, died>>

Workers2 == {1, 2}
Remotes == {"offered", "renegotiated", "latched"}
Closed == 0    \* the message that reports the transport closed

RtInit ==
    /\ udp = [state |-> "none", leaked |-> FALSE] /\ shut = FALSE
    /\ remote = "none" /\ setup = "none" /\ heard = "none"
    /\ holding = FALSE /\ control = 0 /\ early = <<>>
    /\ inbox = [w \in Workers2 |-> <<>>] /\ stage = "new"
    /\ last = [w \in Workers2 |-> 0] /\ next = [w \in Workers2 |-> Modulus - 1]
    /\ arrived = <<>> /\ lost = {} /\ reported = <<>> /\ sent = <<>>
    /\ reportedClosed = FALSE /\ died = FALSE

unlessPath == <<holding, control, early, inbox, lost>>
unlessRtpWorker == <<last, next, reported, sent>>
unlessSocket == <<udp, shut, remote, setup, heard, reportedClosed, died>>

-----------------------------------------------------------------------------
(* TransportAttachment.                                                      *)

Posted(w, ms) == [inbox EXCEPT ![w] = @ \o ms]

\* queueTransportInput: held back, the oldest dropped beyond the limit.
Queue(m) ==
    IF holding \/ control = 0
    THEN /\ early' = Append(IF Len(early) >= MaxPending THEN Tail(early) ELSE early, m)
         /\ lost' = lost \cup (IF Len(early) >= MaxPending THEN {Head(early)} ELSE {})
         /\ UNCHANGED inbox
    ELSE inbox' = Posted(control, <<m>>) /\ UNCHANGED <<early, lost>>

\* rebind, and resume: what was held back goes to the worker in order; without
\* a worker it is lost.
Resume(w) ==
    /\ control' = w /\ holding' = FALSE /\ early' = <<>>
    /\ IF w = 0 THEN lost' = lost \cup ToSet(early) /\ UNCHANGED inbox
       ELSE inbox' = Posted(w, early) /\ UNCHANGED lost

\* ensureWorkerForLeg: the first placing, and the ensuring of a placed leg.
PlaceBegins ==
    /\ stage \in {"new", "placed"} /\ udp.state = "open" /\ ~shut
    /\ holding' = TRUE /\ stage' = IF stage = "new" THEN "placing" ELSE "ensuring"
    /\ UNCHANGED <<unlessSocket, unlessRtpWorker, control, early, inbox, lost, arrived>>

PlaceEnds ==
    /\ stage \in {"placing", "ensuring"} /\ stage' = "placed" /\ Resume(1)
    /\ UNCHANGED <<unlessSocket, unlessRtpWorker, arrived>>

PlaceFails ==
    /\ stage \in {"placing", "ensuring"}
    /\ stage' = (IF stage = "placing" THEN "new" ELSE "placed") /\ Resume(control)
    /\ UNCHANGED <<unlessSocket, unlessRtpWorker, arrived>>

\* migrateLeg: the source exports the numbers, the target takes them, the
\* source forgets the leg once it has handled what was posted to it.
MoveBegins ==
    /\ stage = "placed" /\ ~shut /\ stage' = "exporting"
    /\ next' = [next EXCEPT ![2] = next[1]]
    /\ UNCHANGED <<unlessSocket, unlessPath, last, reported, sent, arrived>>

Suspended ==
    /\ stage = "exporting" /\ stage' = "accepting" /\ holding' = TRUE
    /\ UNCHANGED <<unlessSocket, unlessRtpWorker, control, early, inbox, lost, arrived>>

Rebound ==
    /\ stage = "accepting" /\ stage' = "leaving" /\ control' = 2
    /\ UNCHANGED <<unlessSocket, unlessRtpWorker, holding, early, inbox, lost, arrived>>

\* A plausible mistake: the target is fed before the source is drained.
DoesNotWait(w) == TRUE

\* removeEndpoint is answered after everything that was posted before it.
Drained(w) == inbox[w] = <<>>

MoveEnds ==
    /\ stage = "leaving" /\ Drained(1) /\ stage' = "moved" /\ Resume(2)
    /\ UNCHANGED <<unlessSocket, unlessRtpWorker, arrived>>

MoveFails ==
    /\ stage \in {"accepting", "leaving"} /\ stage' = "placed" /\ Resume(1)
    /\ UNCHANGED <<unlessSocket, unlessRtpWorker, arrived>>

-----------------------------------------------------------------------------
(* createRtpTransportAttachment.                                             *)

\* configure: a remote that is new, or the first, is where packets go; one
\* that was given before leaves the latched source alone.
ConfigureRtp(r) ==
    /\ stage \in {"new", "placed", "moved"} /\ ~shut
    /\ setup' = r
    /\ remote' = IF r # setup \/ remote = "none" THEN r ELSE remote
    /\ heard' = IF r # setup THEN "none" ELSE heard
    /\ udp' = [udp EXCEPT !.state = IF @ = "none" THEN "binding" ELSE @]
    /\ UNCHANGED <<unlessPath, unlessRtpWorker, shut, reportedClosed, died, stage, arrived>>

\* ensureSocket goes on after its bind, also when close() came in between.
Bound ==
    /\ udp.state = "binding"
    /\ udp' = [state |-> "open", leaked |-> shut]
    /\ UNCHANGED <<unlessPath, unlessRtpWorker, shut, remote, setup, heard, reportedClosed, died, stage, arrived>>

\* A packet: its source is latched.
PacketArrives(e, from) ==
    /\ udp.state = "open" /\ Len(arrived) < MaxPackets
    /\ e =< 1 + Max({0} \cup ToSet(arrived))
    /\ arrived' = Append(arrived, e) /\ remote' = from /\ heard' = from
    /\ Queue(Len(arrived) + 1)
    /\ UNCHANGED <<unlessRtpWorker, udp, shut, setup, holding, control, stage, reportedClosed, died>>

\* The socket fails or closes on its own: the worker is told once.
SocketDies ==
    /\ udp.state = "open" /\ ~shut /\ udp' = [udp EXCEPT !.state = "closed"]
    /\ died' = TRUE /\ reportedClosed' = TRUE
    /\ IF reportedClosed THEN UNCHANGED <<early, inbox, lost>> ELSE Queue(Closed)
    /\ UNCHANGED <<unlessRtpWorker, shut, remote, setup, heard, holding, control, stage, arrived>>

\* close, by removeLeg, or by the shutdown of the daemon, which takes no lock.
CloseRtp ==
    /\ ~shut /\ stage # "gone" /\ shut' = TRUE /\ holding' = TRUE
    /\ udp' = [udp EXCEPT !.state = IF @ = "open" THEN "closed" ELSE @]
    /\ stage' = IF stage \in {"new", "placed", "moved"} THEN "gone" ELSE stage
    /\ UNCHANGED <<unlessRtpWorker, control, early, inbox, lost, remote, setup, heard, reportedClosed, died, arrived>>

-----------------------------------------------------------------------------
(* RtpTransport.                                                             *)

\* handlePacket: an end packet with the key of the last one is a repetition.
WorkerHears(w) ==
    /\ inbox[w] # <<>> /\ inbox' = [inbox EXCEPT ![w] = Tail(@)]
    /\ LET m == Head(inbox[w])
           new == m # Closed /\ arrived[m] # last[w] IN
       IF new THEN /\ last' = [last EXCEPT ![w] = arrived[m]]
                   /\ reported' = Append(reported, [packet |-> m, event |-> arrived[m], by |-> w])
       ELSE UNCHANGED <<last, reported>>
    /\ UNCHANGED <<unlessSocket, holding, control, early, lost, next, sent, stage, arrived>>

\* A frame of sendPlaybackPcm, or a packet of sendDtmf, which does not wait for
\* the frames under way: both number from the same counter.  The worker a leg
\* is moved from still has it, and a DTMF command may be on its way there;
\* commands go to the target once the leg is assigned to it.
HasLeg(w) == IF w = 1 THEN stage \in {"placed", "ensuring", "exporting", "accepting", "leaving"}
             ELSE stage = "moved"

Advance(n) == (n + 1) % Modulus

SendRtp(w) ==
    /\ HasLeg(w) /\ Len(sent) < MaxSent
    /\ sent' = Append(sent, [n |-> next[w], by |-> w,
                             late |-> stage \in {"exporting", "accepting", "leaving"}])
    /\ next' = [next EXCEPT ![w] = Advance(@)]
    /\ UNCHANGED <<unlessSocket, unlessPath, last, reported, stage, arrived>>

RtNext ==
    \/ PlaceBegins \/ PlaceEnds \/ PlaceFails
    \/ MoveBegins \/ Suspended \/ Rebound \/ MoveEnds \/ MoveFails
    \/ \E r \in {"offered", "renegotiated"} : ConfigureRtp(r)
    \/ Bound \/ SocketDies \/ CloseRtp
    \/ \E e \in 1 .. MaxEvents, from \in {"offered", "latched"} : PacketArrives(e, from)
    \/ \E w \in Workers2 : WorkerHears(w) \/ SendRtp(w)

-----------------------------------------------------------------------------
\* Every value is one the code can have.
RtTypeOK ==
    /\ udp \in [state : {"none", "binding", "open", "closed"}, leaked : BOOLEAN]
    /\ {remote, setup, heard} \subseteq Remotes \cup {"none"}
    /\ control \in {0} \cup Workers2 /\ Len(early) =< MaxPending
    /\ next \in [Workers2 -> 0 .. Modulus - 1]

\* Every digit that arrived is reported, is on its way to a worker, or was
\* dropped because too many packets waited or no worker was found; nothing
\* waits in an attachment that delivers.
DigitsAreHeard ==
    /\ \A m \in 1 .. Len(arrived) :
          \/ m \in ToSet(early) \cup ToSet(inbox[1]) \cup ToSet(inbox[2]) \cup lost
          \/ \E k \in 1 .. Len(reported) : reported[k].event = arrived[m]
    /\ early # <<>> => holding \/ control = 0

\* Digits are reported in the order their packets arrived, also across a move.
InOrder == \A i, k \in 1 .. Len(reported) : i < k => reported[i].packet < reported[k].packet

\* A digit is reported once: twice only when a late repetition arrives after
\* the packet of another digit, or at another worker than the first.
OncePerDigit ==
    \A i, k \in 1 .. Len(reported) : i < k /\ reported[i].event = reported[k].event =>
        \E h \in i + 1 .. k : reported[h].event # reported[i].event \/ reported[h].by # reported[i].by

\* Sequence numbers go on by one, across the wrap and across a move, except
\* after packets the source sent when it had exported its numbers.
NumbersGoOn ==
    \A i \in 1 .. Len(sent) - 1 :
        sent[i + 1].n = Advance(sent[i].n) \/ \E h \in 1 .. i + 1 : sent[h].late

\* Packets go to where the peer was last heard, or to the remote the signalling
\* gave since.
RemoteIsLatest == remote = IF heard # "none" THEN heard ELSE setup

\* A socket that closed on its own is reported unless the attachment is being
\* closed; a closed attachment leaves no socket but one whose bind was under
\* way when the daemon shut down.
SocketIsAccounted ==
    /\ died <=> reportedClosed
    /\ shut /\ udp.state = "open" => udp.leaked

\* What the transport promises.
RtpSafe == RtTypeOK /\ DigitsAreHeard /\ InOrder /\ OncePerDigit /\ NumbersGoOn
           /\ RemoteIsLatest /\ SocketIsAccounted

RtSpec == RtInit /\ [][RtNext]_rtVars
=============================================================================
