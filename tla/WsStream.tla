------------------------------- MODULE WsStream -------------------------------
(* The attachment of a voice agent's leg to its websocket                    *)
(* (media/transports/websocket-transport.ts, the class in the daemon).        *)
(*                                                                            *)
(* configure() runs under the leg's lock.  What the worker sends, and control *)
(* messages, call ensureSocket without it and open the socket when it is not  *)
(* there.  Promise reactions run before the next event, so the waiters of a   *)
(* promise go on in the step that settles it.                                 *)
EXTENDS Integers, Sequences, FiniteSets

CONSTANTS Urls,         \* where an agent may listen
          Senders,      \* sends that are under way at the same time
          MaxSockets    \* bound on the sockets opened

ASSUME WsAssumption == MaxSockets \in Nat \ {0} /\ 0 \notin Urls

VARIABLES
    socks,      \* the sockets opened, in order
    at,         \* this.socket, this.connectingSocket and this.connectPromise: 0 or a socket
    url,        \* socketUrl, 0 without one
    deferred,   \* the session is not activated yet
    wsClosing, wsTold,
    config,     \* the configure under way, and what it waits for
    sends,      \* the socket whose connect each send waits for
    close,      \* how far close() is
    mishaps

wsVars == <<socks, at, url, deferred, wsClosing, wsTold, config, sends, close, mishaps>>

NoSocket == [socket |-> 0, connecting |-> 0, promise |-> 0]
AtRest == [step |-> "idle", on |-> 0, url |-> 0, fits |-> TRUE]

WsInit ==
    /\ socks = <<>> /\ at = NoSocket /\ url = 0 /\ deferred = FALSE
    /\ wsClosing = FALSE /\ wsTold = FALSE /\ config = AtRest
    /\ sends = [s \in Senders |-> 0] /\ close = [step |-> "no", on |-> 0] /\ mishaps = {}

SocketIds == DOMAIN socks
Live(ss, n) == ss[n].state \in {"connecting", "open"} /\ ss[n].handshake # "failed"

-----------------------------------------------------------------------------
(* ensureSocket, on the sockets ss and the pointers a: what it leaves, and    *)
(* the connect it awaits (0: none).                                           *)

Connects(ss, a, u) ==
    LET n == Len(ss) + 1 IN
    [socks |-> Append(ss, [state |-> "connecting", handshake |-> "pending",
                           up |-> FALSE, url |-> u]),
     at |-> [a EXCEPT !.connecting = n, !.promise = n], waits |-> n]

\* A plausible mistake: a connect under way is not joined.
AlwaysConnects(ss, a, u) ==
    IF a.socket # 0 \/ u = 0 THEN [socks |-> ss, at |-> a, waits |-> 0] ELSE Connects(ss, a, u)

EnsuredSocket(ss, a, u) ==
    IF a.socket # 0 \/ a.promise # 0 \/ u = 0
    THEN [socks |-> ss, at |-> a, waits |-> IF a.socket # 0 THEN 0 ELSE a.promise]
    ELSE Connects(ss, a, u)

\* closeSocketOnly: everything is forgotten, and the socket's end awaited.
Dropped == IF at.socket # 0 THEN at.socket ELSE at.connecting
WithoutDropped ==
    [n \in SocketIds |-> IF n = Dropped /\ socks[n].state # "closed"
                   THEN [socks[n] EXCEPT !.state = IF @ = "connecting" THEN "aborting" ELSE "closing"]
                   ELSE socks[n]]

\* configure() goes on to ensureSocket; it is over when that waits for nothing.
Configured(e, u) ==
    IF e.waits # 0 THEN [step |-> "connecting", on |-> e.waits, url |-> u, fits |-> TRUE]
    ELSE [AtRest EXCEPT !.fits = u = 0 \/ (e.at.socket # 0 /\ e.socks[e.at.socket].url = u)]

ConfigureWs(u, d) ==
    /\ config.step = "idle" /\ ~wsClosing /\ deferred' = d
    /\ IF url \notin {0, u} /\ (at.socket # 0 \/ at.promise # 0)
          /\ Dropped # 0
       THEN /\ socks' = WithoutDropped /\ at' = NoSocket
            /\ config' = [step |-> "dropping", on |-> Dropped, url |-> u, fits |-> TRUE]
            /\ UNCHANGED url
       ELSE LET a == IF url \notin {0, u} /\ at.promise # 0 THEN NoSocket ELSE at
                e == EnsuredSocket(socks, a, u) IN
            /\ url' = u
            /\ IF d THEN config' = AtRest /\ socks' = socks /\ at' = a
               ELSE socks' = e.socks /\ at' = e.at /\ config' = Configured(e, u)
    /\ UNCHANGED <<wsClosing, wsTold, sends, close, mishaps>>

\* handleWorkerOutput and sendControlJson: no lock, and no look at closing.
SendJson(s) ==
    /\ ~deferred /\ sends[s] = 0
    /\ LET e == EnsuredSocket(socks, at, url) IN
       /\ socks' = e.socks /\ at' = e.at /\ sends' = [sends EXCEPT ![s] = e.waits]
       /\ mishaps' = mishaps \cup
            IF Len(e.socks) > Len(socks) /\ (wsClosing \/ config.step = "dropping")
            THEN {"overlap"} ELSE {}
    /\ UNCHANGED <<url, deferred, wsClosing, wsTold, config, close>>

\* close(), by removeLeg or the daemon's shutdown.
WsClose ==
    /\ ~wsClosing /\ wsClosing' = TRUE
    /\ socks' = WithoutDropped /\ at' = NoSocket
    /\ close' = IF Dropped = 0 THEN [step |-> "done", on |-> 0]
                ELSE [step |-> "waiting", on |-> Dropped]
    /\ UNCHANGED <<url, deferred, wsTold, config, sends, mishaps>>

-----------------------------------------------------------------------------
(* The events of the socket n.                                               *)

\* The connect promise settles: its finally() forgets the current one, and who
\* waited for n goes on.
Settled(n, a) == [a EXCEPT !.promise = 0]
SendsAfter(n) == [s \in Senders |-> IF sends[s] = n THEN 0 ELSE sends[s]]
ConfigAfter(n, ss, a) ==
    IF config.step = "connecting" /\ config.on = n
    THEN [AtRest EXCEPT !.fits = ss[n].handshake = "failed"
                                 \/ (a.socket # 0 /\ ss[a.socket].url = config.url)]
    ELSE config

\* Without a ready event the profile is ready at once.
Opens(n) ==
    /\ socks[n].state = "connecting"
    /\ \E ready \in BOOLEAN :
         LET a == [at EXCEPT !.socket = n, !.connecting = 0]
             ss == [socks EXCEPT ![n].state = "open", ![n].up = TRUE,
                                 ![n].handshake = IF ready THEN "ready" ELSE @] IN
         /\ socks' = ss
         /\ IF ready THEN /\ at' = Settled(n, a) /\ sends' = SendsAfter(n)
                          /\ config' = ConfigAfter(n, ss, Settled(n, a))
            ELSE at' = a /\ UNCHANGED <<sends, config>>
    /\ UNCHANGED <<url, deferred, wsClosing, wsTold, close, mishaps>>

Pending(n) == socks[n].state = "open" /\ socks[n].handshake = "pending"

Ready(n) ==
    /\ Pending(n)
    /\ LET ss == [socks EXCEPT ![n].handshake = "ready"] IN
       socks' = ss /\ config' = ConfigAfter(n, ss, Settled(n, at))
    /\ at' = Settled(n, at) /\ sends' = SendsAfter(n)
    /\ UNCHANGED <<url, deferred, wsClosing, wsTold, close, mishaps>>

\* failReady: the agent answers the handshake with an error.
Refuses(n) ==
    /\ Pending(n)
    /\ LET ss == [socks EXCEPT ![n].handshake = "failed", ![n].state = "closing"] IN
       socks' = ss /\ config' = ConfigAfter(n, ss, NoSocket)
    /\ at' = NoSocket /\ sends' = SendsAfter(n)
    /\ UNCHANGED <<url, deferred, wsClosing, wsTold, close, mishaps>>

\* An error message of a running session, or a failing socket, which closes later.
Reports == wsTold' = (wsTold \/ ~wsClosing)

AgentErrors(n) ==
    /\ socks[n].state = "open" /\ socks[n].handshake = "ready" /\ Reports
    /\ UNCHANGED <<socks, at, url, deferred, wsClosing, config, sends, close, mishaps>>

\* The handlers of a socket forget the current one, whichever it is.
Forgotten(n, a) == IF socks[n].up THEN [a EXCEPT !.socket = 0] ELSE a
ForgetsAnother(n) ==
    IF socks[n].up /\ at.socket \notin {0, n} THEN {"stale"} ELSE {}

Fails(n) ==
    /\ socks[n].state = "open" /\ socks[n].handshake = "ready"
    /\ socks' = [socks EXCEPT ![n].state = "closing"]
    /\ at' = Forgotten(n, at) /\ Reports /\ mishaps' = mishaps \cup ForgetsAnother(n)
    /\ UNCHANGED <<url, deferred, wsClosing, config, sends, close>>

\* The close of a socket: a connect that was under way fails, and the configure
\* or the close() that waited for it goes on.
Departed(n) ==
    /\ socks[n].state # "closed"
    /\ LET pending == socks[n].handshake = "pending"
           ss == [socks EXCEPT ![n].state = "closed", ![n].handshake = IF pending THEN "failed" ELSE @]
           forgotten == Forgotten(n, at)
           a == IF pending THEN [Settled(n, forgotten) EXCEPT !.connecting = 0] ELSE forgotten
           waits == config.step = "dropping" /\ config.on = n
           e == EnsuredSocket(ss, a, config.url)
       IN  /\ sends' = IF pending THEN SendsAfter(n) ELSE sends
           /\ IF waits /\ ~deferred
              THEN /\ socks' = e.socks /\ at' = e.at /\ config' = Configured(e, config.url)
              ELSE /\ socks' = ss /\ at' = a
                   /\ config' = IF waits THEN AtRest ELSE IF pending THEN ConfigAfter(n, ss, a) ELSE config
           /\ url' = IF waits THEN config.url ELSE url
           /\ mishaps' = mishaps \cup ForgetsAnother(n) \cup
                (IF pending /\ at.promise \notin {0, n} THEN {"stale"} ELSE {}) \cup
                (IF waits /\ ~deferred /\ wsClosing THEN {"overlap"} ELSE {})
           /\ wsTold' = (wsTold \/ (socks[n].up /\ ~wsClosing))
    /\ close' = IF close.on = n THEN [step |-> "done", on |-> 0] ELSE close
    /\ UNCHANGED <<deferred, wsClosing>>

Room == Len(socks) < MaxSockets

WsNext ==
    \/ Room /\ \E u \in Urls, d \in BOOLEAN : ConfigureWs(u, d)
    \/ Room /\ \E s \in Senders : SendJson(s)
    \/ WsClose
    \/ \E n \in SocketIds :
          Opens(n) \/ Ready(n) \/ Refuses(n) \/ AgentErrors(n) \/ Fails(n) \/ Departed(n)

-----------------------------------------------------------------------------
\* Every value is one the code can have.
WsTypeOK ==
    /\ \A n \in SocketIds : /\ socks[n].state \in {"connecting", "aborting", "open", "closing", "closed"}
                      /\ socks[n].handshake \in {"pending", "ready", "failed"}
    /\ {at.socket, at.connecting, at.promise} \subseteq {0} \cup SocketIds
    /\ config.step \in {"idle", "dropping", "connecting"}
    /\ mishaps \subseteq {"overlap", "stale"}

\* A leg has one socket at a time, and the attachment knows it, unless a late
\* event of an old socket made it forget the new one.
OneSocket ==
    "stale" \notin mishaps =>
        \A n \in SocketIds : Live(socks, n) => n \in {at.socket, at.connecting}

\* Nobody waits for a connect that was settled or a socket that is closed.
WaitersGoOn ==
    /\ \A s \in Senders : sends[s] # 0 => socks[sends[s]].handshake = "pending"
    /\ config.step = "connecting" => socks[config.on].handshake = "pending"
    /\ config.step = "dropping" => socks[config.on].state # "closed"
    /\ close.step = "waiting" => socks[close.on].state # "closed"

\* A configure that succeeds leaves the leg connected to the agent it named.
ConfiguredIsConnected == mishaps = {} => config.fits

\* A session that is lost is reported, so that its call ends; a leg that is
\* closed has no socket left.
LossIsTold ==
    /\ \A n \in SocketIds : socks[n].up /\ socks[n].state = "closed" => wsTold \/ wsClosing
    /\ close.step = "done" /\ mishaps = {} => \A n \in SocketIds : ~Live(socks, n)

\* What the attachment promises.
WsSafe == WsTypeOK /\ OneSocket /\ WaitersGoOn /\ ConfiguredIsConnected /\ LossIsTold

WsSpec == WsInit /\ [][WsNext]_wsVars
=============================================================================
