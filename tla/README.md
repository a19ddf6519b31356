# Formal models of the SIP PBX daemon

TLA+ modules, TLC configurations and TLAPS proofs about `n8n-nodes-sip-pbx`: a
package of n8n nodes (`src/src/n8n`), a client of a controller socket
(`src/src/control`, `src/src/runtime`) and the PBX itself, one Node.js process
(`src/src/daemon`) with media worker threads.

The interesting part is the daemon. It is a single event loop, so two handlers
never run at once; but handlers call each other synchronously in the middle of
their work, they await (and everything they read before may have changed after),
timers race events, and every call, dial and recording is shared by several
workflows that own, wait for, interrupt and end it independently. These
interleavings are what the models are about.

## The system

### Components

| Component (daemon unless noted) | State | Operations | Hard behaviour | What makes it correct |
|---|---|---|---|---|
| **Retention core** `core/operation-retainer.ts`, `core/eventful-destroyable.ts` | per leg and dial: `activeOperationCount`, `freeTimer`, `retentionGeneration`, tickets, `destroyPromise` | `retain`, `release`, timer, `destroy` | the destroy executor re-enters the daemon before `destroyPromise` is set; stale timers; late and double releases | an entity is reaped only while nobody owns it, and is reaped then; destroyed once |
| **Event delivery** `core/event-waiter-set.ts`, `core/bounded-event-queue.ts`, `core/terminal-snapshot-store.ts` | queue of at most 128 events, waiters, terminal snapshots with TTL | publish, shift, wait, cancel, reject all | event between resolve and cancel, overflow, several waiters | an event reaches one reader, in order, or stays queued |
| **Leg locks** `core/async-lock.ts`, `legs/leg-coordinator.ts` | one FIFO lock per leg id | `withLeg`, `withLegs` | several locks at once; waiting for something else inside a section | exclusion, no circular wait |
| **Legs** `legs/leg-service.ts`, `legs/types.ts`, `legs/leg-wait-service.ts` | registry, status, events, digits collected by a wait | create, retain, publish, hang up, `call.wait` | ended leg that is still registered; concurrent waits; interdigit deadlines | ended exactly once, its end is heard |
| **Dials** `dials/dial-service.ts`, `dials/dial-wait-service.ts` | pending targets, active attempts, winner, gap and attempt timers, tickets on the legs | create, start next, answer, reject, time out, bridge, break, free TTL, `dial.wait` | answers, losses and timers crossing; legs that are gone when they are hung up | one winner; no leg without owner; never stuck |
| **Queue** `queue/queue-service.ts`, `queue-entry-registry.ts` | entries, index by leg, branch timers, reservations, retry budget | enqueue, rejoin, callback, dispatch, dial outcome, refresh, remove | caller, dial and operators change between the steps of a dispatch; lost wake-ups | an operator is reserved once; a caller leaves the queue or is told why not |
| **Extensions** `signaling/extensions/*` | bindings per extension and endpoint with expiry, grace timers, active call | register, unregister, expire, free look-up | lazy expiry, closing grace, stale busy marks | free exactly when registered and not in a call |
| **Interactive auth** `extensions-auth/*` | pending requests, time-outs | ask, resolve, expire | answer, time-out and waiter in any order | each request resolved once |
| **Signalling** `signaling/signaling-service.ts`, `base-signaling-service.ts`, `calls/*` | routes from legs to transports, pending start-ups | place, answer, end, route events | a leg that ends while its INVITE is being prepared | outcome reported once |
| **SIP transport** `signaling/sip/sip-transport-service.ts` | inbound and outbound sessions, dialogs, trunk registrations, shared sockets | INVITE, CANCEL, ACK, BYE, re-INVITE, REGISTER, timers | 200 crossing CANCEL, retransmissions, refresh timers | no dialog without an owner |
| **Media service** `media/media-service.ts` | worker assignment, bridges, bridge tickets, operations, recordings, migrations | play, record, stop, bridge, unbridge, send DTMF, leg ended | sections under leg locks that wait for other sections; re-bridging; worker exit | operations finish; both halves of a bridge agree |
| **Media worker** `media/worker/*` | endpoints, mixers, bridge bindings | commands and events over a message port | commands in flight when a leg goes | replies match requests |
| **Daemon** `sip-pbx-daemon.ts`, `controller-server.ts` | trigger streams, record and AI-tool requests, idle timer | actions, triggers, stop | sockets closing during activation, idle stop racing work | no trigger without a stream |
| **Client** `control/*`, `runtime/*` (n8n process) | pending requests, buffered events, reconnection | open, request, close, reconnect | reconnection racing close | one stream per trigger |
| **Text, codecs, UI** | none, or local | parse, format, convert, detect | numeric edges | round trips |

### How they interact

* A trigger of n8n opens a stream to the daemon; a SIP INVITE becomes an inbound
  leg and an event on the stream; the workflow then runs *actions*, each of which
  retains the legs it works on and releases them when it returns.
* `Dial` creates a leg per attempt through the signalling service, retains it,
  and hears of answers and ends through callbacks of the daemon
  (`onAttemptAnswered`, `onLegEnded`), which run inside the handler that caused them.
* `Queue` retains the caller's leg, asks the extension host who is free, creates
  dials and hears `onDialFinalized`, again synchronously. A leg of an extension
  that ended makes the daemon refresh the queue once its clean-up is over.
* Everything that ends a leg goes through `leg.destroy`: status, event, snapshot,
  then queue, dial, signalling and media are told, and after an asynchronous
  clean-up the leg leaves the registry. A leg therefore has three stages: alive,
  ended but registered, gone. Many handlers treat the last two differently.

## The modules

| Module | Of | Models |
|---|---|---|
| `Ownership` | Retention | the abstract promise: an entity is owned by tickets, may be ended by anybody, and is reaped only while it has no owner, then for certain |
| `Retention`, `RetentionProofs` | Retention core, legs and dials as entities | `retain`, `release`, timer, `destroy`, with the stack of running executors; its inductive invariant and the refinement of `Ownership`; the inductive invariant of `LegEvents` |
| `Dial` | Dial service | one dial with its attempts' legs, SIP transactions, bridge tickets and waiters |
| `Directory` | Extension host, `dial.make` | whom several dials may ring: listings, busy markers, phones that move |
| `DialWaits` | `dial.wait` | several waits on several dials: queued events, snapshots, live events, interruptions |
| `Queue` | Call queue | the queue of one workflow with callers, operators and its dials |
| `Sections` | Leg locks | the abstract promise: two tasks that work at the same time have no leg in common |
| `LegLocks`, `LegLockProofs` | Leg locks | FIFO locks acquired in the sorted order of the leg ids; no circular wait, and the refinement of `Sections`. The proofs are about `Bridging` and `LegPlayback` as well |
| `Recording` | Media service | media and global recordings of one leg: start-ups, stops, moves to another worker, the clean-up of the leg |
| `WaitRules` | Leg wait service | how `call.wait` matches digits: `processEvent` and `finalizeDigits` as operators |
| `LegEvents` | Event delivery, `call.wait`, `media.wait`, voice agent | who hears of the digits, the interrupts and the end of a call |
| `SipOutbound` | SIP transport | one attempt: INVITE with digest retries, CANCEL, ACK, BYE, sockets |
| `SipInbound` | SIP transport | one call that comes in: server transactions, authentication, answer, CANCEL, BYE |
| `SipTrunks` | SIP transport | the listener of an endpoint and the registration of a trunk |
| `Admission` | SIP transport, nonce registry | which trunk or extensions trigger owns a request |
| `BridgeRelay` | Signalling service, SIP transport | what a callee says, relayed to a caller who is bridged before, while or after |
| `Bindings` | Extension registry and grace | the phones of one extension: REGISTERs, expiry, grace, availability |
| `Requests` | Interactive auth, daemon | authorisations, record requests, AI tools and tool calls: asked, answered, timed out, closed |
| `DaemonProcess` | Client, controller server, daemon | starting, sharing, idle stop and crash of the daemon behind one socket path |
| `TriggerStreams` | Runtime, client, daemon | one stream per trigger: opening, breaking, reopening, closing |
| `WorkerPool` | Media service | which worker carries a leg: placing, moving, removing, reaping, dying |
| `Bridging` | Media service, worker | peers, tickets and routing of bridges |
| `MediaWorker` | Media worker | commands one at a time, with a recording and a playback beside them |
| `LegFrames` | Worker's leg | frames with their owners: pre-roll, recording, capture |
| `LegPlayback` | Worker's leg, mixer | the playback loop: ducking, the bridged sound, ends of playbacks |
| `RtpStream` | RTP transport | the attachment and its worker half across a move: digits and sequence numbers |
| `WsStream` | WebSocket transport | the socket of a voice agent under configure, send, close and failure |
| `WsAudio` | WebSocket transport | the playout of what a voice agent says; with `WsStream`, the leg of a voice agent |
| `Dtmf` | Media service, RTP transport, in-band detector | a press reported in the stream (event, tone), by SIP INFO, or both ways |
| `DialProofs`, `QueueProofs` | `Dial`, `Directory`, `DialWaits`; `Queue` | their inductive invariants |
| `ControlProofs` | Requests, bindings, daemon processes, trigger streams | the same |
| `SipProofs` | `BridgeRelay`, `SipTrunks`, `SipOutbound` | the same |
| `MediaProofs`, `PoolProofs` | `MediaWorker`, `Recording` and `Dtmf`; `WorkerPool`, `RtpStream` and `WsAudio` with `WsStream` | the same |
| `MCRetention`, `MCDial`, `MCQueue`, `MCLegLocks`, `MCRecording`, `MCLegEvents`, `MCSip`, `MCControl`, `MCMedia` | | instances for TLC |

`MCSip`, `MCControl`, `MCMedia` and `MCDial` each hold several modules that share no
state. A variable `part`, chosen in the initial states and never changed, says which of
them a behaviour runs; the others keep their initial state. A run over such a module is
therefore the sum of the runs of its parts, never their product, and each property speaks
of one part (`VoiceAgentSafe` of two, `WsSafe` and `SpeechSafe`).

Several modules carry a history variable (`mishaps`, `faults`, `flaws`, `slips`, ...):
the set of *named* events after which the code cannot keep a promise. An invariant that
excepts one of them says two things: that the code does go wrong there, since TLC finds
the invariant violated without the exception, and that it goes wrong nowhere else. The
names are collected under "Named flaws".

### Retention

One action per operation: `Create`, `Retain`, `Release`, `Hangup` (every caller of
`destroy`), `TimerFires`, `ExecutorReturns`, `DetachLater`. The variables are the
fields of the class. The variable `stack` holds the entities whose executor is
running: while it is not empty, only what synchronous callbacks may do (retain,
release, hang up, create) and the return of the innermost executor can happen;
timers and continuations wait, as they do in Node. `StatusOverwritten` is the late
answer that writes a live status over `ended`. `Hangup` tests that status, so only
`destroyPromise` and the registry stand between such a leg and a second clean-up.

`Ownership` is what owners rely on, without timers, counters and stacks. TLC checks
that `Retention` implements it with its liveness (`ImplementsOwnership`), TLAPS
proves the safety part.

### Dial

Attempt `k` is the `k`-th leg of the dial. Handlers of the code are actions
(`CreateDial`, `GapOver`, `AttemptTimeout`, `Invite`, `Refused`, `StartupFails`,
`Answer`, `Bridge`, `Unbridge`, `LegEnds`, `Detach`, `BreakDial`, `FreeTtl`,
`WaitBegins`, `WaitEnds`), and each contains the synchronous calls it makes: a leg
that is hung up calls back into the dial. `Reached(S)` is the loop of hang-ups that
stops at the first leg that is gone, because `hangupLeg` throws there: what was done
before stays done and what follows in the handler does not happen.

### Queue

The queue of one workflow. An entry is `idle` or `dispatching`; `timer` is the set of
entries whose branch timer is armed. `TimerFires` is `onTimerBranch`: nobody online,
nobody free (`Wait`: no timer), or `Dispatch`. A dial of the queue is kept only as far
as the queue can see it: which extension has an attempt in which stage. `DialOver` is
justified by `DialEnds` of `Dial`: a dial that lives ends. `Refresh` happens exactly
where the daemon calls `refreshWorkflowScope`.

Left out: which entry a caller rejoins (any of its trunk and number: a choice), order
of entries, statistics, several endpoints of one extension, and the refresh that is
skipped when the signalling clean-up throws.

### LegLocks

A task asks for a set of legs and acquires the lowest (`Ask`), then the others in order
(`NextLock`), runs its section (`Begin`) and releases them all (`End`). `Release` gives a
lock to the head of its line at once, although that waiter goes on only some promise hops
later: `holder` is who was given the lock, before it knows. That
sections end is an assumption (the fairness of `End`), which a section that waits for
another one breaks (see `Recording`): `LegLocks` shows that the locks alone never make
anybody wait for ever, so that whatever hangs in the daemon hangs inside a section.

### Recording

One leg, with its lock as a line: the holder and its waiters. `LegLocks` justifies that
abstraction, since one lock of it behaves so. Each await of the code is a step:

* a start-up: `RecordAudio`/`StartGlobal` registers it in the one slot
  `recordingStartupByLegId` (`startup`), `StartJoins` queues for the lock,
  `EnsureBegins`, `Ensured` are its section, `SendStart` its command, `StartReplied` its
  end; each of them can fail, and `StartFails` is what `recordAudio` and
  `startGlobalCallRecording` then do (roll back, or forget);
* a stop: `Stop`, `OwnStarted` (a global one awaits its own start-up outside the lock),
  then three sections. `EnterStop` reads the slot: from then on the stop holds the lock
  and waits for that start-up, whoever's it is;
* `MigrateAsks` to `MigrateEnds`, which read what is recorded from the last snapshot; a
  move that is refused stands for any section that touches no recording;
* `LegEnds` and the clean-up `CleanBegins` to `CleanRemove` (`handleLegEndedAsync`), or
  `CleanAborted` when a start-up it waited for was rejected.

`home` is what the daemon believes (`legAssignments`), `snap` what it last heard, `rec`
what the workers do. Between `Ensured` and `SendStart` there is no round trip, only a few
promise hops: the guard of `Next` lets nothing else run there except a `removeIfIdle` that
was next in line, whose command needs fewer hops (the lock is released in the first hop
after the section, the next holder runs in the third, and `ensureWorkerForLeg` returns
through `runExclusive`, `withLeg` and `withLegLock` in the sixth). That is how a worker
comes to make an endpoint again that nobody will remove; `overtaken` remembers such
start-ups, and the two invariants about workers name the exception.

Left out: pausing and resuming, playbacks, retention tickets (`Retention`), crashes of
workers, and the other leg of a bridge.

### LegEvents

A leg keeps the waiters that registered (`listeners`, an `EventWaiterSet`) and the events
that nobody wanted (`queue`, a `BoundedEventQueue`); a medium keeps its waiters
(`watchers`). `Publish` hands an event to the first listener that `Wants` it. A wait is
one run of one of four loops: `CallWait`, `CallResumes` and `CallTimesOut` are
`waitForEvent`, `MediaWait` and what follows `waitForAnyMediaEvent`, `DialWait`
`waitForDialInterruptOnLeg`, `AgentWait` `waitForVoiceAgentTermination`. `frame` holds the
locals of a wait under way, `news` what its promise was settled with.

An event that settles a promise wakes the wait (`Wake`); the wait resumes some microtasks
later, and until then its listeners on other legs still take events, as in the code. Other
handlers, timers and messages come after the microtasks: that is the guard `Settled`. A
deadline is over or not whenever it is looked at, so that every timeout races every event.

`EndLeg` is `handleLegDestroy`: one listener is handed the end of the call, all others are
rejected, and what happens to a request that comes later depends on the queue, on the
status of the leg and on its terminal snapshot. `readers` and `missed` are history: they
name the two exceptions of `AnswerWasTyped` (another wait took digits of the leg; more than
two events were typed ahead, and `call.wait` starts to listen beside them) and the one of
`EndedLegFreesWaits` (a second `media.wait` of one medium, which is never told).

Left out: the expiry of terminal snapshots (`TerminalSnapshotStore` keeps them longer than
the waits of the model last), the events of dials that `dial.wait` reports, retention
tickets, and waits for several media.

### Directory and DialWaits

`Directory` is what `dial.make` sees of extensions. An endpoint is a contact, so a phone
that moves (`Moves`) has a new one and its old binding stays. A busy marker is a leg that
is not ended and names an endpoint. A dial picks its targets once (`outbound-call-service.ts`)
and rings them in turn, much later if it is sequential. `RingsTheTarget`,
`OneCallPerPhone` and `OneAfterAnother` relate the three. Left out: aliases, trunks as
targets, the timers of the dial (they are in `Dial`).

`DialWaits` follows an event from the dial that publishes it (`said`) to its queue (`mail`)
or to a listener (`ears`). A wait takes a queued event, then a terminal snapshot, then
waits; an interruption, a digit or the end of the caller's leg, is looked at as it begins
and wins the race because it settles in fewer promise hops. That is how an event that was
already taken from a queue is lost (`dropped`): a terminal one survives in its snapshot, a
rejection does not. A dial that was answered while the hang-up of a gone leg threw is
`half`: it goes on, and ends again, as failed. Left out: the queue's overflow at 64,
ringing and progress (they travel like rejections), `stillDialingLegCount`.

### SipOutbound, SipInbound, SipTrunks, Admission

The network is a set of what was sent once: a datagram may arrive at any later time, any
number of times or never, so that retransmissions are implicit and a transaction adds its
time-out only. In `SipInbound` what the daemon sent stays `in air` until it is lost.

`SipOutbound` (`MaxCopies` bounds the copies of one response that are handled at once) has one
action per await of `startAttempt` (`StartAttempt`,
`RegisterStartup`, `InstallSession`) and of the handlers of responses (`Accepted` then
`AcceptEnds`, `RefusalArrives` then `RefusalAcked`); the end of the leg comes in three
steps (`RejectOrHangupLeg`, `HandleLegEnded`, `Removed`) between which everything may
arrive. `RemoteIsTold` says that a party that picked up is hung up, `WaitsUnderATimer`
that a session never waits without something that ends it, `SocketFollowsSession` that a
socket is closed once, when its session is over. `SessionEnds` is their liveness.

`SipInbound` has up to two INVITEs of one Call-ID (a challenge answered, or a re-INVITE),
CANCEL and its awaits, `call.answer` with its two, BYE, ACK. `OneFinal`,
`OneLegPerInvite`, `CallerIsTold`, `LegFollowsCaller`, and `CallerHears` with the fairness
of a caller that repeats its INVITE.

`SipTrunks` is one UDP endpoint shared by an extensions trigger and a trunk that
registers. A host is an object: each activation makes one, and the reuse of an active one
with other credentials clones it for its unregister; `reusing` is the host that is being
reused, one at a time. `bound` are the hosts whose socket is that of the current listener:
a host keeps a closed socket, on which nothing is sent. `authAttempts` is counted across
time-outs, as in the code.

`Admission` is a pure decision iterated: a phone with one nonce asks, is challenged, and
asks again. `ResolveAuth` is `resolveTrunkAuth` or `resolveExtensionsAuth`, `Traverse` the order of
hosts. The daemon may restart in between.

Left out: the contents of SDP and of re-INVITEs, OPTIONS, NAT keep-alives, `Via`. A failure to
send a response is one slip (`unsent`) for the INVITE's responses; a failure to send those to
CANCEL and BYE is not told from their loss.

### BridgeRelay

A caller's leg, a callee's leg, the bridge between them (`joined`), and the handlers that
await: a 183 and a 200 OK wait for the media endpoint before they are reported, `answerLeg`
waits for an endpoint and for the socket, and may run three times at once (`relay`, `sync`
of `call.bridge`, `call` of a workflow). `AnswerCrosses` is the point of the component:
when all is handled, a caller who is bridged to a callee that answered was answered.
A 200 OK marks the callee's leg answered, then tells the dial, and only then relays
(`base-signaling-service.ts:71-83`, `signaling-service.ts:168-172`). The dial throws when it
has to hang up an attempt that left the registry: it is `torn`, as in run `dial_handover`,
and the caller is never told (`ThrowsAtLoser`, slip `unrelayed`).
CANCEL is one step here (its awaits are in `SipInbound`). A BYE or a time-out of the callee
relays nothing.

### Bindings, Requests

`Bindings`: `net` holds REGISTERs, which overtake each other and get lost; `auth` those
whose authorisation is awaited; `Expires` marks a binding stale and `Swept` is done by
whoever reads next, as in the registry. The trigger closes (grace) and comes back.

`Requests`: four kinds that share one life: `auth` and
`aiTool` have a waiter and a time-out, `record` one request per leg and no waiter,
`toolCall` a controller per leg. `TakenIsHeard` says that the asker hears an answer that was
taken, `RefusedIsGone` that no other answer is refused. A leg ends in three steps: it is
marked ended (`LegEnds`), its requests are dropped or rejected once the awaited clean-up of
its signalling is over (`LegCleared`, `sip-pbx-daemon.ts:461`, `474-475`), and it leaves the
registry (`LegGone`). Between the first two its requests are still stored, may be answered
and may time out; `StoredIsAnswerable` asks for their absence from the second on. A leg that
becomes the winner of its dial after it is asked for a recording all the same
(`deadWinner`).

### DaemonProcess, TriggerStreams

`DaemonProcess`: two processes of n8n share a socket path. A client connects, spawns a
child when nobody listens, polls; a daemon binds (removing a stale socket file first),
serves, arms its idle timer when its last stream goes or a leg ends while there is none
(`TaskEnds`, `sip-pbx-daemon.ts:476-478`), stops in steps. A daemon that had neither a stream
nor the end of a leg never arms it, and only its end is left out of `IdleStops` (`had`). A
client may tell it to stop at any time (`StopDaemon`, `592-600`): it is answered, and
the streams and tasks of that moment go with the daemon (`told`).

`TriggerStreams`: an activation is a run of a trigger node; two activations of one trigger
are a live workflow and a manual run. `managed` is the runtime's registry, `active` and
`serving` the daemon's. The host of a trigger is made (`HostMade`,
`sip-transport-service.ts:634`) before its first REGISTER is sent, and the close handlers of
its stream are attached after both: an activation that fails in between
(`ActivationFails`), or whose socket closes meanwhile (`ActivatedLate`), leaves the trigger
served without a stream, until the next stream of it or a late close. The history variable
`orphans` holds those triggers and `ServedForAStream` excepts exactly them. A call that
arrives in that window is written to the stream before the answer the client waits for,
which makes the client give it up (`EventComesFirst`); `StreamReturns` excepts a stream to
which that happens again and again. A failed activation closes every stream of the runtime
(`SipPbxTrigger.node.ts:40`), which `StaysOpen` names.

### WorkerPool, Bridging

`WorkerPool`: each leg has a `task` that holds its lock and awaits the answer of a worker
(`Awaits`); a worker that dies tells so later (`dead`, or `fading` if it was out of the pool by then). `known` is the
snapshot the daemon has, `hosts` what the thread has; `LiveLegIsCarried`, `OneEndpoint`,
`RemovedIsGone`, `PoolKnowsItsLegs` and `LocksComeFree` relate them at the points where
nobody works on the leg.

`Bridging`: a command is a record with the locals of `activateBridge` or
`deactivateBridge` between two awaits: what it read first, where it stands. Peers, tickets
and routing are written by different steps without a lock across them. An endpoint that is
ensured, for the signalling or by `bridgeLegs`, has a bridge that stands routed anew
(`EndpointEnsured`, `Resynced`); the two legs of a command are ensured one after the other,
in either order, where the code starts both at once. Most
of what can go wrong does, so that its invariants read "at rest, and but for the legs that
were hit": they show that two commands on disjoint pairs, or one after the other, and a
leg that ends at any point outside the listed windows, leave nothing behind.

### MediaWorker, LegFrames, LegPlayback

`MediaWorker`: three tasks of the daemon (recorder, player, remover) await their commands,
`inbox` is the message port, `running` the command that awaits the encoder; chunks are
encoded one per turn beside them. `LegFrames`: a frame is a buffer with an owner count
(`refs`) and a flag that says whether its holder releases it; every path of copy, share,
move, drop and stop is an action. `LegPlayback`: a turn of the loop is begun (`TickStarts`)
and ended by the completion of its send, with registrations and stops in between. A unit
of sound is half a frame of the bridge: sample arithmetic, gain and resampling are left
out.

### RtpStream, WsStream, WsAudio, Dtmf

`RtpStream`: stages of a leg (`new`, `placing`, `placed`, `exporting`, ...) with packets
held back meanwhile; the packets of the peer are end packets of telephone events, repeated
and reordered. Sequence numbers are modulo `Modulus`. `WsStream`: sockets are numbered;
`at` is the attachment's three fields, and promise reactions run in the step that settles
the promise. `WsAudio`: a byte is its number, so that order, loss and repetition are
visible; of a frame that was filled with silence, only the byte before the silence is
kept (`pads`). It extends `WsStream`, and `VaNext` is the two beside each other, which share
no state: the one runs in the daemon, the other in the thread of a worker. TLC checks them
as two parts, the theorem is about their interleaving. `Dtmf`: time passes in frames; the
detector is its state machine without frequencies. Only the digits of INFO pass the window
of `handleTransportDtmf` (`media-service.ts:1809-1828`, from `sip-pbx-daemon.ts:427-429`);
telephone events and tones come from the worker and are published by `handleInboundDtmf` as
they are (`1322-1324`), each with a rule of its own: a timestamp for the copies of an event,
and an event silences the detector for a while. A press that is signalled in the stream and
by INFO is therefore heard twice, and `HeardOnceInOrder` and `NothingMissed` speak of each
way (`Way`). A behaviour is followed to its first mishap.

## Named flaws

What the models show to go wrong, each an exception of an invariant that holds otherwise.
Whether one matters is for the maintainers: many need an unusual order.

| Module | Name | What happens | Where |
|---|---|---|---|
| `SipOutbound` | `crossed` | a 200 OK crosses the CANCEL: the session is answered, no BYE | `sip-transport-service.ts:1484` |
| | `lost` | the 200 OK finds its leg gone, or no media endpoint: no ACK, no BYE | `:1489` |
| | `stale`, `twice` | a late copy of an earlier refusal ends the session of a later INVITE; two copies at once send a second INVITE without a session | `:1515-1549` |
| | `shut`, `unsent`, `gaveUp` | the listener goes under a session; a request cannot be sent; the INVITE times out while the phone rings | `:784-797` |
| `SipInbound` | `early` | a CANCEL before the session exists gets 481, and the leg is made afterwards | the CANCEL handler |
| | `overtaken` | `call.answer` goes on for a session that was closed meanwhile | `answerLeg` |
| | `again`, `mute`, `unsent` | a second INVITE of a call in progress makes a second leg; a refusal after a provisional response is not repeated; a response cannot be sent | |
| `SipTrunks` | `stuck` | a challenge that cannot be answered ends the exchange silently | `:1844-1850` |
| | `stranded`, `unsent`, `disowned` | the listener goes under an unregister; its answer cannot be sent; a trigger is deactivated while its host is being reused, so that a host nobody owns goes on | `:518-527`, `:1851-1866` |
| `Admission` | `crossed` | the nonce of a dynamic trunk's challenge is unknown to an extensions trigger: one more challenge | `:3039-3045` |
| | `restarted` | nonces do not survive a restart, and a phone may not be told they are stale | `digest-nonce-registry.ts:45` |
| | `masked` | a rejecting trunk that lets the search go on ends it before the extensions | |
| `BridgeRelay` | `half`, `mistaken` | answering the caller fails and nobody tries again; another answer took the session for answered | |
| | `demoted`, `cut` | `call.ringing` on an answered leg makes a later refusal end it | |
| | `unrelayed` | the dial throws at the callee's answer, so that the bridged caller is never told of it | `base-signaling-service.ts:80`, `dial-service.ts:157-165` |
| `Directory` | `stale`, `moved`, `unknown` | a target busy by its turn; a phone under its new contact; a call whose endpoint is unknown | `dial-service.ts:238`, `extension-host.ts:295-329` |
| `Bindings` | `overtaken`, `wiped`, `late` | a REGISTER overtakes its unregister; a grace ends during the reactivation; a binding is made after the trigger closed | `sip-pbx-daemon.ts:502-505`, `sip-transport-service.ts:1355-1367` |
| `Requests` | `undelivered`, `silent`, `startFailed`, `stolen` | a tool call is taken out and its delivery fails; a result without a controller is dropped and the node told it was taken; a record request is taken out and the start fails; the end of one attach takes the controller of another | `sip-pbx-daemon.ts:1285`, `1288-1290`, `1087-1098`, `1212/1272` |
| | `deadWinner` | a leg that ended and was cleaned up wins its dial before it leaves the registry; it is asked for a recording that nothing takes out but its time-out or the stream | `sip-pbx-daemon.ts:452-454`, `1780`, `dial-service.ts:133` |
| `DaemonProcess` | `slow`, `crash`, `idle`, `split`, `told` | a start slower than the poll; a crash; an idle stop with a command in flight; a daemon whose path another one took over, or removed; a client that stops a daemon with streams or tasks | `controller-client.ts:236-258`, `78-80`, `sip-pbx-daemon.ts:1678`, `controller-server.ts:32-34` |
| `TriggerStreams` | `overwritten`, `takenDown`, `orphans` | two opens of one trigger; a failed manual run closes live triggers; a socket that closes during the activation, or an activation that throws after the host was made, leaves the trigger served | `trigger-stream-registry.ts:116-124`, `sip-pbx-daemon.ts:502-535`, `sip-transport-service.ts:634-636` |
| `WorkerPool` | `reaped`, `unnoticed`, `stranded`, `ghost`, `hung` | a leg placed on a worker being shut down, or moved to one that died; a worker that dies under a removal; an endpoint made by a command that was refused; a lock held for a command nobody answers | `media-service.ts:1036` |
| `Bridging` | `overwritten`, `late`, `torn`, `unreleased`, `swept`, `muted`, `crossed`, `stolen`, `unheld` | two commands over one leg: slots, peers, tickets or routing of one undone by the other | `media-service.ts:1357`, `508`, `561`, `471` |
| `MediaWorker` | `unanswered`, `tail`, `broken`, `hollow` | commands posted to a thread on its way out; the last chunks cut by a shutdown; a failing encoder; a session that is gone finalized as if it were written | |
| `LegFrames` | leaked buffers, `unwatched` | a transfer drops its reference; a stopped call recording takes the ticker of a silence watch | `leg.ts:1582-1596`, `853` |
| `LegPlayback` | `overlooked`, `threw` | the loop stops on a snapshot older than a registration, or on an error | `leg.ts:1179` |
| `WsStream` | `stale`, `overlap` | the late event of an old socket makes the attachment forget the new one; what the worker sends opens a socket while the leg is closed or its old socket dropped | `websocket-transport.ts:609-642`, `450-490` |
| `WsAudio` | `overtaken` | words that arrive before a flush is carried out get silence behind them | `:786-791` |
| `Dtmf` | `lost`, `reordered`, `hasty`, `swallowed`, `doubled` | packets lost or late; keys pressed faster than the detector; an INFO of the same digit within 250 ms; a telephone event whose tone was detected before it came | `media-service.ts:1814-1822`, `rtp-transport.ts:858-862` |

## The runs

| Run | Shows | Bounds and why they are enough |
|---|---|---|
| `retention` | counting, timers, destroy-once (`RetentionSafe`), and that `Ownership` is implemented with its liveness | a leg (asynchronous clean-up) and a dial (synchronous), three tickets: two owners of one entity, and one that is released late or twice; `MaxGen` 6 generations: retained, freed, retained again, then destroyed, with late answers before the last ones |
| `dial` | ownership of attempts and winner, one at a time, timers, no stuck dial, `DialEnds`; `DirectorySafe`; `DialWaitsSafe` | three targets: one attempt already over and gone, one ringing, one that answers; one `dial.wait`. Directory: two phones of which one moves, two legs, two dials that compete. Waits: two dials, one with two rejections before its end and one that just ends, three waits on one or both: a taker, a competitor and a late comer |
| `queue` | reservations, index, tickets, dispatch (`QueueSafe`), `DialKeepsItsEntry` | two callers, one of which may leave a callback behind and be taken over; two entries, one parallel, one sequential; two extensions, one of them always there, so that two dials compete for it; one retry |
| `queue_live` | a dispatch ends, and a caller in the queue hears of it | the same with one extension that comes and goes: nobody online, nobody free and one free |
| `leg_locks` | exclusion (`Sections` is implemented), no circular wait, no starvation | three legs and three tasks that lock any set of them, again and again: every cycle of two and three tasks that another order of locking could form |
| `recording` | what is finished is recorded nowhere, a cleaned-up leg leaves nothing on a worker, stops and clean-ups end unless one is `Stuck` | two recordings of either kind, one of which may start, fail or stop anywhere in the life of the other; two workers, any number of moves |
| `leg_events` | no listener is left behind, the end of a call reaches every `call.wait`, an answer was typed, waits on an ended leg end | a call and its peer, two waits of any kind, one after or beside the other: every pair of competitors; two digits and an interrupt, which fill a queue of three, leave `call.wait` one event behind, and overflow it with the end of the call; media, dial and agent on the call only |
| `sip` | the five parts of `MCSip`, and that a session, an inbound caller and an unregister come to an end | three INVITEs of an attempt (two challenges), two copies of an answer or a refusal handled at once; two INVITEs and two legs of a call; two hosts, so that one is reused or replaced while the other unregisters; up to two hosts of an endpoint in every mode and with every verdict of their workflows; two provisional responses |
| `control` | the five parts of `MCControl`, and that an idle daemon stops, a stream returns, an asker hears, a command is answered | two processes and two daemons (one lost, one that replaces it); three activations, two of one trigger, two faults; two phones with two REGISTERs each; two requests, a stream and the next one; three chunks, more than one turn of the encoder |
| `media` | the eight parts of `MCMedia` | four buffers, two frames in and one out, two commands; two playbacks, of different priority, and one unit of bridged sound; two legs, three worker ids of which two live at once, one fault; three parties in two pairs with two commands, so that both want one leg; two events in three packets, two held back, numbers modulo 2 so that they wrap; two senders, three sockets and two addresses; chunks of one and three bytes, frames of two, at most five; two presses of two digits |
| `dial_handover`, `recording_stop` | disagreements between the code and what it says, below | |

The passing runs explore from some thousands of distinct states (`leg_locks`) to about a million (`dial`), in less than three minutes each.

Fairness. A step is fair only when the daemon itself takes it: a returning executor, an
armed timer (`TimerFires`, `GapOver`, `FreeTtl`, `PauseOver`, `IdleFires`,
`RegisterFails`, `TimesOut`), the end of an asynchronous clean-up (`DetachLater`,
`CleanedUp`) and of a `dial.wait`, which has a time-out. In `LegLocks` a task that asked
goes on (`NextLock`, `Begin`) and a section ends (`End`): `NobodyStarves` is conditional on
the latter. In `Recording` workers and transports answer, with a result or an error
(`sendCommand` settles at the latest when the worker exits), the lock passes on and the
clean-up goes on; nobody has to ask for a recording, a stop or a move. In `LegEvents` a
woken wait resumes (`Resumed`, what `Resumes` does to `phase`, which spares TLC the
evaluation of `ENABLED Resumes`), timers fire, and the media of a leg that ended are
stopped (`handleLegEndedAsync`; `Recording` shows when that clean-up is skipped). In the
SIP parts the daemon's continuations, timers and clean-ups are fair together (`OutSystem`,
`InSystem`); `CallerHears` assumes besides that a phone repeats its INVITE as RFC 3261 asks
and that a response that is sent again and again is once heard (`InviteAgain`,
`HearsRefusal`, `HearsOK`). In `TriggerStreams` reconnection and both halves of a handshake
go on; in `MediaWorker` the thread goes on (`Works`).
Remote parties, operators, callers and workflows owe nothing else: no answer, no
hang-up and no further action is assumed. `DialOver` in `Queue` is fair because `Dial`
shows it under its own timers alone. Deadlock checking is off in the runs in which
everything may have come to rest.

### What the code does otherwise

* **`dial_handover`**: `markAttemptAnswered` hangs up every earlier attempt of the dial,
  and `hangupLeg` throws for one that is no longer registered. The winner is announced,
  but the dial is not finalized; its free TTL later ends it as failed and hangs the
  winner up, in the middle of the conversation. Two targets dialled in sequence suffice.
* **`recording_stop`**: a stop waits for the registered start-up while it holds the lock of
  the leg that the start-up needs. A global recording started while a media recording is
  being stopped is enough: both hang, and the clean-up of the leg behind them. The run
  `recording` shows that this (`Stuck`) is the only way a stop or a clean-up hangs.

Met while modelling and shown by the models, without a run of their own:

* the winner's ticket is released only when the leg ends (`dial-service.ts:143`), so that an
  answered outbound leg outlives every bridge and workflow;
  `dial-bridge-retention.test.js` expects it to go with the bridge's ticket;
* an entry of the queue that found nobody free waits for a refresh
  (`queue-service.ts:326`); operators become free in ways that refresh nothing;
* a `media.wait` of a medium that digits do not interrupt also listens on the leg, to drop
  digits: when the call ends it fails with `leg_finalized` (`media-service.ts:2195`) where
  a test expects `call_ended`. One that was cancelled goes on underneath, drops digits and takes the
  event of the medium from a later one;
* `media-service-bridge-race.test.js` says that after a race no leg carries retention from
  the bridge; the `late` case of `Bridging` leaves a ticket;
* a rejected start-up rejects the clean-up that waits for it (`CleanAborted`) or the stop of
  another recording (`StopRejected`); a move loses a recording whose start-up is on its way
  (`MigrateEnds`); of two media recordings asked for at once the second replaces the first
  (`SendStart`);
* what the table of named flaws lists.

## What is proved

TLC checks the instances of the runs; TLAPS proves the following for every value of the
constants that satisfies the module's `ASSUME`, which says no more than what the constants
are (finite sets, natural numbers, `None` and 0 no members) and which TLC evaluates in the
run of the component. Each theorem states an invariant or action property that a run
checks, a conjunct of one, or a refinement. Each proof is one inductive invariant, with one lemma per action or
per group of actions of one shape; what follows says why the property alone is not
inductive.

**`RetentionProofs`** (any entities, asynchronous or not, any tickets and generations):
`TypeCorrect`, `CountCorrect`, `TimerCorrect`, `DestroyOnce`, their conjunction
`RetentionCorrect` (`RetentionSafe`), and `SafetyRefinement`: every behaviour of `Retention`
is one of `Ownership`'s safety part. `CountIsTicketsHeld` needs to know that an entity that
was never created has no ticket (`Blank`, `TicketsOwned`); `ExecutorEntersOnce` needs the
relation between `runs`, the stack, `promise` and `cleared` (`DestroyedOnce`): an executor
that was entered is on the stack, or has returned and left its promise, and the timer that
could enter it a second time was cleared by the first. A second invariant, `Listed` (an
entity is registered from its creation to the end of its clean-up), is needed by the
refinement only.

`EventsAreSafe` (`EventsSafe` of `LegEvents`; any legs, waits, rules, options, bounds of the
queues and numbers of events). `EvInv` has three parts. What a leg keeps (`LegInv`): as long as
nobody read or dropped a digit of it, the digits in its queue are the last that were pressed
there (`Follows`), though old events were pushed out. What a wait keeps (`WaitInv`): who does
not take its listeners back when it resumes has none left (`Unheard`), a `call.wait` that waits
listens on all its legs and they are live (`CallListens`), which is why an `ended` or a
rejection cannot pass it by; and what it holds of a leg, with the event it was handed and did
not look at yet, are the last digits pressed there (`HoldsLast`), so that a report is a run of
them. This holds only because a digit that another wait was handed counts as read before that
wait resumes (`Reads`), and because nothing else happens between (`Settled`, `Wanted`). The
actions come in two shapes, one lemma each: one wait steps (`StepOf`), or waits are told of an
event (`Tells`). `SelectSeq` is a recursive definition, of which nothing could be proved for all
sequences: `Picked` says which elements stay by their places, and `NthIsInOrder` proves, from
the cardinalities of initial segments, that they stay in order.

**`LegLockProofs`** (any number of legs, any tasks): `LockTypes`, `NoCircularWait`
(`SomebodyMoves`), `LocksCorrect` (`LocksSafe`), and `Exclusion`: `LegLocks` implements
`Sections`. A holder of a lock is a task that still wants it (`HoldersWant`), lines hold each
waiter once and only tasks whose next lock it is (`Lines`, `Waits`), a running task has all
its locks (`HasAll`). For the absence of a circular wait, consider the largest leg that
anybody waits for: its holder took the locks in ascending order, so it waits for a larger
one, of which there is none, or for nothing.

`BridgingIsSafe` (any legs, pairs, jobs and number of commands). What is promised at rest needs
to be known all along: a leg has a ticket and no peer yet only while the command of that
ticket is about to set the peers (`SlotsBridge`), a peer and no ticket only if some command is
about to bridge it again (`BridgesTicketed`), and a bridge without sound has a command that
routes or takes it down (`BridgesRouted`); the reverse, sound without a bridge, is left only
by a leg on its way out (`RoutesBridge`). A ticket is of one command and stands in the slots of
two legs that name each other (`TicketsPaired`, `TicketsOwned`), which is why
`releaseBridgeRetention` by the name of either leg gives the whole ticket back, and
why its comparison of the tickets matters. Nobody has a leg that left for a peer (`LeaversAlone`).

`PlaybackIsSafe` (any playbacks and number of frames of a bridge). A frame is queued once and
no more when it is being sent (`FramesApart`), and its promise is open until then
(`PromiseInv`): what two units take from the queue is what the callback will settle
(`FrameTakes`). The loop runs while its callback awaits a send (`LoopInv`), so no sound that
comes meanwhile is without a loop before the callback decides (`LoopEnds`). A medium that ended
was registered once, and has no source when it is not registered (`SourceInv`).

**`DialProofs`** (any targets and waits): `DialIsSafe`. While the dial runs its live legs are
exactly its active attempts (`RingingIsActive`), so `finalizeDial`, which walks the active
attempts, meets no leg that left the registry and misses none that lives.
`markAttemptAnswered` may stop half-way; in a sequential dial its only attempt is the last
one started (`LastRings`), which the loop never reaches.

`DirectoryIsSafe` (any phones, attempts and dials). As long as nothing happened that a listing
cannot know (a phone moved in a call, a call of an unknown endpoint, a target that was taken
before its turn), the busy marker of a leg is the present endpoint of the phone that it uses
(`MarkersAreTrue`), so who lists free endpoints lists no phone that is in a call, and no two
legs ring one (`NoneTwice`). A sequential dial has one leg at most (`OneLeg`); one that rings
has a leg, one in a gap has a target left (`GoesOn`, `LaterIsSequential`).

`DialWaitsIsSafe` (any dials, waits and events). Who waits listens to each of its dials and to
no other, none of which is over (`WaitsForTheLiving`); so the handler that ends a dial meets
all who wait for it, and the first that wants the end takes it, which is why anybody that is
turned away left it to another. An event is queued only if no listener wants it, and a wait
looks into the queues before it listens: nothing it would take is beside it
(`NothingPassesBy`). An event of a dial that goes on is queued, was lost to an interruption, or
was returned by exactly one wait (`KeptOnce`); `publish` picks one taker because no two waits
have one turn (`TurnsDiffer`). Two who heard how a dial ended heard events that it published,
and it published one kind of end, unless its answer could not finalize it.

**`QueueProofs`** (any callers, entries, dials, extensions, retries): `QueueIsSafe` and the
action property `DialsKeepTheirEntry`. A branch timer that will fire belongs to an entry that
waits (`TimersAreIdle`): one left by a removed or dispatching entry would dispatch a second
dial for it. Every handler changes at most one entry, so most lemmas are about the new value
of that entry (`OneEntryStep`).

**`ControlProofs`**: `RequestsAreSafe` (any requests and streams; a stored request was
published and neither answered nor refused, and where an asker waits no answer is
outstanding; the leg may be in any stage of its clean-up), `BindingsAreSafe` (any phones, any
number of REGISTERs in any order; no grace runs while the extension is served), `DaemonIsSafe`
(any processes and daemons; a socket that leads to a daemon leads to one that was started, so
a daemon that is told to stop, or goes idle, takes its own streams with it and no other's),
`StreamsAreSafe` (any activations and faults; which streams are registered, starting and kept,
seen from the client, the runtime and the daemon: a trigger that is served has one of them or
is among the `orphans`).

**`SipProofs`**: `RelayIsSafe` (any number of provisional responses). `AnswerCrosses` speaks
of a moment at which nothing is under way; before it, somebody owes the caller its 200 OK:
`call.bridge` that did not look yet, or one of the three answerers, unless a torn dial kept
the answer from all of them (`AnswerArrives`), and one that skips the sending because the
session is marked answered leaves another that is sending (`AnswerOnItsWay`). `TrunksAreSafe` (any hosts): the active trunk is never the host that
unregisters, although both may be made from one configuration (`ServesNoUnregister`); a host
that unregisters has no timer that would register it again (`PendingUnregisters`); nothing is
sent on a socket that was closed (`SentOnOpenSocket`). `OutboundIsSafe` (any number of copies of
a response handled at once): the INVITEs of an attempt go out one after the other, each for a
challenge of the last, so the remote party owes an answer to the last one only and a session
that is answered was answered there (`InvitesInOrder`); a session that is gone without a mishap
left no INVITE open, and a BYE to whoever picked up, at every moment and not only when nothing
is under way (`NobodyIsLeft`); and what is left of a session without a closed socket is its BYE,
whose end closes it (`ByeClosesSocket`).

**`MediaProofs`**: `WorkerIsSafe` (any number of chunks): what the inbox holds is what some
task awaits, one command each, and what a leg gives goes to an open session until the stop
is answered. `RecordingIsSafe` (any number of recordings and workers): the line of the lock
holds exactly what waits for it, in order (`LineTells`, `HolderIsFirst`); the slot of the
start-ups holds the latest, so that it is free only when no start-up is on its way to its
section (`LatestHoldsSlot`); therefore a stop that begins before the command of its start-up
waits for one that cannot get the lock (`StopAwaitsStart`) and never gets as far as reporting
the recording finished: what it reports was sent before, and removed by the stop. A worker
that is not the home of the leg records only what came too late (`OnlyHomeRecords`).

`DigitsIsSafe` (any digits, durations, window and number of presses; the first mishap ends
what is promised). The two ways are apart, so every part is about one of them. A press that
ended is heard on each way it was signalled, or one of its reports is on its way (`Arrived`);
what a method published is behind what it reports next (`ByMethod`). On the stream events
and tones meet: the event seen last is behind the key that is down and behind what the
detector hears, since it emptied the detector (`KeyAhead`), and no tone passed a press that
waits for its event (`NotOvertaken`). So a report that is published is ahead of all that its
way published (`Increasing`, `DtAppends`). Where tones are all there is of the stream, no
report is on its way, and the detector has to keep step with the key: its candidate, its digit
and its gap are functions of how long the key is down or up (`ToneAlone`, `DtKeepsStep`).

**`PoolProofs`**: `PoolIsSafe` (any legs, workers, faults), leg by leg: what the task of a leg
is at says which workers may host it and which may know it. `RtpIsSafe` (any packets, digits,
held-back packets and modulus): what is held back, waits in an inbox or is reported is always
in the order of arrival across the two halves of a move (`PacketsInOrder`), nothing that
arrived is forgotten but what is counted as lost (`NoneForgotten`), and both sequence
counters stand behind what was sent last (`Numbered`). `WsIsSafe` (any agents, senders and
sockets): the attachment points at sockets that are open or connecting, and the promise at a
connect that is not settled (`Pointers`); unless a late event struck, one socket lives, and
the promise is its connect (`OneLive`); while nothing of the named went wrong, the configure
under way owns what it waits for (`Owned`), so that what it finds when it goes on is what it
asked for. `SpeechIsSafe` (any chunks, frames and batches): whole frames may be taken and
remain whole because what is queued ends with the last byte said, and a flush is about that
byte (`Playout`); only then is the silence behind it where the agent stopped.
`VoiceAgentIsSafe` (`VoiceAgentSafe`) is both, in every interleaving.

The proofs have corrected the models as well: that of `SipTrunks` showed that the host that is
being reused is the one whose registration may pause, that a reuse disowns its host whenever
that host is no longer the active one when the reuse ends, and that a REGISTER may be sent on
a socket of the current listener only (`bound`). `WsAudio` kept its frames and read them with a
fold, about which nothing can be proved; it keeps the bytes in order instead. The proof of
`Bridging` asked which steps leave half a bridge, and so for three commands at once, with which
the excuses of two properties could be made narrower.

### Only model-checked

* `SipInbound` has no constants: TLC's run is exhaustive for the model, whose bound (two
  INVITEs of one call) is part of it.
* `Admission`, `LegFrames` and the digit rules (`WaitRules`) compute with folds, selections and minima over sequences. What such a
  function yields for all inputs takes an induction over data, and the library's induction
  theorems take an operator as a parameter, which the installed provers cannot instantiate.
* Every liveness property and `ImplementsOwnership`'s liveness part: the prover handles
  neither fairness nor `ENABLED`.
* Modules with theorems use no `RECURSIVE` operator.

## Not modelled, and the plan

Out of scope: text formats (SIP messages, SDP, digest computation, protocol framing),
codecs and the native add-on (signal processing without control state), n8n's declarative
UI and input normalisation, queue statistics, catalogues of names.

Of components that are modelled in part, the following is missing: the contents of SDP
offers and of re-INVITEs, OPTIONS and keep-alives; the map of WebSocket attempts and
deferred sessions; outbound audio of the websocket worker
(`websocket-transport.ts:1040-1176`); sample arithmetic, gain and resampling; options of
playbacks and media statistics; relaying of DTMF between transports; validation and
listing of actions; the refusal of a hand-over or of `removeEndpoint` by a worker that lives
(`media-service.ts:1134-1154`: `WorkerPool` knows the failures that come with its death); a
finalization that throws (`media-worker.ts:1567-1580`) apart from an encoder that does; messages
of a WebSocket that is being closed on this side. In the run `media` the ring of `LegFrames`
holds two frames and two arrive, so that it is cleared on a change of the rate but never
overflows.

Four hazards have no property, since the code does what they say and no document forbids
it: a 200 OK that crosses the CANCEL, or finds its leg gone, leaves the remote party in a call
(`sip-transport-service.ts:1484`, `1489`); a caller may wait in the queue beside an operator
who became free (`queue-service.ts:326`); a start-up that is rejected under the clean-up of
its leg ends that clean-up (`media-service.ts:1866`); a second `media.wait` of one medium is
never told (`2164`). The models contain all four.

To come: the components that are modelled in part.
