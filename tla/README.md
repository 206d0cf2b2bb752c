# Vox RTC SDKs: TLA+ verification project

TLA+ models of the Vox RTC SDKs in this repository, TLC configurations that
check them on small instances, and TLAPS proofs of the properties that matter
most.

## 1. The system

    browser client  <-- same-origin WebSocket -->  application gateway
     (TypeScript)        gateway.ready, rtc.*       (TS, Go, Python, Rust, Elixir)
          |                                               |
          | WebRTC media                                  | control session
          v                                               v (PondSocket channel;
        Vox server  <---------------------------------  Vox    Elixir: gRPC)

A browser opens a WebSocket to the application's own server.  The gateway in
that server creates one *controlled session* at Vox for it, lets the
application prepare it (`onSessionCreated`), announces it (`gateway.ready`) and
then relays offers, candidates and answers.  Media flows directly between the
browser and Vox.  Vox, the PondSocket and gRPC transports, the WebSocket
libraries and the browser's `RTCPeerConnection` are external.

### Inventory

| Component | State it keeps | Operations | What makes it correct |
|---|---|---|---|
| TS gateway (`typescript/vox-rtc-server/src/gateway.ts`) | `#active`, `#opening`, `#shutdownReason`, per session: `setupPending`, `pendingCloseReason`, `closePromise`, `rtcCloseRequested`, `pendingOfferId`, `generatedOffer`; keep-alive timer | `handleUpgrade`, `#open`, `#handleMessage`, `#forwardEvent`, `#requestClose`, `#close`, `close` | every session opened is closed once, hooks do not overlap, `close()` drains everything and ends, replies carry the right request id |
| Rust gateway (`rust/rtcserver/src/gateway.rs`) | `shutting_down` and `active` atomics, a watch channel, a `Notify`; per task: `pending_offer_id`, `generated_offer`, `rtc_close_requested` | `upgrade`, `serve`, `handle_message`, `cleanup`, `close` | the same, with threads: no lost wake-up, no missed signal |
| Go gateway (`go/rtcserver/gateway.go`) | `connections` WaitGroup, `active` map and `shutdown` under a mutex, per session close flag | `ServeHTTP`, `serve`, `forwardEvent`, `close`, `Close` | the same; registration and shutdown check under one lock |
| Python gateway (`python/.../gateway.py`) | active set, closing flag, per-session receive and event tasks | `handle`, `_serve`, `close` | the same; no event lost when both tasks finish together |
| Elixir gateway (`elixir/.../gateway.ex`) | the WebSock process state | `init`, `handle_in`, `handle_info`, `terminate` | the same, one process per session |
| Browser client (`typescript/vox-rtc-client/src/client.ts`, `signaling.ts`) | `status`, `connectionAttempt`, signaling socket, peer connection, microphone, media wait, negotiation flags, candidate buffers, audio ducking and playout state | `connect`, `disconnect`, `replaceMicrophone`, `restartIce`, signaling and peer event handlers | nothing of a superseded attempt survives or acts; `connect()` settles; media state follows the server |
| Control sessions (`session.*` of each SDK) | joined channel, listeners, tracked response generation, waiters | `sendOffer`, `startResponse`, `appendText`, `completeResponse`, `cancelResponse`, `replaceText`, `startResponseAndWait`, `close` | commands are for the generation the application means; waits end |
| Server clients (`client.*`, Rust `socket.rs`) | the shared socket, connect in flight, Rust reconnect supervisor | `connect`, `disconnect`, `createSession`, `attachSession` | one socket, reconnects after a loss, stops on disconnect |
| Speech-context validators (`types.*`) | none (pure) | `validate` | the five SDKs accept the same contexts |
| Protocol types, generated protobuf, examples | none | | not modelled |

### What is hard here

* **Interleaving**: setup awaits the network and application hooks, and the
  browser, Vox and `close()` may each end the session at any of these awaits.
* **Shutdown**: `close()` must catch sessions that do not exist yet.
* **Threads** (Rust, Go): the count, the signal and the wake-up are separate
  shared accesses.
* **Correlation**: Vox's answer carries no request id, candidates carry a
  generation only for generated offers.
* **Supersession** (browser): a `connect()` in flight is overtaken by
  `disconnect()` and another `connect()`.
* **Failure**: half-open peers, hooks that throw, sends that fail.

The hazards are listed, at the lines where they bite, in `PROJECT.json`.

## 2. Modules

| Module | Models |
|---|---|
| `GatewayContract` | the strict promise of a gateway: sessions open, are announced, close once and for all; the client is disconnected when none is left, and nothing opens after that |
| `DrainContract` | what both gateways promise about a shutdown: no admission after `close()`, a disconnect only when every session opened so far is closed |
| `TsGateway` | the TypeScript gateway; refines `GatewayContract` and `DrainContract` |
| `TsGatewayProofs` | TLAPS proofs about `TsGateway`: lifecycle, shutdown, refinement; offers, replies, commands to Vox |
| `RustGateway` | the Rust gateway; refines `DrainContract` |
| `RustGatewayProofs` | TLAPS proofs about `RustGateway` |
| `BrowserClient` | the browser client's connection attempts, with socket, peer and microphone as resources |
| `BrowserClientProofs` | TLAPS proofs about `BrowserClient` |
| `BrowserNegotiation` | offers, answers and trickled candidates of one of its connections |
| `BrowserNegotiationProofs` | TLAPS proofs about `BrowserNegotiation` |
| `BrowserAudio` | its audio ducking and playout suspension |
| `BrowserAudioProofs` | TLAPS proofs about `BrowserAudio` |
| `Broadcast` | what a receiver of a tokio broadcast channel finds, used by `RustSession` |
| `RustSession` | a control session of the Rust SDK: channel, response generation, acknowledgements, listeners |
| `RustSessionProofs` | TLAPS proofs about `RustSession` |
| `RustSocket` | the Rust client's socket and its reconnect supervisor |
| `RustSocketProofs` | TLAPS proofs about `RustSocket` |
| `Payloads` | what Rust and TypeScript make of JSON they did not write: typed listeners, speech contexts, browser messages |
| `PayloadsProofs` | TLAPS proofs about `Payloads` |
| `MC*` | instances for TLC, with symmetry sets for connections and closers, and for request ids |

### TsGateway

JavaScript runs to completion between awaits, so one action is one such run.
`phase[c]` is the await at which `#open(c)` stands (`creating` the session, in
the `hook`, `closing` what it gave up), `closer` the await at which `close()`
stands.  `closePromise` distinguishes a `#close` whose `onSessionClosed` still
runs from one that has settled, because `close()` awaits exactly that.
`#active` and `#opening` are derived sets.  SDP, candidates and close reasons
are abstracted; the negotiation generation is absent, valid or invalid, which
is all the code distinguishes.  `told` and `accepted` stand for commands that
may throw.  Request ids of a browser differ, as `signaling.ts` makes them (a
refused message that reused the pending id would free the slot,
`gateway.ts:461`).

`HookClosers` are the connections whose `onSessionClosed` hook calls `close()`
before its first await, unless the reason it is given is that of a `close()`.
`stack` holds the window open in which the hook runs and `closePromise` is not
assigned yet; `nested` is the promise of the second run of `#close` that this
leads to.  `close()` awaits the nested run and `closePromise` ends up with the
outer one, so `#active.delete` and even the disconnect may come before the
outer run of the hook has ended: `Released` is where one of the two has
settled.  A hook that calls `close()` whatever the reason is left out.  It
calls itself without end, also from `close()`'s own sweep, because both
`closePromise` and `#closePromise` are assigned only after the synchronous
part (`gateway.ts:279`, `512`).

### RustGateway

Every shared access is a step: the swap of `shutting_down`, the watch send
(which stores nothing when there is no receiver), subscribing, borrowing,
`fetch_add`, `fetch_sub`, `notify_waiters`, enabling the `Notified`, the load
of the count.  `select!` is a choice among the ready branches.  Several calls
of `close()` may run at once.

### BrowserClient

`calls` numbers the calls of `connect()`, and everything an attempt acquires
carries its number, so `signaling`, `peerConnection` and `mediaWait` say whose
resource the field holds.  `current` is `#connectionAttempt`, or `None` once
it was raised by an end of the call.  `co[a]` is the await at which
`connect()` stands, `neg[<<a, caller>>]` where the `#negotiate` of `connect()`
or `restartIce()` stands, `ready` and `waited` are the two promises
`connect()` waits for.  Events of the outside need `Quiet`: JavaScript drains
its microtasks first.  Calls of the application need nothing, so it may call
`connect()` in the same task as `disconnect()`.  A promise of a closed
`RTCPeerConnection` never settles, as WebRTC prescribes.  Sessions, data
channels and the remote stream are left out.  `replaceMicrophone()` is called
once at a time.

`#emit` calls listeners synchronously.  Two of these calls are in the middle
of `connect()`, between a check and what relies on it: `state` before the
signaling client is made, `session` before the peer is.  There `connect()` has
the stages `dialling` and `peering`, in which nothing runs but the listener,
and it may call `disconnect()`.  `cutShort` remembers the attempts ended in
this way: `connect()` goes on and stores a socket or a peer in a closed
client, and the properties speak of everything else (`Leftover` is what may be
left in a field).  Left out are listeners that call `connect()` from inside
another `connect()`, or that call the client from inside the `state` events of
`disconnect()` and `#cleanup` and from inside `error`.

### BrowserNegotiation

One connection, abstracting everything but candidates: `at` is the await at
which `#negotiate` stands, `flushing` what `#flushServerCandidates` has left.
Each candidate carries the negotiation it was gathered for besides the label
it is sent under; `applied` and `received` are histories of what the peer and
Vox were given, and when.  The gateway keeps the order of messages in each
direction (one WebSocket, one relay), and may lag arbitrarily.

### BrowserAudio

One action per control event that the two handlers distinguish, the release
timer, `#cleanup`, and the user, who may move slider and mute button at any
time.  `touched` remembers that the user did so while the client held the
value: that change is not kept (the code restores what it saved).  Events come
over the socket and over the data channel, hence in any order.  A further stop
event clears the release timer and sets a new one; timers have two names, so
that a timer and the one that replaces it are told apart.

### RustSession

Tasks that hold clones of one session (`Callers`) issue its commands.  They
share the tracked generation, whose mutex each helper takes and releases, so
`start_response`, `send_text_response`, `cancel_response`,
`replace_response_text` and `start_response_and_wait` are sequences of steps
between which another task may act: `at[c]` is where the caller stands,
`cmd[c]` the command it is about to send.  Vox's events go into PondSocket's
ring (`pondLog`), from there through the relay task into the SDK's (`log`),
and from there to listeners and to waiting callers, each of which may lag.
`chan` is PondSocket's channel and `state_tx` its mirror, written by another
task.  Vox may report the failure of any command under the generation the
command named (`heard`), as the README of the SDK describes (126-142).  A
command carries the number of the start it belongs to; that number, `acks` and
`atVox` exist only to say which answer is whose, `started`, `option` and
`disturbed` to say which generation a text response began with and whether
another task came between its commands, and `handled` to say which message a
listener's handler was given last.  What an event contains beyond its
generation belongs to `Payloads`.

### RustSocket

Each access to `active`, to the slot with the supervisor's handle, to the
watch channel and to PondSocket's connection is a step of a caller or of a
supervisor.  `JoinHandle::abort` only marks a supervisor; it stops at its next
await, which is what makes replacing one interesting.  `overlapped` remembers
that a `connect()` and a `disconnect()` were in progress at once: the
properties about the outcome of the last call do not speak of these
behaviours, in which either call may win (section 3, disagreements).

### Payloads

Pure functions.  A JSON value is abstracted to the kinds that some reader
tells apart (an empty, a blank and another string; integers with an exact
double, without one, and beyond an `i64`; arrays with and without foreign
items); lists of unavailable tracks have up to `MaxTracks` entries, three in
the run.  A behaviour chooses an input and applies the readers of both SDKs to
it; the properties compare the results with each other and with what the input
means.  Entities, words and a response's output are read field by field like
the events themselves.  The differences between the SDKs are named in the
properties:

* events: the session id, which Rust never takes from the payload; empty ids,
  a generation that is no `i64`, a `partial_transcript` of null, and entities
  or words that are no array, where Rust reports nothing; times of a word and
  offsets of an entity, which are 0 in Rust and undefined in TypeScript when
  they are missing or ill-typed; integers above 2^53, exact only in Rust (also
  inside the payload of a browser event);
* contexts: what serde takes besides objects and strings (an array for a
  context or a span, `{"partial": null}` for a status; not for `sounds`, whose
  spans have a flattened field), `"unavailable": null` in a complete context,
  and times above 2^53;
* browser messages: binary frames and a generation written `1.0`, which only
  TypeScript takes; a missing candidate, which only Rust takes; optional
  candidate fields of the wrong type, which Rust forwards and TypeScript
  replaces by null.

The inputs are payloads that both languages parse and trim alike: lone
surrogates, numbers beyond the range of a double and U+FEFF are left out.

## 3. Runs

| Run | Checks | Shows |
|---|---|---|
| `ts_lifecycle` (`MCTsGateway_lifecycle.cfg`) | `CleanupOnce`, `NothingSurvivesDisconnect`, `HooksNeverOverlap`, `NeverReadyTooLate`, `ContractSpec`, `ShutdownCompletes`, `SocketsEnd` | Two connections opened, closed, vanishing and failing in every order against close(), one of them with a closed hook that calls close() itself and so has a second run of #close nested in the first: cleanup once, hooks in sequence, no session or #open left at the disconnect, no late gateway.ready, the contract refined; close() terminates, no socket outlives its session, a vanished browser is reaped. |
| `ts_signaling` (`MCTsGateway_signaling.cfg`) | `OfferSlotMatchesVox`, `RepliesMatchOffers`, `CommandsToVox` | One talking browser with three offers: the offer slot, reply correlation, candidate generations and a single rtc.close, through the hook, the close and Vox's own close. |
| `rust_drain` (`MCRustGateway_drain.cfg`) | `NoLostWakeup`, `CleanedUpOnce`, `SignalNotMissed`, `DrainsAsPromised` | Two tasks and two concurrent calls of close() interleaved at every shared access: no lost wake-up, no missed signal, cleanup once, and the shutdown refines DrainContract: the count is drained before the disconnect and nobody is admitted after close(). |
| `rust_signaling` (`MCRustGateway_signaling.cfg`) | `OfferSlotMatchesVox`, `RepliesMatchOffers`, `CommandsToVox`, `ShutdownProgresses` | One talking browser with two offers against Vox's replies queued in the event channel and a call of close(): offers, replies and candidates match, a signalled task ends, and close() notices that the tasks are gone. |
| `rust_lostsignal` (`MCRustGateway_lostsignal.cfg`) — expected violation | `ShutdownCompletes` | The signal is sent while the only session is still being created: nobody stores it, the session serves on and close() never returns. |
| `browser_attempts` (`MCBrowserClient_attempts.cfg`) | `ResourcesReleased`, `AttemptsSeparate`, `StaleConnectIsHarmless`, `ConnectSettlesUnlessCutOff` | Two calls of connect() and two of replaceMicrophone() with disconnects, gateway closes, peer failures, microphone prompts and ICE restarts at every await, and with listeners that call disconnect() from inside connect(): sockets, peers and microphones belong to the attempt the fields name, but for what an attempt cut short by a listener leaves behind, a superseded connect() changes nothing, and connect() settles. |
| `browser_micleak` (`MCBrowserClient_micleak.cfg`) — expected violation | `EveryMicrophoneReleased` | replaceMicrophone() across an end of the call leaves a live microphone. |
| `negotiation_candidates` (`MCBrowserNegotiation_candidates.cfg`) | `OutgoingCandidates`, `IncomingCandidates`, `NegotiationEnds` | Three negotiations with three candidates each way in every order of messages and peer promises: candidates follow their offer, keep their order, are never lost on the way to Vox and never reach the peer before their answer; a negotiation ends although neither the gateway nor Vox has to answer. |
| `audio_events` (`MCBrowserAudio_events.cfg`) | `VolumeIsUsersOrDucked`, `MuteIsUsersOrSuspension`, `DuckIsReleased` | Ducking, with and without a release delay, and playout suspension under every order of control events, timers, cleanups and user actions: volume and mute come back to what the user chose, the volume at the latest when a release timer runs to its end. |
| `rust_responses` (`MCRustSession_responses.cfg`) | `JoinIsTruthful`, `AckIsForThisStart`, `AnswerNotMissed`, `TextResponseIsWhole`, `EveryMessageIsHandled` | Two tasks share a session and start, follow, cancel, replace and await responses, with generated ids and one of the application's, while the join, the relay, a listener and Vox run beside them and the broadcast rings are at their smallest: join() is truthful, an acceptance belongs to its own start and cannot be missed, the commands of a text response keep their generation unless another task comes between them, and a listener that lags goes on with every message the ring still has. |
| `rust_reconnect` (`MCRustSocket_reconnect.cfg`) | `OneSupervisor`, `QuietAfterDisconnect`, `ReconnectsAfterLoss` | Two tasks connect and disconnect a shared client at every access to its shared state, while the connection is lost and supervisors dial: one supervisor at a time, silence after disconnect(), and a lost connection comes back. |
| `payloads_sdks` (`MCPayloads_sdks.cfg`) | `EventsAgree`, `ContextMeaningful`, `ContextsAgree`, `GatewaysAgree` | Every field of every typed event and of the objects in it with every kind of JSON value, every speech context, however it is written, with up to three unavailable tracks, and every browser message in text and binary frames: the Rust SDK reads what the TypeScript SDK reads, but for the named differences, and accepts exactly the meaningful contexts. |

All configurations but those of the browser client and its audio say
`CHECK_DEADLOCK FALSE`: the sets of connections, messages, negotiations, calls
and inputs are finite and all of them may be finished.

**Bounds.** Two connections are enough for a session that is opening while
another one is closing; the interaction between connections is only through
`close()`.  Two closers let one `close()` find the flag set by another.  Three
offer ids (TypeScript) let a refused offer come between an answered and a
pending one; the Rust run has two, because it also checks liveness.
`HookClosers`, `Mortals` and `Talkers` restrict reentrance, the keep-alive and
the browser's commands to some connections or runs.  The symmetry sets permute
connections only where no constant tells them apart, and no run with a
liveness property uses symmetry.  Two calls of `connect()` let a superseded
one resume at every stage of the next; two replacements let one microphone
replace a replacement.  Three negotiations and candidates give an ICE restart
with candidates of the generations before and after it; the volumes lie below
and above the duck volume.  In `rust_responses` two callers with two calls
between them let a command of one task fall between any two steps of the
other's (registering a listener is a call too), and rings of one entry make
lagging happen with the two events there are.  In `rust_reconnect` three calls
by two callers give a connect, a disconnect and another connect, two
supervisors one that replaces another, and one loss is the loss it must
recover from.  The inputs of `payloads_sdks` are not bounded but for
`MaxTracks`: every combination of kinds is enumerated, one million states in
all.

**Fairness.** Weak fairness on the continuations of each process: session
creation settles (the channel join has a timeout and the HTTP request ends
with the connection), hooks return (an assumption on the application), a
closing WebSocket closes (the library has a close timeout), timers fire, and
tokio polls a ready task.  Nothing is assumed of browsers and of Vox.
In the TypeScript gateway `#open` of a connection is one process, which is at
one await at a time, and so are the runs of its `#close`, and `close()` with
the hook that calls it.  For the browser's audio, a release timer fires unless
it is cleared or replaced before its delay is over: stop events that come
again within every delay put the release off for ever, and `DuckIsReleased`
says no more than that a timer that is left alone restores the volume.  In the
Rust session only the tasks of the listeners are fair.
For the browser client: microtasks run, its timers fire, operations of a peer
that is not closed settle, and the user answers the microphone prompt (the
browser keeps `getUserMedia` pending until then, and so does `connect()`).
For the Rust socket: weak fairness on callers inside a call and on
supervisors, and strong fairness on a supervisor's successful dial, which says
that a server that is dialled for ever answers in the end; without it nothing
could come back.

**Violations.** 

* `rust_lostsignal` / `ShutdownCompletes`, `src/rust/rtcserver/src/gateway.rs:154`: close() uses watch::Sender::send, which drops the value when no task has subscribed yet, and a session whose create_controlled_session is pending subscribes only at line 204: it is never signalled, serves on, and close() waits for it for ever; src/rust/rtcserver/README.md:52-53 says "It signals active sockets, waits for their controlled sessions to close, and then disconnects the shared Vox client."

* `browser_micleak` / `EveryMicrophoneReleased`, `src/typescript/vox-rtc-client/src/client.ts:374`: replaceMicrophone() does not look again at the connection after awaiting getUserMedia: when the call ended meanwhile the new stream is never stopped (the null peer throws at 380, or replaceTrack at 382 rejects or never settles), and when it ended during replaceTrack a stream may become #localStream of a closed client; src/typescript/vox-rtc-client/README.md:60-62 says "If the peer fails, closes, or does not connect within 15 seconds, `connect()` rejects and releases the microphone, peer connection, and signaling socket." The run shows a closed client with a live microphone after connect(), replaceMicrophone(), disconnect() and the grant.

**Disagreements that no run is spent on.** Met while modelling, at these
lines; each is possible in the model, and no property claims the opposite.

* An `onSessionClosed` hook that calls `close()` before its first await has the
  cleanup of its session run twice (`vox-rtc-server/src/gateway.ts:512`; its
  README:64 promises one).  `CleanupOnce` speaks of the other connections.
* A listener that calls `disconnect()` while `connect()` emits `state`
  (`client.ts:292`) or `session` (306) ends up with a closed client that has a
  live socket or peer: `connect()` goes on, and its catch block (340) does not
  clean up, because the attempt is no longer the present one (README:60-62
  promises release).  The next `connect()` may then fail on the media wait left
  behind, or be ended by the close of the old socket.
* A Rust upgrade accepted before `close()` may be served after the client was
  disconnected (`rtcserver/src/gateway.rs:187`; its README:52-53).
* A candidate of the generation before an ICE restart may be applied after it
  (`vox-rtc-client/src/signaling.ts:232`, `client.ts:565`; its README:53-54).
* The Rust relay ends on `Lagged` and the session falls silent
  (`rtcserver/src/socket.rs:220`; `SDK_SYNC_FIXES.md:48`).
* A `connect()` and a `disconnect()` of the Rust client that overlap may leave
  it active without a supervisor (`socket.rs:84-122`;
  `SDK_SYNC_FIXES_3.md:137-143`).

Smaller observations about the Rust SDK, where no document says otherwise:
`start_response_and_wait` takes every error that names its generation for the
rejection of the start, also one about a delta that another task sent first
under the generation just tracked (`session.rs:538`; README:126-142;
`AckIsForThisStart` says what remains true); a stale write to `state_tx` can
make `connect()` time out (`socket.rs:115`); a join that times out leaves its
channel behind (`client.rs:171`); a send on a channel that closes between
check and send returns `Ok` (`socket.rs:276`); `cancel_response` with another
id, or at the same time as another task's start, forgets the tracked one
(`session.rs:592`), and a follow-up that was given its id before a cancel may
be sent after it; the first delay exceeds a `max_reconnect_delay` below the
initial one; a `rtc.ice_candidate` message without a candidate is forwarded as
the end of candidates by Rust and refused by TypeScript (`gateway.rs:490`).

## 4. Proofs

Every safety property of the passing runs is proved for every value of the
constants: any number of connections, closers, offers, attempts, negotiations,
candidates, callers and supervisors, any volumes, delays, ring sizes and lists
of tracks.  The only hypotheses are the named assumptions on the constants in
the module that declares them (the bounds are numbers, special values are no
ids); each run evaluates the ones of its module.  Each proof states a stronger
inductive invariant, shown to hold initially and to survive every action, one
proof step per action.  The inductive invariants of `RustGateway`'s offers,
`BrowserClient`, `BrowserNegotiation`, `RustSession`'s answers and
`RustSocket`'s silence were first checked by TLC on instances of up to three
million states.  The type invariants are proved and not checked again by TLC.

**`TsGatewayProofs`**: types, four safety properties, and that the gateway
implements both contracts.  `NothingSurvivesDisconnect` is not inductive.
`LifecycleInv` strengthens it with `SetupInv` (what `phase`, `session`,
`closePromise` and `setupPending` of one connection may be together: a session
exists exactly from the hook on, a close is deferred exactly during the hook)
and `CloserInv` (what the position of `close()` says of all of them: after the
first sweep every active session is still in its setup or being closed, the
sessions outside the awaited set are closed, and nothing is opening once the
awaited set is empty).  Both also place the nested run of `#close`: it exists
only for a session that was left, and only once `close()` was called.  The
refinement proof adds `Lasting` (what the contract sees never goes back) and
`Final` (the last step of `close()` changes nothing else and nothing the
contract sees follows it), both in terms of `Released`; that of
`DrainContract` also `Admission` (a connection is admitted before `close()`,
and for good).  `CleanupRunsOnce` needs `OnceInv` besides: only hooks of
`HookClosers` are ever on the stack when `close()` sweeps the active sessions.

Its second half proves the three signaling properties.  `SlotOf` says that
the pending offer is the one Vox has, `ReplyOf` that ids of pending, answered
and refused offers were all sent and that a refused offer is neither pending
nor answered, `CommandOf` that what the gateway remembers (`rtcCloseRequested`,
`generatedOffer`) is what Vox was told, until the channel is left.  The many
paths that may leave a session in a step are summarised once, in `Leaves`.

**`RustGatewayProofs`**: types, the drain and the signaling.  `CountInv` is
the heart of the drain: the atomic count equals the *number of tasks* between
`fetch_add` and `fetch_sub`, a cardinality, so that a count of zero says
something of every task although each step only adds or subtracts one.
`WakeInv` (a closer that has read the count, or is about to, has its
`Notified` enabled) then gives `NoLostWakeup`, and `SessionOf` (what the phase
of a task says of its session and its cleanup) gives `CleanedUpOnce` and
`DrainedAtDisconnect`.  The refinement of `DrainContract` combines them: when
the count is zero, every session opened so far is closed; `ShutInv` (a
`close()` on its way implies the flag) makes the flag the contract's stage,
and `TaskLasts` says that a task never takes back what the contract saw.
`GatewayContract` does not hold here: a task admitted before `close()` may
open its session after the disconnect (`ServeStarts` has no guard; section 3,
disagreements), and `gateway.ready` may go out during a shutdown.  `SignalOf`
covers both orders of subscribing and sending.  For offers, `SlotOf` lists
what can be between Vox and the browser: nothing, one offer at Vox, or one
reply in the queue, followed at most by the end of the session.

**`BrowserClientProofs`**: types, `ResourcesReleased`, `AttemptsSeparate` and
the action property `StaleConnectIsHarmless`.  `ClientInv` says stage by stage
what an attempt has (`StageInv`), what the fields name (`FieldInv`), that a
microphone granted to a `connect()` lives only as `#localStream` (`MicInv`)
and that a peer has at most one negotiation, which owns the flag (`FlagInv`).
These four are not inductive: a negotiation of an earlier attempt whose
`finally` block is still to run could clear the flag of the present one.  It
cannot, because that block is a microtask and runs before the present attempt
has its session: `FinallyInv`.  `EmitInv` says that at most one `connect()` is
inside a listener, which has ended it or not, and `CutInv` that an attempt cut
short is never the present one again and never negotiates; the other parts
speak of the attempts that were not.

**`BrowserNegotiationProofs`**: types with the stages of `#negotiate`
(`StageInv`), `OutgoingCandidates` and `IncomingCandidates`.  `LineInv` puts
the browser's candidates in one line (at Vox, under way, held back) numbered
without a gap; `LabelInv` says that every message under way carries the
generation in force when it arrives and that after the last one the browser's
is in force, which is what sending the buffer *after* the offer preserves.  In
the other direction `AheadInv` says that all the browser has taken was sent
before what is under way, `EarlyInv` that the early candidates are in line
(applied, in the flush, held back), and `GenerationInv` that none held is of a
later negotiation than the browser's.  A candidate that arrives during the
flush may pass the rest of it; it is not an early one.

**`BrowserAudioProofs`**: types and both safety properties.  They speak of
the audio element, whose value after a restore comes from what was saved; the
strengthening `AudioInv` says that a value is saved exactly while something
will give it back (a source, a running timer, a suspension owner), and that
what is saved is the user's.

**`RustSessionProofs`**: types and all four safety properties.
`JoinTellsTheTruth` needs `MirrorInv`: the mirror, which lags behind, says
`joined` only if Vox once accepted and `closed` only of a channel that is
closed for good.  `AckAnswersItsStart` follows an id from the counter to the
acknowledgement: `LabelInv` says that a generated id equals the number of its
start wherever it is (in a caller's command, at Vox, in either ring; failures
of other commands have no start), and
`CallerLabels` that a waiting caller waits for its own.  `AnswerIsNotMissed`
rests on the numbering of starts (`CallerNumbers`, `TrafficNumbers`: no two
callers hold the same number, nothing under way carries one not yet given) and
on `AnswerOf`: until a start is sent nothing carries its number, and the
receiver was created before.  `TextResponsesAreWhole` needs `WholeInv`: while
a text response has commands to send and no other task has come between them,
the tracked generation is still the one it started, and with an id of the
application's it is that id.

**`RustSocketProofs`**: types, `OneSupervisor` (`SupervisorInv` adds that a
number not yet spawned is no task), `QuietAfterDisconnect`, and that no delay
exceeds the larger of the initial and the maximal one.  `QuietInv` says, for
calls that did not overlap, at which steps of a `disconnect()` a live
supervisor or a connection may still exist: only while the abort, or the
hang-up, is still to come.

**`PayloadsProofs`**: the four properties.  `ReadOnce` makes them facts about
functions: what was read is what the readers return for the payload.  For
events, `PairedListeners` and `PairedParts` show that every field of every
listener, and of the objects inside an event, is read by one of the readers
that both SDKs share, or by one of the pairs that differ, each only in the
fields it is named for; the readers are then compared once each.  For
contexts, `TrackLists` relates the length of a list of any length to the set
of its tracks, which turns the validator's case per status into the
definition's single rule.  For messages, the different orders of the checks
are compared case by case.

Only model-checked:

* liveness (`ShutdownCompletes`, `SocketsEnd`, `ShutdownProgresses`,
  `ConnectSettlesUnlessCutOff`, `NegotiationEnds`, `DuckIsReleased`,
  `EveryMessageIsHandled`, `ReconnectsAfterLoss`): TLAPS does not reason about
  fairness here;
* the two expected violations, which are counterexamples.

## 5. Plan

In this order, the most important behaviour first:

1. `GatewayContract`, `DrainContract`, `TsGateway`, `RustGateway` with proofs
   (done).
2. `BrowserClient`, `BrowserNegotiation`, `BrowserAudio` with proofs (done).
3. `RustSession`, `RustSocket` and `Payloads` with proofs (done).
4. The Go, Python and Elixir gateways.  They share the signaling relay with
   the two gateways modelled; what differs is how sessions are counted,
   signalled and awaited, so one module of the drain with one set of actions
   per SDK, each refining `GatewayContract` or at least
   `DrainContract`.
5. The control sessions and clients of the other SDKs, as far as they differ
   from Rust: the acknowledgement waits and the generation without a mutex in
   TypeScript and Python, with one in Go, as a process in Elixir.
6. The browser client, a gateway and Vox composed.
7. Proofs of all safety properties of the modules above (done).  Still worth
   proving: the refinement of the contracts by the gateways of item 4 as they
   are modelled.

A run stays only as long as it asks a question of its own: type invariants
that are proved leave the runs, and safety and liveness of a module share a
run where the state space allows it.


## 6. Not modelled

* Browser client (`src/typescript/vox-rtc-client/src/client.ts`, `src/typescript/vox-rtc-client/src/signaling.ts`): Connection attempts, signaling, negotiation and candidates, audio ducking and playout. Left out: sendEvent and the events that are only passed to listeners, parsing of messages and errors (errors.ts), option validation; replaceMicrophone() is called once at a time; listeners that call connect() from inside connect(), and those of the other events inside a call.
* Go application gateway (`src/go/rtcserver/gateway.go`): Planned: same contract, with goroutines and a WaitGroup.
* Python application gateway (`src/python/vox-rtc-server/src/vox_rtc_server/gateway.py`): Planned: same contract, with asyncio tasks.
* Elixir application gateway (`src/elixir/vox_rtc_server/lib/vox_rtc_server/gateway.ex`): Planned: same contract, one process per browser.
* Control sessions and response generations (`src/typescript/vox-rtc-server/src/session.ts`, `src/go/rtcserver/session.go`, `src/python/vox-rtc-server/src/vox_rtc_server/session.py`, `src/rust/rtcserver/src/session.rs`, `src/elixir/vox_rtc_server/lib/vox_rtc_server/session.ex`): The Rust session: join, close, the tracked response generation with every command, acknowledgements, listeners and the broadcast channels; the typed listeners of Rust and TypeScript as readers. Left out: the response generations of the TypeScript session, the sessions of Go, Python and Elixir, the contents of outgoing payloads, the wording of join_decline_reason.
* Server clients and sockets (`src/typescript/vox-rtc-server/src/client.ts`, `src/go/rtcserver/client.go`, `src/go/rtcserver/socket.go`, `src/python/vox-rtc-server/src/vox_rtc_server/client.py`, `src/rust/rtcserver/src/client.rs`, `src/rust/rtcserver/src/socket.rs`, `src/elixir/vox_rtc_server/lib/vox_rtc_server/client.ex`, `src/elixir/vox_rtc_server/lib/vox_rtc_server/transport.ex`): The Rust client and socket: connect, disconnect, drop, the reconnect supervisor, the channel mirrors and the creation of sessions. Left out: the clients of the other SDKs, URLs and API keys.
* Speech-context validators (`src/typescript/vox-rtc-server/src/types.ts`, `src/go/rtcserver/types.go`, `src/python/vox-rtc-server/src/vox_rtc_server/types.py`, `src/rust/rtcserver/src/types.rs`, `src/elixir/vox_rtc_server/lib/vox_rtc_server/types.ex`): The Rust and the TypeScript validators as functions over every abstract context, against a definition of what a context means. Left out: Go, Python and Elixir, which mirror them.
* Protocol encoding and generated code (`src/elixir/vox_rtc_server/lib/vox_rtc_server/protocol.ex`, `src/elixir/vox_rtc_server/lib/generated/vox/vox.pb.ex`, `src/rust/rtcserver/src/error.rs`): Field-by-field conversion and generated protobuf code without state.
* Example application (`src/typescript/examples/express-rtc-proxy/server.js`, `src/typescript/examples/express-rtc-proxy/src/App.jsx`): Demonstration code.
