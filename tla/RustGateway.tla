----------------------------- MODULE RustGateway -----------------------------
(***************************************************************************)
(* The Rust application gateway (rtcserver/src/gateway.rs).                *)
(*                                                                         *)
(* Every browser WebSocket is a tokio task running serve(): it creates the *)
(* controlled session, runs the on_session_created hook, then loops over   *)
(* the shutdown signal, the browser's messages and Vox's events, and       *)
(* cleans up.  close() signals the tasks through a watch channel, counts   *)
(* them with an atomic and waits on a Notify until the count is zero.      *)
(* Tasks run on several threads, so every access to the shared atomics,    *)
(* the watch channel and the Notify is a step of its own.                  *)
(***************************************************************************)
EXTENDS Naturals, Sequences, FiniteSets

CONSTANTS
    Conns,      \* the browser connections that may be upgraded
    Talkers,    \* those whose browser sends commands
    Closers,    \* the concurrent calls of close()
    OfferIds,   \* request ids the browsers put on rtc.offer
    NoOffer     \* pending_offer_id = None

ASSUME RustConstantsAssumption ==
    /\ Talkers \subseteq Conns
    /\ NoOffer \notin OfferIds
    /\ IsFiniteSet(Conns)

Generations == {"absent", "valid", "invalid"}

VARIABLES
    phase,                \* where the task of the connection is
    browser,              \* the browser's end of the socket: none, open, gone
    shutting_down,        \* GatewayState.shutting_down
    signal,               \* the watch channel holds Some(reason)
    receivers,            \* tasks holding a watch::Receiver
    unseen,               \* receivers for which changed() is ready
    active,               \* GatewayState.active
    closer,               \* where each close() is
    registered,           \* closers whose Notified is enabled
    woken,                \* closers whose Notified was notified
    rtc_close_requested,  \* local of serve
    pending_offer_id,     \* local of serve
    generated_offer,      \* local of serve
    events,               \* event_tx/event_rx, filled by the session listener
    \* What the outside sees: Vox, the browser and the application.
    voxClosed,            \* Vox closed the session
    session,              \* the control channel: none, joined, left
    closeRuns,            \* runs of the on_session_closed hook
    rtcCloses,            \* rtc.close commands Vox received
    browserAskedClose,    \* the browser sent rtc.close
    sent,                 \* ids the browser used on rtc.offer
    atVox,                \* offers Vox has not answered yet
    voxGenerated,         \* the last offer Vox received had a generation
    candidatesAtVox,      \* <<voxGenerated, generation>> of received candidates
    replies,              \* <<offer, id>>: Vox's reply to offer went out as id
    errors                \* ids of offers answered by gateway.error

taskVars   == <<phase, rtc_close_requested, session, closeRuns, rtcCloses>>
eventVars  == <<events, voxClosed>>
watchVars  == <<shutting_down, signal, receivers, unseen>>
drainVars  == <<active, closer, registered, woken>>
offerVars  == <<pending_offer_id, generated_offer, browserAskedClose, sent,
                atVox, voxGenerated, candidatesAtVox, replies, errors>>
vars == <<taskVars, browser, watchVars, drainVars, eventVars, offerVars>>

(* The event that says Vox closed the session; the others are replies.     *)
ClosedEvent == <<"rtc.session.closed", NoOffer>>
ReplyEvent(id) == <<"reply", id>>
SessionEvents == {ReplyEvent(id) : id \in OfferIds} \cup {ClosedEvent}

Init ==
    /\ phase = [c \in Conns |-> "idle"]
    /\ browser = [c \in Conns |-> "none"]
    /\ shutting_down = FALSE
    /\ signal = FALSE
    /\ receivers = {}
    /\ unseen = {}
    /\ active = 0
    /\ closer = [k \in Closers |-> "idle"]
    /\ registered = {}
    /\ woken = {}
    /\ rtc_close_requested = [c \in Conns |-> FALSE]
    /\ pending_offer_id = [c \in Conns |-> NoOffer]
    /\ generated_offer = [c \in Conns |-> FALSE]
    /\ events = [c \in Conns |-> <<>>]
    /\ voxClosed = [c \in Conns |-> FALSE]
    /\ session = [c \in Conns |-> "none"]
    /\ closeRuns = [c \in Conns |-> 0]
    /\ rtcCloses = [c \in Conns |-> 0]
    /\ browserAskedClose = [c \in Conns |-> FALSE]
    /\ sent = [c \in Conns |-> {}]
    /\ atVox = [c \in Conns |-> <<>>]
    /\ voxGenerated = [c \in Conns |-> FALSE]
    /\ candidatesAtVox = [c \in Conns |-> {}]
    /\ replies = [c \in Conns |-> {}]
    /\ errors = [c \in Conns |-> {}]

(* The task moves from one await or shared access to the next.             *)
Moves(c, from, to) == phase[c] = from /\ phase' = [phase EXCEPT ![c] = to]

-----------------------------------------------------------------------------
(* upgrade: refused with 503 once close() was called; otherwise the        *)
(* response is returned and axum will start serve() later.                 *)
Upgrade(c) ==
    /\ \/ shutting_down /\ Moves(c, "idle", "refused") /\ UNCHANGED browser
       \/ /\ ~shutting_down
          /\ Moves(c, "idle", "upgrading")
          /\ browser' = [browser EXCEPT ![c] = "open"]
    /\ UNCHANGED <<rtc_close_requested, session, closeRuns, rtcCloses,
                   watchVars, drainVars, eventVars, offerVars>>

(* serve() begins: the task is counted, then it creates the session.       *)
ServeStarts(c) ==
    /\ Moves(c, "upgrading", "creating")
    /\ active' = active + 1
    /\ UNCHANGED <<rtc_close_requested, session, closeRuns, rtcCloses, browser,
                   watchVars, closer, registered, woken, eventVars, offerVars>>

(* create_controlled_session fails: serve returns at once.                 *)
CreateFails(c) ==
    /\ Moves(c, "creating", "dropping")
    /\ UNCHANGED <<rtc_close_requested, session, closeRuns, rtcCloses, browser,
                   watchVars, drainVars, eventVars, offerVars>>

(* The session is joined; nobody listens to its events yet.                *)
CreateSucceeds(c) ==
    /\ Moves(c, "creating", "created")
    /\ session' = [session EXCEPT ![c] = "joined"]
    /\ UNCHANGED <<rtc_close_requested, closeRuns, rtcCloses, browser,
                   watchVars, drainVars, eventVars, offerVars>>

(* on_event(): events are queued from here on.  shutdown.subscribe(): only *)
(* later sends count as a change.                                          *)
Subscribes(c) ==
    /\ Moves(c, "created", "subscribed")
    /\ receivers' = receivers \cup {c}
    /\ UNCHANGED <<rtc_close_requested, session, closeRuns, rtcCloses, browser,
                   shutting_down, signal, unseen, drainVars, eventVars, offerVars>>

(* Mutant of BorrowsShutdown: the value is not looked at before the hook.  *)
BorrowSkipped(c) ==
    /\ Moves(c, "subscribed", "hook")
    /\ UNCHANGED <<rtc_close_requested, session, closeRuns, rtcCloses, browser,
                   watchVars, drainVars, eventVars, offerVars>>

(* shutdown.borrow(): give the session up, or call the created hook.       *)
BorrowsShutdown(c) ==
    /\ Moves(c, "subscribed", IF signal THEN "cleanup" ELSE "hook")
    /\ UNCHANGED <<rtc_close_requested, session, closeRuns, rtcCloses, browser,
                   watchVars, drainVars, eventVars, offerVars>>

(* The created hook fails, or gateway.ready cannot be sent: clean up.      *)
SetupFails(c) ==
    /\ Moves(c, "hook", "cleanup")
    /\ UNCHANGED <<rtc_close_requested, session, closeRuns, rtcCloses, browser,
                   watchVars, drainVars, eventVars, offerVars>>

(* The hook returns and gateway.ready is sent: serve enters its loop.  A   *)
(* send may succeed although the browser has left.                         *)
SetupSucceeds(c) ==
    /\ Moves(c, "hook", "serving")
    /\ UNCHANGED <<rtc_close_requested, session, closeRuns, rtcCloses, browser,
                   watchVars, drainVars, eventVars, offerVars>>

-----------------------------------------------------------------------------
(* select!: shutdown.changed().                                            *)
SeesShutdown(c) ==
    /\ c \in unseen
    /\ Moves(c, "serving", "cleanup")
    /\ unseen' = unseen \ {c}
    /\ UNCHANGED <<rtc_close_requested, session, closeRuns, rtcCloses, browser,
                   shutting_down, signal, receivers, drainVars, eventVars,
                   offerVars>>

(* Mutant of SeesBrowserGone: serve returns without the cleanup.           *)
ReturnsUncleaned(c) ==
    /\ browser[c] = "gone"
    /\ Moves(c, "serving", "dropping")
    /\ UNCHANGED <<rtc_close_requested, session, closeRuns, rtcCloses, browser,
                   watchVars, drainVars, eventVars, offerVars>>

(* select!: the browser closed the socket.                                 *)
SeesBrowserGone(c) ==
    /\ browser[c] = "gone"
    /\ Moves(c, "serving", "cleanup")
    /\ UNCHANGED <<rtc_close_requested, session, closeRuns, rtcCloses, browser,
                   watchVars, drainVars, eventVars, offerVars>>

(* select!: a message of the browser, perhaps its last before it left.     *)
Receives(c) == c \in Talkers /\ phase[c] = "serving" /\ browser[c] # "none"

(* Mutant of RejectOffer: a refused offer takes the slot.                  *)
RejectOfferKeepsSlot(c, id) ==
    /\ pending_offer_id' = [pending_offer_id EXCEPT ![c] =
                               IF @ = NoOffer THEN id ELSE @]
    /\ UNCHANGED <<phase, errors, generated_offer, atVox, voxGenerated>>

(* handle_message returned an error: free the slot if this request holds   *)
(* it and send gateway.error; when that fails the loop ends.               *)
RejectOffer(c, id) ==
    /\ pending_offer_id' = [pending_offer_id EXCEPT ![c] =
                               IF @ = id THEN NoOffer ELSE @]
    /\ \/ /\ browser[c] = "open"
          /\ errors' = [errors EXCEPT ![c] = @ \cup {id}]
          /\ UNCHANGED phase
       \/ /\ browser[c] = "gone"
          /\ UNCHANGED phase \/ Moves(c, "serving", "cleanup")
          /\ UNCHANGED errors
    /\ UNCHANGED <<generated_offer, atVox, voxGenerated>>

(* send_offer succeeded.                                                   *)
ForwardOffer(c, id, generation) ==
    /\ pending_offer_id' = [pending_offer_id EXCEPT ![c] = id]
    /\ generated_offer' = [generated_offer EXCEPT ![c] = generation = "valid"]
    /\ atVox' = [atVox EXCEPT ![c] = Append(@, id)]
    /\ voxGenerated' = [voxGenerated EXCEPT ![c] = generation = "valid"]
    /\ UNCHANGED <<phase, errors>>

(* Mutant of OfferSlotFree: the check for a pending offer is dropped.      *)
OfferSlotUnchecked(c) == TRUE

(* An offer is accepted only when none is pending.                         *)
OfferSlotFree(c) == pending_offer_id[c] = NoOffer

(* rtc.offer.  It is refused while another is pending, when the generation *)
(* or the SDP is malformed, and when send_offer fails (accepted = FALSE).  *)
HandleOffer(c, id, generation) ==
    /\ Receives(c)
    /\ id \notin sent[c]
    /\ sent' = [sent EXCEPT ![c] = @ \cup {id}]
    /\ \E accepted \in BOOLEAN :
          IF OfferSlotFree(c) /\ generation # "invalid" /\ accepted
          THEN ForwardOffer(c, id, generation)
          ELSE RejectOffer(c, id)
    /\ UNCHANGED <<rtc_close_requested, session, closeRuns, rtcCloses, browser,
                   watchVars, drainVars, eventVars, browserAskedClose,
                   candidatesAtVox, replies>>

(* rtc.ice_candidate.  A generation is required after a generated offer.   *)
HandleCandidate(c, generation) ==
    /\ Receives(c)
    /\ generation = "valid" \/ (generation = "absent" /\ ~generated_offer[c])
    /\ candidatesAtVox' = [candidatesAtVox EXCEPT ![c] =
                              @ \cup {<<voxGenerated[c], generation>>}]
    /\ UNCHANGED <<taskVars, browser, watchVars, drainVars, eventVars,
                   pending_offer_id, generated_offer, browserAskedClose, sent,
                   atVox, voxGenerated, replies, errors>>

(* rtc.close.  rtc_close_requested is set before close_rtc, which may fail *)
(* and is not tried again.  The browser client sends it once.              *)
HandleRtcClose(c) ==
    /\ Receives(c)
    /\ ~browserAskedClose[c]
    /\ browserAskedClose' = [browserAskedClose EXCEPT ![c] = TRUE]
    /\ rtc_close_requested' = [rtc_close_requested EXCEPT ![c] = TRUE]
    /\ \E told \in {0, 1} :
          rtcCloses' = [rtcCloses EXCEPT ![c] = @ + told]
    /\ UNCHANGED <<phase, session, closeRuns, browser, watchVars, drainVars,
                   eventVars, pending_offer_id, generated_offer, sent, atVox,
                   voxGenerated, candidatesAtVox, replies, errors>>

-----------------------------------------------------------------------------
(* Vox answers its oldest offer; the listener queues the event.            *)
VoxReplies(c) ==
    /\ session[c] = "joined" /\ ~voxClosed[c] /\ atVox[c] # <<>>
    /\ atVox' = [atVox EXCEPT ![c] = Tail(@)]
    /\ events' = [events EXCEPT ![c] = Append(@, ReplyEvent(Head(atVox[c])))]
    /\ UNCHANGED <<taskVars, browser, watchVars, drainVars, voxClosed,
                   pending_offer_id, generated_offer, browserAskedClose, sent,
                   voxGenerated, candidatesAtVox, replies, errors>>

(* Vox closes the session, at any time: also while the hook runs.  Before  *)
(* on_event() was called the event goes to nobody.                         *)
VoxCloses(c) ==
    /\ session[c] = "joined" /\ ~voxClosed[c]
    /\ voxClosed' = [voxClosed EXCEPT ![c] = TRUE]
    /\ events' = [events EXCEPT ![c] = IF phase[c] = "created" THEN @
                                       ELSE Append(@, ClosedEvent)]
    /\ UNCHANGED <<taskVars, browser, watchVars, drainVars, offerVars>>

(* select!: the reply to an offer.  It takes the pending id; a failed send *)
(* ends the loop.                                                          *)
ForwardReply(c) ==
    /\ phase[c] = "serving"
    /\ events[c] # <<>> /\ Head(events[c]) # ClosedEvent
    /\ events' = [events EXCEPT ![c] = Tail(@)]
    /\ pending_offer_id' = [pending_offer_id EXCEPT ![c] = NoOffer]
    /\ \/ /\ browser[c] = "open"
          /\ replies' = [replies EXCEPT ![c] =
                @ \cup {<<Head(events[c])[2], pending_offer_id[c]>>}]
          /\ UNCHANGED phase
       \/ /\ browser[c] = "gone"
          /\ UNCHANGED phase \/ Moves(c, "serving", "cleanup")
          /\ UNCHANGED replies
    /\ UNCHANGED <<rtc_close_requested, session, closeRuns, rtcCloses, browser,
                   watchVars, drainVars, voxClosed, generated_offer, browserAskedClose,
                   sent, atVox, voxGenerated, candidatesAtVox, errors>>

(* select!: rtc.session.closed ends the loop.  rtc_close_requested is only *)
(* set once the event was sent to the browser.                             *)
ForwardClosed(c) ==
    /\ events[c] # <<>> /\ Head(events[c]) = ClosedEvent
    /\ Moves(c, "serving", "cleanup")
    /\ events' = [events EXCEPT ![c] = Tail(@)]
    /\ \E delivered \in {TRUE, browser[c] = "open"} :
          rtc_close_requested' = [rtc_close_requested EXCEPT ![c] =
                                     @ \/ delivered]
    /\ UNCHANGED <<session, closeRuns, rtcCloses, browser, watchVars,
                   drainVars, voxClosed, offerVars>>

(* Mutant of CleanupLeaves: rtc_close_requested is ignored.                *)
CleanupTellsAgain(c) ==
    /\ Moves(c, "cleanup", "closedHook")
    /\ rtcCloses' = [rtcCloses EXCEPT ![c] = @ + 1]
    /\ session' = [session EXCEPT ![c] = "left"]
    /\ closeRuns' = [closeRuns EXCEPT ![c] = @ + 1]
    /\ UNCHANGED <<rtc_close_requested, browser, watchVars, drainVars, eventVars,
                   offerVars>>

(* cleanup: close_rtc unless it was requested (it may fail, which is only  *)
(* reported), session.close(), and the call of the on_session_closed hook. *)
CleanupLeaves(c) ==
    /\ Moves(c, "cleanup", "closedHook")
    /\ \E told \in {0, 1} :
          rtcCloses' = [rtcCloses EXCEPT ![c] =
                           IF rtc_close_requested[c] THEN @ ELSE @ + told]
    /\ session' = [session EXCEPT ![c] = "left"]
    /\ closeRuns' = [closeRuns EXCEPT ![c] = @ + 1]
    /\ UNCHANGED <<rtc_close_requested, browser, watchVars, drainVars, eventVars,
                   offerVars>>

(* The closed hook returns; serve returns and drops its locals.            *)
CleanupEnds(c) ==
    /\ Moves(c, "closedHook", "dropping")
    /\ UNCHANGED <<rtc_close_requested, session, closeRuns, rtcCloses, browser,
                   watchVars, drainVars, eventVars, offerVars>>

(* Mutant of GuardDrops: the comparison is off by one.                     *)
GuardNeverLast(c) ==
    /\ Moves(c, "dropping", IF active = 0 THEN "notifying" ELSE "done")
    /\ active' = active - 1
    /\ receivers' = receivers \ {c} /\ unseen' = unseen \ {c}
    /\ browser' = [browser EXCEPT ![c] = "gone"]
    /\ UNCHANGED <<rtc_close_requested, session, closeRuns, rtcCloses,
                   shutting_down, signal, closer, registered, woken, eventVars,
                   offerVars>>

(* The socket and the receiver are dropped, then ActiveGuard: fetch_sub.   *)
GuardDrops(c) ==
    /\ Moves(c, "dropping", IF active = 1 THEN "notifying" ELSE "done")
    /\ active' = active - 1
    /\ receivers' = receivers \ {c} /\ unseen' = unseen \ {c}
    /\ browser' = [browser EXCEPT ![c] = "gone"]
    /\ UNCHANGED <<rtc_close_requested, session, closeRuns, rtcCloses,
                   shutting_down, signal, closer, registered, woken, eventVars,
                   offerVars>>

(* ActiveGuard of the last task: drained.notify_waiters().                 *)
GuardNotifies(c) ==
    /\ Moves(c, "notifying", "done")
    /\ woken' = woken \cup registered
    /\ UNCHANGED <<rtc_close_requested, session, closeRuns, rtcCloses, browser,
                   watchVars, active, closer, registered, eventVars, offerVars>>

BrowserLeaves(c) ==
    /\ browser[c] = "open"
    /\ browser' = [browser EXCEPT ![c] = "gone"]
    /\ UNCHANGED <<taskVars, watchVars, drainVars, eventVars, offerVars>>

-----------------------------------------------------------------------------
(* close(): shutting_down.swap(true).  Only the first call signals.        *)
CloserSwaps(k) ==
    /\ closer[k] = "idle"
    /\ closer' = [closer EXCEPT ![k] = IF shutting_down THEN "register"
                                       ELSE "send"]
    /\ shutting_down' = TRUE
    /\ UNCHANGED <<taskVars, browser, signal, receivers, unseen, active,
                   registered, woken, eventVars, offerVars>>

(* watch::Sender::send: without a receiver the value is not stored.        *)
CloserSends(k) ==
    /\ closer[k] = "send"
    /\ closer' = [closer EXCEPT ![k] = "register"]
    /\ signal' = (receivers # {})
    /\ unseen' = receivers
    /\ UNCHANGED <<taskVars, browser, shutting_down, receivers, active,
                   registered, woken, eventVars, offerVars>>

(* Mutant of CloserRegisters: the Notified is created but not enabled.     *)
CloserForgetsEnable(k) ==
    /\ closer[k] = "register"
    /\ closer' = [closer EXCEPT ![k] = "load"]
    /\ registered' = registered \ {k} /\ woken' = woken \ {k}
    /\ UNCHANGED <<taskVars, browser, watchVars, active, eventVars, offerVars>>

(* A new Notified, enabled before the count is read.                       *)
CloserRegisters(k) ==
    /\ closer[k] = "register"
    /\ closer' = [closer EXCEPT ![k] = "load"]
    /\ registered' = registered \cup {k} /\ woken' = woken \ {k}
    /\ UNCHANGED <<taskVars, browser, watchVars, active, eventVars, offerVars>>

(* Mutant of CloserLoads: the comparison is off by one.                    *)
CloserLoadsEarly(k) ==
    /\ closer[k] = "load"
    /\ closer' = [closer EXCEPT ![k] = IF active <= 1 THEN "disconnected"
                                       ELSE "wait"]
    /\ registered' = IF active <= 1 THEN registered \ {k} ELSE registered
    /\ UNCHANGED <<taskVars, browser, watchVars, active, woken, eventVars,
                   offerVars>>

(* active.load(): leave the loop, or await the Notified.                   *)
CloserLoads(k) ==
    /\ closer[k] = "load"
    /\ closer' = [closer EXCEPT ![k] = IF active = 0 THEN "disconnected"
                                       ELSE "wait"]
    /\ registered' = IF active = 0 THEN registered \ {k} ELSE registered
    /\ UNCHANGED <<taskVars, browser, watchVars, active, woken, eventVars,
                   offerVars>>

CloserWakes(k) ==
    /\ closer[k] = "wait" /\ k \in woken
    /\ closer' = [closer EXCEPT ![k] = "register"]
    /\ UNCHANGED <<taskVars, browser, watchVars, active, registered, woken,
                   eventVars, offerVars>>

-----------------------------------------------------------------------------
Setup(c) ==
    \/ Upgrade(c) \/ ServeStarts(c) \/ CreateFails(c) \/ CreateSucceeds(c)
    \/ Subscribes(c) \/ BorrowsShutdown(c) \/ SetupFails(c) \/ SetupSucceeds(c)

Select(c) ==
    \/ SeesShutdown(c) \/ SeesBrowserGone(c) \/ ForwardReply(c)
    \/ ForwardClosed(c)
    \/ \E id \in OfferIds, g \in Generations : HandleOffer(c, id, g)
    \/ \E g \in Generations : HandleCandidate(c, g)
    \/ HandleRtcClose(c)

Teardown(c) ==
    CleanupLeaves(c) \/ CleanupEnds(c) \/ GuardDrops(c) \/ GuardNotifies(c)

Outside(c) == BrowserLeaves(c) \/ VoxReplies(c) \/ VoxCloses(c)

CloserStep(k) ==
    \/ CloserSends(k) \/ CloserRegisters(k) \/ CloserLoads(k) \/ CloserWakes(k)

Next ==
    \/ \E c \in Conns : Setup(c) \/ Select(c) \/ Teardown(c) \/ Outside(c)
    \/ \E k \in Closers : CloserSwaps(k) \/ CloserStep(k)

Spec == Init /\ [][Next]_vars

(* Fairness: tokio polls every ready task, session creation and the hooks  *)
(* end, select! picks among the ready branches at random and so takes one  *)
(* that stays ready.  Nothing is assumed of browsers, Vox or new upgrades. *)
Fairness ==
    /\ \A c \in Conns :
          /\ WF_vars(ServeStarts(c))
          /\ WF_vars(CreateFails(c) \/ CreateSucceeds(c))
          /\ WF_vars(Subscribes(c) \/ BorrowsShutdown(c))
          /\ WF_vars(SetupFails(c) \/ SetupSucceeds(c))
          /\ WF_vars(SeesShutdown(c))
          /\ WF_vars(SeesBrowserGone(c))
          /\ WF_vars(ForwardReply(c) \/ ForwardClosed(c))
          /\ WF_vars(Teardown(c))
    /\ \A k \in Closers : WF_vars(CloserStep(k))

FairSpec == Spec /\ Fairness

-----------------------------------------------------------------------------
Phases == {"idle", "refused", "upgrading", "creating", "created", "subscribed",
           "hook", "serving", "cleanup", "closedHook", "dropping", "notifying",
           "done"}

TypeOK ==
    /\ phase \in [Conns -> Phases]
    /\ browser \in [Conns -> {"none", "open", "gone"}]
    /\ shutting_down \in BOOLEAN /\ signal \in BOOLEAN
    /\ receivers \in SUBSET Conns /\ unseen \in SUBSET receivers
    /\ active \in Nat
    /\ closer \in [Closers -> {"idle", "send", "register", "load", "wait",
                               "disconnected"}]
    /\ registered \in SUBSET Closers /\ woken \in SUBSET Closers
    /\ rtc_close_requested \in [Conns -> BOOLEAN]
    /\ pending_offer_id \in [Conns -> OfferIds \cup {NoOffer}]
    /\ generated_offer \in [Conns -> BOOLEAN]
    /\ events \in [Conns -> Seq(SessionEvents)]
    /\ voxClosed \in [Conns -> BOOLEAN]
    /\ session \in [Conns -> {"none", "joined", "left"}]
    /\ closeRuns \in [Conns -> Nat] /\ rtcCloses \in [Conns -> Nat]
    /\ browserAskedClose \in [Conns -> BOOLEAN]
    /\ sent \in [Conns -> SUBSET OfferIds]
    /\ atVox \in [Conns -> Seq(OfferIds)]
    /\ voxGenerated \in [Conns -> BOOLEAN]
    /\ candidatesAtVox \in [Conns -> SUBSET (BOOLEAN \X Generations)]
    /\ replies \in [Conns -> SUBSET (OfferIds \X (OfferIds \cup {NoOffer}))]
    /\ errors \in [Conns -> SUBSET OfferIds]

(* A close() that sleeps while no task is left has been woken, or the last *)
(* task is about to wake it: enabling the Notified before reading the      *)
(* count leaves no window for a lost wake-up.                              *)
NoLostWakeup ==
    \A k \in Closers : closer[k] = "wait" /\ active = 0 =>
        k \in woken \/ \E c \in Conns : phase[c] = "notifying"

(* A close() leaves its loop only when every task that has begun to serve  *)
(* has finished, its session left and its closed hook returned.            *)
DrainedAtDisconnect ==
    [][\A k \in Closers : \A c \in Conns :
          closer[k] # "disconnected" /\ closer'[k] = "disconnected" =>
             phase[c] \in {"idle", "refused", "upgrading", "notifying", "done"}
             /\ session[c] # "joined"]_vars

(* What the shutdown promises, in terms of the outside.                    *)
Drain == INSTANCE DrainContract WITH
    stage    <- IF \E k \in Closers : closer[k] = "disconnected"
                THEN "disconnected"
                ELSE IF shutting_down THEN "draining" ELSE "serving",
    admitted <- {c \in Conns : phase[c] \notin {"idle", "refused"}},
    opened   <- {c \in Conns : session[c] # "none"},
    closed   <- {c \in Conns : session[c] = "left" /\ phase[c] # "closedHook"}

(* close() keeps the contract of a shutdown, and each of its calls leaves  *)
(* no task behind that had begun to serve.                                 *)
DrainsAsPromised == Drain!Spec /\ DrainedAtDisconnect

(* However a task ends, it has cleaned its session up exactly once.        *)
CleanedUpOnce ==
    \A c \in Conns :
        /\ closeRuns[c] = (IF session[c] = "left" THEN 1 ELSE 0)
        /\ phase[c] \in {"dropping", "notifying", "done"} =>
              session[c] # "joined"

(* A task that holds a receiver never misses the shutdown signal: it saw   *)
(* it when it borrowed the value, or changed() is ready for it.            *)
SignalNotMissed ==
    \A c \in Conns : signal /\ phase[c] \in {"hook", "serving"} => c \in unseen

(* While the session serves, the pending offer is the one offer that Vox   *)
(* has not answered or whose reply is still queued.                        *)
OfferSlotMatchesVox ==
    \A c \in Conns : phase[c] = "serving" /\ ~voxClosed[c] =>
        atVox[c] \o [i \in 1..Len(events[c]) |-> events[c][i][2]] =
            IF pending_offer_id[c] = NoOffer THEN <<>>
            ELSE <<pending_offer_id[c]>>

(* Vox's reply to an offer reaches the browser under that offer's request  *)
(* id, and never for an offer that was answered with gateway.error.        *)
RepliesMatchOffers ==
    \A c \in Conns : \A r \in replies[c] : r[1] = r[2] /\ r[1] \notin errors[c]

(* Vox never receives a candidate without a generation for a negotiation   *)
(* whose offer carried one.                                                *)
GeneratedCandidatesOnly ==
    \A c \in Conns : <<TRUE, "absent">> \notin candidatesAtVox[c]

(* Vox receives rtc.close at most once, although both the browser and the  *)
(* cleanup may send it.                                                    *)
NoDuplicateRtcClose == \A c \in Conns : rtcCloses[c] <= 1

(* What Vox is told after the offer is what the negotiation allows: no     *)
(* candidate that lacks the offer's generation, no second rtc.close.       *)
CommandsToVox == GeneratedCandidatesOnly /\ NoDuplicateRtcClose

(* A task that holds a receiver when the gateway is closed ends, whatever  *)
(* it is doing.                                                            *)
SignalledTasksEnd ==
    \A c \in Conns : (signal /\ c \in receivers) ~> (phase[c] = "done")

(* Once the tasks are gone for good, every close() returns.                *)
DrainIsNoticed ==
    <>[](active = 0) =>
        \A k \in Closers : (closer[k] # "idle") ~> (closer[k] = "disconnected")

(* close() makes progress with every task it can reach, and notices when   *)
(* none is left.                                                           *)
ShutdownProgresses == SignalledTasksEnd /\ DrainIsNoticed

(* "It signals active sockets, waits for their controlled sessions to      *)
(* close, and then disconnects the shared Vox client": close() ends.       *)
ShutdownCompletes ==
    \A k \in Closers : (closer[k] # "idle") ~> (closer[k] = "disconnected")
=============================================================================
