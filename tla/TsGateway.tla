------------------------------ MODULE TsGateway ------------------------------
(***************************************************************************)
(* The TypeScript application gateway (vox-rtc-server/src/gateway.ts).     *)
(*                                                                         *)
(* Every browser WebSocket owns one controlled Vox session.  #open creates *)
(* the session, awaits the application's onSessionCreated hook and sends   *)
(* gateway.ready; from then on browser commands go to Vox and Vox events   *)
(* go to the browser.  The session may end because the browser leaves,     *)
(* Vox closes it, the hook fails, the keep-alive gives up, or close() is   *)
(* called: each of these may happen at any await of the others.            *)
(*                                                                         *)
(* JavaScript runs to completion between awaits, so one action is one such *)
(* run: from the event (or settled promise) that resumes the code to the   *)
(* next await.  Reasons, SDP and candidate payloads are abstracted away.   *)
(***************************************************************************)
EXTENDS Naturals, Sequences, FiniteSets

CONSTANTS
    Conns,          \* the browser connections that may be upgraded
    Talkers,        \* those whose browser sends commands
    Mortals,        \* those whose browser may vanish, watched by keep-alive
    OfferIds,       \* request ids the browsers put on rtc.offer
    NoOffer,        \* pendingOfferId = null
    HookClosers     \* those whose onSessionClosed hook calls close() at once,
                    \* unless the reason it is given is that of a close()

ASSUME ConstantsAssumption ==
    /\ Talkers \subseteq Conns /\ Mortals \subseteq Conns
    /\ NoOffer \notin OfferIds
    /\ HookClosers \subseteq Conns

Generations == {"absent", "valid", "invalid"}

VARIABLES
    phase,              \* where #open(c) is
    ws,                 \* ws.readyState
    peer,               \* the browser still answers (FALSE: half-open TCP)
    awaitingPong,       \* of the keep-alive timer
    attached,           \* the message handler and the event listener were set
    setupPending,       \* of ActiveGatewaySession
    pendingClose,       \* pendingCloseReason # null
    closePromise,       \* of ActiveGatewaySession
    closeWsOnSettle,    \* #forwardEvent's finally callback is registered
    rtcCloseRequested,  \* of ActiveGatewaySession
    pendingOfferId,     \* of ActiveGatewaySession
    generatedOffer,     \* of ActiveGatewaySession
    shutdown,           \* #shutdownReason # null
    closer,             \* where the body of close() is
    awaited,            \* the promises close() awaits
    snapshot,           \* activeSessions of closeActive
    stack,              \* hooks on the JavaScript stack, closePromise unset
    nested,             \* the promise of the #close that such a hook led to
    \* What the outside sees: Vox, the browser and the application.
    session,            \* the control channel: none, joined, left
    ready,              \* gateway.ready was sent
    voxClosed,          \* Vox reported rtc.session.closed
    closeRuns,          \* runs of the body of #close: leave() and the hook
    rtcCloses,          \* rtc.close commands Vox received
    browserAskedClose,  \* the browser sent rtc.close
    sent,               \* ids the browser used on rtc.offer
    atVox,              \* offers Vox has not answered yet
    voxGenerated,       \* the last offer Vox received had a generation
    candidatesAtVox,    \* <<voxGenerated, generation>> of received candidates
    replies,            \* <<offer, id>>: Vox's reply to offer went out as id
    errors              \* ids of offers answered by gateway.error

sessionVars == <<phase, attached, setupPending, pendingClose, closePromise,
                 closeWsOnSettle, rtcCloseRequested, session, ready,
                 voxClosed, closeRuns, rtcCloses>>
socketVars  == <<ws, peer, awaitingPong>>
closerVars  == <<shutdown, closer, awaited, snapshot>>
offerVars   == <<pendingOfferId, generatedOffer, browserAskedClose, sent, atVox,
                 voxGenerated, candidatesAtVox, replies, errors>>
hookVars    == <<stack, nested>>
vars == <<sessionVars, socketVars, closerVars, offerVars, hookVars>>

(* A run of #close has settled, the nested one or the other.               *)
Released == {c \in Conns : "settled" \in {closePromise[c], nested[c]}}

(* #active: added when the session exists, deleted when #close settles.    *)
Active == {c \in Conns : session[c] # "none"} \ Released

(* #opening: the #open promises that have not settled.                     *)
Opening == {c \in Conns : phase[c] \in {"creating", "hook", "closing"}}

(* Mutant of Unclosed: the closePromise guard is dropped.                  *)
UnclosedUnguarded(S) == S

(* Connections whose #close has not been called.                           *)
Unclosed(S) == {c \in S : closePromise[c] = "none"}

(* ws.close(): a no-op unless the socket is OPEN.                          *)
WsClose(S) == [c \in Conns |-> IF c \in S /\ ws[c] = "open"
                               THEN "closing" ELSE ws[c]]

-----------------------------------------------------------------------------
Init ==
    /\ phase = [c \in Conns |-> "idle"]
    /\ ws = [c \in Conns |-> "none"]
    /\ peer = [c \in Conns |-> TRUE]
    /\ awaitingPong = [c \in Conns |-> FALSE]
    /\ attached = [c \in Conns |-> FALSE]
    /\ setupPending = [c \in Conns |-> FALSE]
    /\ pendingClose = [c \in Conns |-> FALSE]
    /\ closePromise = [c \in Conns |-> "none"]
    /\ closeWsOnSettle = [c \in Conns |-> FALSE]
    /\ rtcCloseRequested = [c \in Conns |-> FALSE]
    /\ pendingOfferId = [c \in Conns |-> NoOffer]
    /\ generatedOffer = [c \in Conns |-> FALSE]
    /\ shutdown = FALSE
    /\ closer = "idle"
    /\ awaited = {}
    /\ snapshot = {}
    /\ stack = {}
    /\ nested = [c \in Conns |-> "none"]
    /\ session = [c \in Conns |-> "none"]
    /\ ready = [c \in Conns |-> FALSE]
    /\ voxClosed = [c \in Conns |-> FALSE]
    /\ closeRuns = [c \in Conns |-> 0]
    /\ rtcCloses = [c \in Conns |-> 0]
    /\ browserAskedClose = [c \in Conns |-> FALSE]
    /\ sent = [c \in Conns |-> {}]
    /\ atVox = [c \in Conns |-> <<>>]
    /\ voxGenerated = [c \in Conns |-> FALSE]
    /\ candidatesAtVox = [c \in Conns |-> {}]
    /\ replies = [c \in Conns |-> {}]
    /\ errors = [c \in Conns |-> {}]

-----------------------------------------------------------------------------
(* The synchronous part of #close for the connections T: unsubscribe,      *)
(* closeRtc for those in tell, session.close(), and the call of            *)
(* onSessionClosed.  closeRtc may throw, which is only reported: Vox gets  *)
(* the command of the connections in told.  closePromise is assigned when  *)
(* all of this has run, so a hook that calls close() at once finds it      *)
(* unset: stack holds that window open (see HookReenters).  The hook is    *)
(* told the reason; one that called close() for a close()'s reason too     *)
(* would call itself without end.                                          *)
CloseBody(T, tell) ==
    /\ session' = [c \in Conns |-> IF c \in T THEN "left" ELSE session[c]]
    /\ closePromise' = [c \in Conns |-> IF c \in T THEN "running"
                                        ELSE closePromise[c]]
    /\ rtcCloseRequested' = [c \in Conns |-> c \in T \/ rtcCloseRequested[c]]
    /\ \E told \in SUBSET tell :
          rtcCloses' = [c \in Conns |-> IF c \in told THEN rtcCloses[c] + 1
                                        ELSE rtcCloses[c]]
    /\ closeRuns' = [c \in Conns |-> IF c \in T THEN closeRuns[c] + 1
                                     ELSE closeRuns[c]]

(* The connections of T for which rtcCloseRequested is still false.        *)
NotAsked(T) == {c \in T : ~rtcCloseRequested[c]}

(* #close(c), called when nothing else is on the stack.                    *)
CloseSession(c) ==
    /\ CloseBody(Unclosed({c}), NotAsked(Unclosed({c})))
    /\ stack' = IF closer = "idle" THEN Unclosed({c}) \cap HookClosers ELSE {}
    /\ UNCHANGED nested

(* Mutant of RequestClose: setupPending is ignored.                        *)
RequestCloseAtOnce(c) == CloseSession(c) /\ UNCHANGED pendingClose

(* #requestClose(c): during setup only remember that a close is wanted.    *)
RequestClose(c) ==
    \/ /\ setupPending[c]
       /\ pendingClose' = [pendingClose EXCEPT ![c] = TRUE]
       /\ UNCHANGED <<session, closePromise, rtcCloseRequested, rtcCloses,
                      closeRuns, hookVars>>
    \/ /\ ~setupPending[c]
       /\ CloseSession(c)
       /\ UNCHANGED pendingClose

-----------------------------------------------------------------------------
(* handleUpgrade: refused with 503 once close() was called; otherwise the  *)
(* handshake is completed and #open runs up to createControlledSession().  *)
Upgrade(c) ==
    /\ phase[c] = "idle"
    /\ \/ /\ shutdown
          /\ phase' = [phase EXCEPT ![c] = "rejected"]
          /\ UNCHANGED ws
       \/ /\ ~shutdown
          /\ phase' = [phase EXCEPT ![c] = "creating"]
          /\ ws' = [ws EXCEPT ![c] = "open"]
    /\ UNCHANGED <<attached, setupPending, pendingClose, closePromise,
                   closeWsOnSettle, rtcCloseRequested, session, ready,
                   voxClosed, closeRuns, rtcCloses, peer, awaitingPong,
                   closerVars, offerVars, hookVars>>

(* Mutant of CreateFails: the rejected #open is never removed from         *)
(* #opening.                                                               *)
CreateFailsStuck(c) ==
    /\ phase[c] = "creating"
    /\ phase' = [phase EXCEPT ![c] = "closing"]
    /\ ws' = WsClose({c})
    /\ UNCHANGED <<attached, setupPending, pendingClose, closePromise,
                   closeWsOnSettle, rtcCloseRequested, session, ready,
                   voxClosed, closeRuns, rtcCloses, peer, awaitingPong,
                   closerVars, offerVars, hookVars>>

(* createControlledSession rejects: report, close the socket with 1011.    *)
CreateFails(c) ==
    /\ phase[c] = "creating"
    /\ phase' = [phase EXCEPT ![c] = "done"]
    /\ ws' = WsClose({c})
    /\ UNCHANGED <<attached, setupPending, pendingClose, closePromise,
                   closeWsOnSettle, rtcCloseRequested, session, ready,
                   voxClosed, closeRuns, rtcCloses, peer, awaitingPong,
                   closerVars, offerVars, hookVars>>

(* A reason to give the new session up: shutdown or the browser has left.  *)
TerminalReason(c) == shutdown \/ ws[c] # "open"

(* The session exists, but it is too late for it, or subscribing throws:   *)
(* it is closed at once and #open awaits that.                             *)
CreateAborts(c) ==
    /\ phase[c] = "creating"
    /\ \E onEventThrows \in BOOLEAN : TerminalReason(c) \/ onEventThrows
    /\ phase' = [phase EXCEPT ![c] = "closing"]
    /\ CloseSession(c)
    /\ UNCHANGED <<attached, setupPending, pendingClose, closeWsOnSettle,
                   ready, voxClosed, socketVars, closerVars, offerVars>>

(* The session exists: listen to it and to the browser, call the hook.     *)
CreateSucceeds(c) ==
    /\ phase[c] = "creating"
    /\ ~TerminalReason(c)
    /\ phase' = [phase EXCEPT ![c] = "hook"]
    /\ session' = [session EXCEPT ![c] = "joined"]
    /\ attached' = [attached EXCEPT ![c] = TRUE]
    /\ setupPending' = [setupPending EXCEPT ![c] = TRUE]
    /\ UNCHANGED <<pendingClose, closePromise, closeWsOnSettle,
                   rtcCloseRequested, ready, voxClosed, closeRuns, rtcCloses,
                   socketVars, closerVars, offerVars, hookVars>>

(* onSessionCreated throws: send gateway.error and roll the session back.  *)
HookThrows(c) ==
    /\ phase[c] = "hook"
    /\ phase' = [phase EXCEPT ![c] = "closing"]
    /\ setupPending' = [setupPending EXCEPT ![c] = FALSE]
    /\ pendingClose' = [pendingClose EXCEPT ![c] = FALSE]
    /\ CloseSession(c)
    /\ UNCHANGED <<attached, closeWsOnSettle, ready, voxClosed, socketVars,
                   closerVars, offerVars>>

(* Mutant of DeferredCloseReason: only a shutdown is looked at.            *)
DeferredShutdownOnly(c) == shutdown

(* A reason to close that came up while the hook ran.                      *)
DeferredCloseReason(c) == shutdown \/ pendingClose[c] \/ ws[c] # "open"

(* onSessionCreated returns: close what was deferred, or announce the      *)
(* session to the browser.                                                 *)
HookReturns(c) ==
    /\ phase[c] = "hook"
    /\ setupPending' = [setupPending EXCEPT ![c] = FALSE]
    /\ \/ /\ DeferredCloseReason(c)
          /\ phase' = [phase EXCEPT ![c] = "closing"]
          /\ CloseSession(c)
          /\ UNCHANGED ready
       \/ /\ ~DeferredCloseReason(c)
          /\ phase' = [phase EXCEPT ![c] = "done"]
          /\ ready' = [ready EXCEPT ![c] = TRUE]
          /\ UNCHANGED <<session, closePromise, rtcCloseRequested, rtcCloses,
                         closeRuns, hookVars>>
    /\ UNCHANGED <<attached, pendingClose, closeWsOnSettle, voxClosed,
                   socketVars, closerVars, offerVars>>

(* #open resumes after its #close and closes the socket.                   *)
OpenFinishes(c) ==
    /\ phase[c] = "closing"
    /\ closePromise[c] = "settled"
    /\ phase' = [phase EXCEPT ![c] = "done"]
    /\ ws' = WsClose({c})
    /\ UNCHANGED <<attached, setupPending, pendingClose, closePromise,
                   closeWsOnSettle, rtcCloseRequested, session, ready,
                   voxClosed, closeRuns, rtcCloses, peer, awaitingPong,
                   closerVars, offerVars, hookVars>>

(* Mutant of CloseSettles: #forwardEvent has no finally callback.          *)
CloseSettlesOnly(c) ==
    /\ closePromise[c] = "running"
    /\ closePromise' = [closePromise EXCEPT ![c] = "settled"]
    /\ UNCHANGED <<phase, attached, setupPending, pendingClose,
                   closeWsOnSettle, rtcCloseRequested, session, ready,
                   voxClosed, closeRuns, rtcCloses, socketVars, closerVars,
                   offerVars, hookVars>>

(* onSessionClosed settles: #active.delete, then #forwardEvent's finally.  *)
CloseSettles(c) ==
    /\ closePromise[c] = "running"
    /\ closePromise' = [closePromise EXCEPT ![c] = "settled"]
    /\ ws' = IF closeWsOnSettle[c] THEN WsClose({c}) ELSE ws
    /\ UNCHANGED <<phase, attached, setupPending, pendingClose,
                   closeWsOnSettle, rtcCloseRequested, session, ready,
                   voxClosed, closeRuns, rtcCloses, peer, awaitingPong,
                   closerVars, offerVars, hookVars>>

(* The hook's second run, nested in its first, settles: #active.delete.    *)
NestedSettles(c) ==
    /\ nested[c] = "running"
    /\ nested' = [nested EXCEPT ![c] = "settled"]
    /\ UNCHANGED <<sessionVars, socketVars, closerVars, offerVars, stack>>

-----------------------------------------------------------------------------
(* The browser starts the closing handshake.                               *)
BrowserLeaves(c) ==
    /\ ws[c] = "open" /\ peer[c]
    /\ ws' = [ws EXCEPT ![c] = "closing"]
    /\ UNCHANGED <<sessionVars, peer, awaitingPong, closerVars, offerVars,
                   hookVars>>

(* The browser disappears without closing: nothing arrives any more.       *)
PeerVanishes(c) ==
    /\ c \in Mortals /\ ws[c] = "open" /\ peer[c]
    /\ peer' = [peer EXCEPT ![c] = FALSE]
    /\ UNCHANGED <<sessionVars, ws, awaitingPong, closerVars, offerVars,
                   hookVars>>

(* The socket's close event: the keep-alive stops and, if #open has a      *)
(* session, its close is requested.                                        *)
WsCloses(c) ==
    /\ ws[c] = "closing"
    /\ ws' = [ws EXCEPT ![c] = "closed"]
    /\ \/ session[c] # "none" /\ RequestClose(c)
       \/ /\ session[c] = "none"
          /\ UNCHANGED <<session, closePromise, rtcCloseRequested, rtcCloses,
                         closeRuns, pendingClose, hookVars>>
    /\ UNCHANGED <<phase, attached, setupPending, closeWsOnSettle, ready,
                   voxClosed, peer, awaitingPong, closerVars, offerVars>>

(* The keep-alive interval elapses: ping, or terminate when the previous   *)
(* ping is still unanswered.                                               *)
KeepAliveTick(c) ==
    /\ c \in Mortals /\ ws[c] = "open"
    /\ \/ /\ awaitingPong[c]
          /\ ws' = [ws EXCEPT ![c] = "closing"]
          /\ UNCHANGED awaitingPong
       \/ /\ ~awaitingPong[c]
          /\ awaitingPong' = [awaitingPong EXCEPT ![c] = TRUE]
          /\ UNCHANGED ws
    /\ UNCHANGED <<sessionVars, peer, closerVars, offerVars, hookVars>>

Pong(c) ==
    /\ ws[c] \in {"open", "closing"} /\ peer[c] /\ awaitingPong[c]
    /\ awaitingPong' = [awaitingPong EXCEPT ![c] = FALSE]
    /\ UNCHANGED <<sessionVars, ws, peer, closerVars, offerVars, hookVars>>

-----------------------------------------------------------------------------
(* #handleMessage runs for any message until the socket is closed, also    *)
(* during the hook and after #close.                                       *)
Receives(c) == c \in Talkers /\ attached[c] /\ ws[c] \in {"open", "closing"} /\ peer[c]

(* Mutant of RejectOffer: a refused offer keeps the slot it took.          *)
RejectOfferKeepsSlot(c, id) ==
    /\ pendingOfferId' = [pendingOfferId EXCEPT ![c] =
                             IF @ = NoOffer THEN id ELSE @]
    /\ errors' = [errors EXCEPT ![c] = @ \cup {id}]
    /\ UNCHANGED <<generatedOffer, atVox, voxGenerated>>

(* #handleMessage's catch block: free the slot if this request holds it,   *)
(* then reply with gateway.error.                                          *)
RejectOffer(c, id) ==
    /\ pendingOfferId' = [pendingOfferId EXCEPT ![c] =
                             IF @ = id THEN NoOffer ELSE @]
    /\ errors' = [errors EXCEPT ![c] = IF ws[c] = "open" THEN @ \cup {id}
                                       ELSE @]
    /\ UNCHANGED <<generatedOffer, atVox, voxGenerated>>

(* Mutant of ForwardOffer: generatedOffer is not updated.                  *)
ForwardOfferForgets(c, id, generation) ==
    /\ pendingOfferId' = [pendingOfferId EXCEPT ![c] = id]
    /\ atVox' = [atVox EXCEPT ![c] = Append(@, id)]
    /\ voxGenerated' = [voxGenerated EXCEPT ![c] = generation = "valid"]
    /\ UNCHANGED <<generatedOffer, errors>>

(* sendOffer returned: Vox has the offer if the channel is still joined.   *)
ForwardOffer(c, id, generation) ==
    /\ pendingOfferId' = [pendingOfferId EXCEPT ![c] = id]
    /\ generatedOffer' = [generatedOffer EXCEPT ![c] = generation = "valid"]
    /\ \/ /\ session[c] = "joined"
          /\ atVox' = [atVox EXCEPT ![c] = Append(@, id)]
          /\ voxGenerated' = [voxGenerated EXCEPT ![c] = generation = "valid"]
       \/ session[c] = "left" /\ UNCHANGED <<atVox, voxGenerated>>
    /\ UNCHANGED errors

(* Mutant of OfferSlotFree: the check for a pending offer is dropped.      *)
OfferSlotUnchecked(c) == TRUE

(* An offer is accepted only when none is pending.                         *)
OfferSlotFree(c) == pendingOfferId[c] = NoOffer

(* rtc.offer.  It is refused while another is pending, when the generation *)
(* or the SDP is malformed, and when sendOffer throws (accepted = FALSE).  *)
(* The ids of a browser's requests differ, as signaling.ts makes them: a   *)
(* refused message that reused the pending id would free the slot.         *)
HandleOffer(c, id, generation) ==
    /\ Receives(c)
    /\ id \notin sent[c]
    /\ sent' = [sent EXCEPT ![c] = @ \cup {id}]
    /\ \E accepted \in BOOLEAN :
          IF OfferSlotFree(c) /\ generation # "invalid" /\ accepted
          THEN ForwardOffer(c, id, generation)
          ELSE RejectOffer(c, id)
    /\ UNCHANGED <<sessionVars, socketVars, closerVars, browserAskedClose,
                   candidatesAtVox, replies, hookVars>>

(* rtc.ice_candidate.  A generation is required after a generated offer.   *)
HandleCandidate(c, generation) ==
    /\ Receives(c)
    /\ generation = "valid" \/ (generation = "absent" /\ ~generatedOffer[c])
    /\ session[c] = "joined"
    /\ candidatesAtVox' = [candidatesAtVox EXCEPT ![c] =
                              @ \cup {<<voxGenerated[c], generation>>}]
    /\ UNCHANGED <<sessionVars, socketVars, closerVars, pendingOfferId,
                   generatedOffer, browserAskedClose, sent, atVox,
                   voxGenerated, replies, errors, hookVars>>

(* rtc.close.  rtcCloseRequested is set before closeRtc, which may throw.  *)
(* The browser client sends rtc.close once.                                *)
HandleRtcClose(c) ==
    /\ Receives(c)
    /\ ~browserAskedClose[c]
    /\ browserAskedClose' = [browserAskedClose EXCEPT ![c] = TRUE]
    /\ rtcCloseRequested' = [rtcCloseRequested EXCEPT ![c] = TRUE]
    /\ \E told \in BOOLEAN :
          rtcCloses' = [rtcCloses EXCEPT ![c] =
                           IF told /\ session[c] = "joined" THEN @ + 1 ELSE @]
    /\ UNCHANGED <<phase, attached, setupPending, pendingClose, closePromise,
                   closeWsOnSettle, session, ready, voxClosed, closeRuns,
                   socketVars, closerVars, pendingOfferId, generatedOffer,
                   sent, atVox, voxGenerated, candidatesAtVox, replies,
                   errors, hookVars>>

-----------------------------------------------------------------------------
(* The event listener is subscribed until #close unsubscribes it.          *)
Subscribed(c) == attached[c] /\ closePromise[c] = "none"

(* #forwardEvent of rtc.answer or rtc.signaling_error: Vox replies to the  *)
(* oldest offer it has, the gateway gives the reply the pending id.        *)
ForwardReply(c) ==
    /\ Subscribed(c)
    /\ atVox[c] # <<>>
    /\ atVox' = [atVox EXCEPT ![c] = Tail(@)]
    /\ pendingOfferId' = [pendingOfferId EXCEPT ![c] = NoOffer]
    /\ replies' = [replies EXCEPT ![c] =
                      IF ws[c] = "open"
                      THEN @ \cup {<<Head(atVox[c]), pendingOfferId[c]>>}
                      ELSE @]
    /\ UNCHANGED <<sessionVars, socketVars, closerVars, generatedOffer,
                   browserAskedClose, sent, voxGenerated, candidatesAtVox,
                   errors, hookVars>>

(* #forwardEvent of rtc.session.closed: request the close; the socket is   *)
(* closed when that settles, which is at once if the close was deferred.   *)
ForwardClosed(c) ==
    /\ Subscribed(c)
    /\ voxClosed' = [voxClosed EXCEPT ![c] = TRUE]
    /\ \/ /\ setupPending[c]
          /\ pendingClose' = [pendingClose EXCEPT ![c] = TRUE]
          /\ rtcCloseRequested' = [rtcCloseRequested EXCEPT ![c] = TRUE]
          /\ ws' = WsClose({c})
          /\ UNCHANGED <<session, closePromise, rtcCloses, closeRuns,
                         closeWsOnSettle, hookVars>>
       \/ /\ ~setupPending[c]
          /\ CloseBody({c}, {})
          /\ stack' = IF closer = "idle" THEN {c} \cap HookClosers ELSE {}
          /\ UNCHANGED nested
          /\ closeWsOnSettle' = [closeWsOnSettle EXCEPT ![c] = TRUE]
          /\ UNCHANGED <<pendingClose, ws>>
    /\ UNCHANGED <<phase, attached, setupPending, ready, peer, awaitingPong,
                   closerVars, offerVars>>

-----------------------------------------------------------------------------
(* Mutant of RequestCloseAll: the closes are started but not awaited.      *)
RequestCloseAllUnawaited(reentered) ==
    LET due == {c \in Active : ~setupPending[c]} IN
    /\ snapshot' = Active
    /\ awaited' = {}
    /\ pendingClose' = [c \in Conns |-> pendingClose[c]
                                          \/ (c \in Active /\ setupPending[c])]
    /\ CloseBody(Unclosed(due), NotAsked(Unclosed(due)))

(* closeActive's first half: #requestClose for every active session.  The  *)
(* promise of a deferred close is resolved already, so it is not awaited.  *)
(* reentered are the sessions whose closePromise is not assigned yet.      *)
RequestCloseAll(reentered) ==
    LET due  == {c \in Active : ~setupPending[c]}
        runs == Unclosed(due) \cup (due \cap reentered) IN
    /\ snapshot' = Active
    /\ awaited' = due
    /\ pendingClose' = [c \in Conns |-> pendingClose[c]
                                          \/ (c \in Active /\ setupPending[c])]
    /\ CloseBody(runs, NotAsked(runs))

(* close() is called: #shutdownReason is set and closeActive begins.       *)
GatewayClose ==
    /\ closer = "idle"
    /\ closer' = "first"
    /\ shutdown' = TRUE
    /\ RequestCloseAll({})
    /\ UNCHANGED <<phase, attached, setupPending, closeWsOnSettle, ready,
                   voxClosed, socketVars, offerVars, hookVars>>

(* The onSessionClosed hook on the stack calls close(): the same, but the  *)
(* session that is being closed has no closePromise yet.  #close runs for  *)
(* it a second time, and close() awaits that run; then closePromise is     *)
(* given the first one.  The hook's second run, whose reason is close()'s, *)
(* does not call close() again.                                            *)
HookReenters ==
    /\ stack # {}
    /\ closer' = "first"
    /\ shutdown' = TRUE
    /\ RequestCloseAll(stack)
    /\ stack' = {}
    /\ nested' = [c \in Conns |-> IF c \in stack THEN "running" ELSE nested[c]]
    /\ UNCHANGED <<phase, attached, setupPending, closeWsOnSettle, ready,
                   voxClosed, socketVars, offerVars>>

(* The promise that closeActive has of a session's #close is settled.      *)
Settled(c) ==
    IF nested[c] = "none" THEN closePromise[c] = "settled"
                          ELSE nested[c] = "settled"

(* Mutant of CloserAwaitsOpening: close() does not wait for #opening.      *)
CloserSkipsOpening ==
    /\ closer = "first"
    /\ \A c \in awaited : Settled(c)
    /\ closer' = "opening"
    /\ awaited' = {}
    /\ ws' = WsClose(snapshot)
    /\ UNCHANGED <<sessionVars, peer, awaitingPong, shutdown, snapshot,
                   offerVars, hookVars>>

(* closeActive resumes, closes the sockets; close() then awaits #opening.  *)
CloserAwaitsOpening ==
    /\ closer = "first"
    /\ \A c \in awaited : Settled(c)
    /\ closer' = "opening"
    /\ awaited' = Opening
    /\ ws' = WsClose(snapshot)
    /\ UNCHANGED <<sessionVars, peer, awaitingPong, shutdown, snapshot,
                   offerVars, hookVars>>

(* Every #open has settled: closeActive runs a second time.                *)
CloserClosesAgain ==
    /\ closer = "opening"
    /\ awaited \cap Opening = {}
    /\ closer' = "second"
    /\ RequestCloseAll({})
    /\ UNCHANGED <<phase, attached, setupPending, closeWsOnSettle, ready,
                   voxClosed, socketVars, shutdown, offerVars, hookVars>>

(* closeActive resumes; the shared client is disconnected.                 *)
CloserDisconnects ==
    /\ closer = "second"
    /\ \A c \in awaited : Settled(c)
    /\ closer' = "done"
    /\ ws' = WsClose(snapshot)
    /\ UNCHANGED <<sessionVars, peer, awaitingPong, shutdown, awaited,
                   snapshot, offerVars, hookVars>>

-----------------------------------------------------------------------------
Open(c) ==
    \/ CreateFails(c) \/ CreateAborts(c) \/ CreateSucceeds(c)
    \/ HookThrows(c) \/ HookReturns(c)
    \/ OpenFinishes(c) \/ CloseSettles(c) \/ NestedSettles(c)

Socket(c) ==
    \/ Upgrade(c) \/ BrowserLeaves(c) \/ PeerVanishes(c) \/ WsCloses(c)
    \/ KeepAliveTick(c) \/ Pong(c)

Signaling(c) ==
    \/ \E id \in OfferIds, g \in Generations : HandleOffer(c, id, g)
    \/ \E g \in Generations : HandleCandidate(c, g)
    \/ HandleRtcClose(c) \/ ForwardReply(c) \/ ForwardClosed(c)

Closer == CloserAwaitsOpening \/ CloserClosesAgain \/ CloserDisconnects

Next ==
    \/ /\ stack = {}
       /\ \/ \E c \in Conns : Open(c) \/ Socket(c) \/ Signaling(c)
          \/ GatewayClose
          \/ Closer
    \/ HookReenters

Spec == Init /\ [][Next]_vars

(* Fairness: the awaited calls settle (session creation has connect and    *)
(* join timeouts, the hooks are assumed to return), a closing WebSocket    *)
(* closes (the library has a close timeout), timers fire, and the event    *)
(* loop runs every continuation.  Nothing is assumed of browsers and Vox.  *)
(* #open, and likewise close(), is at one await at a time.                 *)
Fairness ==
    /\ \A c \in Conns :
          /\ WF_vars(/\ stack = {}
                     /\ \/ CreateFails(c) \/ CreateAborts(c) \/ CreateSucceeds(c)
                        \/ HookThrows(c) \/ HookReturns(c) \/ OpenFinishes(c))
          /\ WF_vars(stack = {} /\ (CloseSettles(c) \/ NestedSettles(c)))
          /\ WF_vars(stack = {} /\ WsCloses(c))
    /\ \A c \in Mortals : WF_vars(stack = {} /\ KeepAliveTick(c))
    /\ WF_vars(HookReenters \/ (stack = {} /\ Closer))

FairSpec == Spec /\ Fairness

-----------------------------------------------------------------------------
TypeOK ==
    /\ phase \in [Conns -> {"idle", "rejected", "creating", "hook", "closing",
                            "done"}]
    /\ ws \in [Conns -> {"none", "open", "closing", "closed"}]
    /\ peer \in [Conns -> BOOLEAN]
    /\ awaitingPong \in [Conns -> BOOLEAN]
    /\ attached \in [Conns -> BOOLEAN]
    /\ setupPending \in [Conns -> BOOLEAN]
    /\ pendingClose \in [Conns -> BOOLEAN]
    /\ closePromise \in [Conns -> {"none", "running", "settled"}]
    /\ closeWsOnSettle \in [Conns -> BOOLEAN]
    /\ rtcCloseRequested \in [Conns -> BOOLEAN]
    /\ pendingOfferId \in [Conns -> OfferIds \cup {NoOffer}]
    /\ generatedOffer \in [Conns -> BOOLEAN]
    /\ shutdown \in BOOLEAN
    /\ closer \in {"idle", "first", "opening", "second", "done"}
    /\ awaited \in SUBSET Conns
    /\ snapshot \in SUBSET Conns
    /\ stack \in SUBSET Conns
    /\ nested \in [Conns -> {"none", "running", "settled"}]
    /\ session \in [Conns -> {"none", "joined", "left"}]
    /\ ready \in [Conns -> BOOLEAN]
    /\ voxClosed \in [Conns -> BOOLEAN]
    /\ closeRuns \in [Conns -> Nat]
    /\ rtcCloses \in [Conns -> Nat]
    /\ browserAskedClose \in [Conns -> BOOLEAN]
    /\ sent \in [Conns -> SUBSET OfferIds]
    /\ atVox \in [Conns -> Seq(OfferIds)]
    /\ voxGenerated \in [Conns -> BOOLEAN]
    /\ candidatesAtVox \in [Conns -> SUBSET (BOOLEAN \X Generations)]
    /\ replies \in [Conns -> SUBSET (OfferIds \X (OfferIds \cup {NoOffer}))]
    /\ errors \in [Conns -> SUBSET OfferIds]

(* Whatever mix of browser close, Vox close, failing hook and shutdown,    *)
(* also one started by another session's hook, ends a session, the body of *)
(* #close runs once, and it has run when the channel was left.  Exempt are *)
(* only sessions whose own closed hook calls close() at once.              *)
CleanupOnce ==
    \A c \in Conns \ HookClosers :
        closeRuns[c] = (IF session[c] = "left" THEN 1 ELSE 0)

(* The client is disconnected by close() only when every session has been  *)
(* left, its closed hook has returned (where the hook itself called        *)
(* close(), the run that this led to has) and no #open is under way that   *)
(* could create another one.                                               *)
NothingSurvivesDisconnect ==
    closer = "done" => Active = {} /\ Opening = {}

(* onSessionClosed never runs while onSessionCreated is still running for  *)
(* the same session: that is what setupPending defers a close for.         *)
HooksNeverOverlap ==
    \A c \in Conns : phase[c] = "hook" => closePromise[c] = "none"

(* A browser is never told gateway.ready for a session that Vox had closed *)
(* while the onSessionCreated hook was running, nor during a shutdown.     *)
NeverReadyTooLate ==
    [][\A c \in Conns : ready'[c] # ready[c] =>
            session[c] = "joined" /\ ~voxClosed[c] /\ ~shutdown]_vars

(* As long as the session lives, the pending offer is exactly the offer    *)
(* Vox still has to answer: a refused or failed offer does not block the   *)
(* next one, and no second offer overtakes the first.                      *)
OfferSlotMatchesVox ==
    \A c \in Conns : session[c] = "joined" =>
        atVox[c] = IF pendingOfferId[c] = NoOffer THEN <<>>
                   ELSE <<pendingOfferId[c]>>

(* Vox's reply to an offer reaches the browser under that offer's request  *)
(* id, and never for an offer that was answered with gateway.error.        *)
RepliesMatchOffers ==
    \A c \in Conns : \A r \in replies[c] : r[1] = r[2] /\ r[1] \notin errors[c]

(* Vox never receives a candidate without a generation for a negotiation   *)
(* whose offer carried one.                                                *)
GeneratedCandidatesOnly ==
    \A c \in Conns : <<TRUE, "absent">> \notin candidatesAtVox[c]

(* Vox receives rtc.close at most once, although both the browser and the  *)
(* cleanup may send it.                                                    *)
NoDuplicateRtcClose == \A c \in Conns : rtcCloses[c] <= 1

(* What Vox is told after the offer is what the negotiation allows: no     *)
(* candidate that lacks the offer's generation, no second rtc.close.       *)
CommandsToVox == GeneratedCandidatesOnly /\ NoDuplicateRtcClose

(* close() finishes, whatever sessions are being opened or closed.         *)
ShutdownCompletes == (closer = "first") ~> (closer = "done")

(* When the session is gone the browser's socket is closed too.            *)
NoZombieSocket ==
    \A c \in Conns : (session[c] = "left") ~> (ws[c] = "closed")

(* A browser that vanished without a close frame is noticed by the         *)
(* keep-alive and its session is released.                                 *)
DeadPeerReaped ==
    \A c \in Mortals : ~peer[c] ~> (ws[c] = "closed" /\ session[c] # "joined")

(* No socket is left behind, by a session that ended or by a browser that  *)
(* fell silent.                                                            *)
SocketsEnd == NoZombieSocket /\ DeadPeerReaped

(* The gateway implements the contract, and with it that of the shutdown.  *)
Contract == INSTANCE GatewayContract WITH
    stage     <- IF closer = "done" THEN "disconnected"
                 ELSE IF shutdown THEN "draining" ELSE "serving",
    opened    <- {c \in Conns : session[c] # "none"},
    announced <- {c \in Conns : ready[c]},
    closed    <- Released

Drain == INSTANCE DrainContract WITH
    stage    <- IF closer = "done" THEN "disconnected"
                ELSE IF shutdown THEN "draining" ELSE "serving",
    admitted <- {c \in Conns : phase[c] \notin {"idle", "rejected"}},
    opened   <- {c \in Conns : session[c] # "none"},
    closed   <- Released

ContractSpec == Contract!Spec /\ Drain!Spec
=============================================================================
