---------------------------- MODULE BrowserClient ----------------------------
(***************************************************************************)
(* The browser client's connection lifecycle (vox-rtc-client/src/client.ts *)
(* with the socket half of signaling.ts).                                  *)
(*                                                                         *)
(* connect() acquires a gateway socket, a peer connection and a microphone *)
(* across three awaits; disconnect(), a closing gateway, a failing peer,   *)
(* another connect(), restartIce() and replaceMicrophone() may come at     *)
(* each of them.  #connectionAttempt tells a connect() whether it is still *)
(* wanted.                                                                 *)
(*                                                                         *)
(* JavaScript runs to completion and drains its microtasks before the next *)
(* event: an event of the outside happens only when no coroutine can       *)
(* resume (Quiet), a call of the application may come at any time.         *)
(*                                                                         *)
(* #emit calls the application's listeners in the middle of connect().  At *)
(* two places this matters: 'state' is emitted before the signaling client *)
(* is made, and 'session' between the check of the attempt and the making  *)
(* of the peer.  There connect() has a stage of its own ("dialling",       *)
(* "peering") in which nothing runs but the listener.  It may call         *)
(* disconnect(), after which connect() goes on and stores its socket or    *)
(* its peer in a client that is closed.  That a listener calls connect()   *)
(* from inside another connect() is left out.                              *)
(*                                                                         *)
(* Candidates and audio are in BrowserNegotiation and BrowserAudio.        *)
(***************************************************************************)
EXTENDS Naturals

CONSTANTS
    MaxAttempts,     \* bound on the calls of connect()
    MaxReplacements  \* bound on the calls of replaceMicrophone()

ASSUME BrowserAssumption ==
    MaxAttempts \in Nat \ {0} /\ MaxReplacements \in Nat

Attempts == 1..MaxAttempts
None == 0

(* Where a call of connect() can be.                                       *)
Stages == {"idle", "dialling", "signaling", "peering", "gum", "media",
           "resolved", "rejected"}

(* Microphone streams: one per attempt, then one per replacement.          *)
Streams == 1..(MaxAttempts + MaxReplacements)

(* The two coroutines that run #negotiate for the peer of an attempt.      *)
Callers == {"connect", "restart"}

VARIABLES
    status,           \* #status
    calls,            \* calls of connect() so far; the last one's number
    current,          \* #connectionAttempt, None when it is nobody's number
    signaling,        \* the attempt that #signaling belongs to
    peerConnection,   \* the attempt that #peerConnection belongs to
    localStream,      \* #localStream
    mediaWait,        \* the attempt of #mediaConnectionWait
    negotiating,      \* #negotiating
    co,               \* where connect() of the attempt is
    ready,            \* the promise of signaling.connect()
    waited,           \* the promise of #waitForMediaConnection
    neg,              \* where #negotiate is, per attempt and caller
    restarting,       \* attempts whose restartIce() awaits #negotiate, None
                      \* for a restartIce() that found another one running
    replacing,        \* where replaceMicrophone() is, and for which peer
    replacements,     \* calls of replaceMicrophone() so far
    cutShort,         \* history: attempts that a listener ended by calling
                      \* disconnect() from inside connect()
    \* The resources of the browser.
    socket,           \* none, opening, open, closed
    pc,               \* connectionState: none, new, connected, failed, closed
    mic               \* none, live, stopped

fields == <<status, current, signaling, peerConnection, localStream,
            mediaWait, negotiating>>
resources == <<socket, pc, mic>>
tasks == <<co, ready, waited, neg, replacing, restarting>>
vars == <<fields, calls, replacements, cutShort, resources, tasks>>

Init ==
    /\ status = "idle"
    /\ calls = 0 /\ replacements = 0 /\ cutShort = {}
    /\ current = None /\ signaling = None /\ peerConnection = None
    /\ localStream = None /\ mediaWait = None
    /\ negotiating = FALSE
    /\ co = [a \in Attempts |-> "idle"]
    /\ ready = [a \in Attempts |-> "none"]
    /\ waited = [a \in Attempts |-> "none"]
    /\ neg = [n \in Attempts \X Callers |-> "idle"]
    /\ restarting = {}
    /\ replacing = [at |-> "idle", peer |-> None]
    /\ socket = [a \in Attempts |-> "none"]
    /\ pc = [a \in Attempts |-> "none"]
    /\ mic = [s \in Streams |-> "none"]

-----------------------------------------------------------------------------
(* Mutant of Active: the attempt number is not compared.                   *)
ActiveByStatus(a) == status = "connecting"

(* #isActiveConnectionAttempt.                                             *)
Active(a) == current = a /\ status = "connecting"

(* Promise.all([#negotiate, mediaConnected]).                              *)
AllSettled(a) ==
    \/ neg[<<a, "connect">>] = "threw" \/ waited[a] = "err"
    \/ neg[<<a, "connect">>] = "ok" /\ waited[a] = "ok"

(* The connect() calls that are inside a listener.                         *)
Emitting == {a \in Attempts : co[a] \in {"dialling", "peering"}}

(* Nothing is running, and no coroutine can resume: the microtask queue is *)
(* empty.                                                                  *)
Quiet ==
    /\ Emitting = {}
    /\ \A a \in Attempts :
          /\ ~(co[a] = "signaling" /\ ready[a] \in {"ok", "err"})
          /\ ~(co[a] = "media" /\ AllSettled(a))
          /\ ~(a \in restarting /\ neg[<<a, "restart">>] = "threw")
    /\ \A n \in Attempts \X Callers : neg[n] # "failing"
    /\ None \notin restarting

(* The negotiations of attempt a that await an answer are rejected.        *)
RejectPending(a) ==
    [n \in Attempts \X Callers |->
        IF n[1] = a /\ neg[n] = "answering" THEN "failing" ELSE neg[n]]

(* The microphones in S are stopped.                                       *)
Stop(S) == [s \in Streams |-> IF s \in S THEN "stopped" ELSE mic[s]]

(* Mutant of WaitRejected: the wait is dropped without rejecting it.       *)
WaitForgotten == waited

(* #rejectMediaConnectionWait.                                             *)
WaitRejected ==
    [a \in Attempts |-> IF a = mediaWait THEN "err" ELSE waited[a]]

(* The sockets of the attempts in T are closed.                            *)
SocketsClosed(T) ==
    [a \in Attempts |-> IF a \in T THEN "closed" ELSE socket[a]]

(* #cleanup: reject the media wait, close the signaling client (which      *)
(* rejects its pending offer), the peer and the microphone, clear fields.  *)
(* p, M and T: the peer that is closed, the microphones that are stopped   *)
(* and the sockets that are closed, what the caller does itself included.  *)
Cleanup(p, M, T) ==
    /\ waited' = WaitRejected
    /\ neg' = RejectPending(signaling)
    /\ socket' = SocketsClosed(T)
    /\ pc' = [a \in Attempts |-> IF a = p THEN "closed" ELSE pc[a]]
    /\ mic' = Stop(M)
    /\ signaling' = None /\ peerConnection' = None /\ localStream' = None
    /\ mediaWait' = None
    /\ negotiating' = FALSE

(* Every way to end a call: #cleanup, #setStatus("closed"), and, except    *)
(* for rtc.session.closed, a new #connectionAttempt.                       *)
EndWith(p, M, T) == Cleanup(p, M, T) /\ status' = "closed" /\ current' = None
EndCallAfter(S) == EndWith(peerConnection, S \cup {localStream}, {signaling})
EndCall == EndCallAfter({})

(* Mutant of Fail: a superseded connect() cleans up too.                   *)
FailAlways(a, S) == co' = [co EXCEPT ![a] = "rejected"] /\ EndCallAfter(S)

(* connect()'s catch block: clean up unless the attempt was superseded.    *)
Fail(a, S) ==
    /\ co' = [co EXCEPT ![a] = "rejected"]
    /\ \/ current = a /\ EndCallAfter(S)
       \/ /\ current # a
          /\ mic' = Stop(S)
          /\ UNCHANGED <<fields, socket, pc, waited, neg>>

-----------------------------------------------------------------------------
(* connect() up to the listeners of 'state'.                               *)
Connect ==
    /\ Emitting = {}
    /\ calls < MaxAttempts
    /\ status \notin {"connected", "connecting"}
    /\ calls' = calls + 1
    /\ status' = "connecting"
    /\ current' = calls'
    /\ co' = [co EXCEPT ![calls'] = "dialling"]
    /\ UNCHANGED <<signaling, peerConnection, localStream, mediaWait,
                   negotiating, resources, ready, waited, neg, replacing,
                   replacements, restarting, cutShort>>

(* connect() goes on to its first await, whatever the listeners did.       *)
(* Opening the socket may throw.                                           *)
Dial(a) ==
    /\ co[a] = "dialling"
    /\ \/ /\ signaling' = a
          /\ socket' = [socket EXCEPT ![a] = "opening"]
          /\ ready' = [ready EXCEPT ![a] = "pending"]
          /\ co' = [co EXCEPT ![a] = "signaling"]
          /\ UNCHANGED <<status, current, peerConnection, localStream,
                         mediaWait, negotiating, pc, mic, waited, neg>>
       \/ /\ co' = [co EXCEPT ![a] = "rejected"]
          /\ \/ current = a /\ EndWith(peerConnection, {localStream}, {})
             \/ /\ current # a
                /\ signaling' = a
                /\ UNCHANGED <<status, current, peerConnection, localStream,
                               mediaWait, negotiating, resources, waited, neg>>
          /\ UNCHANGED ready
    /\ UNCHANGED <<calls, replacements, cutShort, replacing, restarting>>

(* disconnect().  "disconnecting" lasts only while it runs.                *)
Disconnect ==
    /\ EndCall
    /\ cutShort' = cutShort \cup Emitting
    /\ UNCHANGED <<calls, replacements, co, ready, replacing, restarting>>

(* The socket opens and gateway.ready arrives.  Events queued before it    *)
(* are replayed at once, and one may be rtc.session.closed.                *)
GatewayReady(a) ==
    /\ Quiet
    /\ socket[a] = "opening" /\ ready[a] = "pending"
    /\ ready' = [ready EXCEPT ![a] = "ok"]
    /\ \/ /\ socket' = [socket EXCEPT ![a] = "open"]
          /\ UNCHANGED <<fields, pc, mic, waited, neg>>
       \/ /\ signaling = a /\ status # "closed"
          /\ Cleanup(peerConnection, {localStream}, {a})
          /\ status' = "closed" /\ UNCHANGED current
    /\ UNCHANGED <<calls, replacements, cutShort, co, replacing, restarting>>

(* gateway.error, an invalid ready event, a socket error, or the timer:    *)
(* the last also when close() was called while the promise was pending.    *)
SignalingFails(a) ==
    /\ Quiet
    /\ ready[a] = "pending"
    /\ ready' = [ready EXCEPT ![a] = "err"]
    /\ UNCHANGED <<fields, calls, replacements, cutShort, resources, co,
                   waited, neg, replacing, restarting>>

(* The gateway's socket closes or breaks the protocol:                     *)
(* #handleUnexpectedSignalingClose, which does not ask whose socket it is. *)
GatewayCloses(a) ==
    /\ Quiet
    /\ socket[a] \in {"opening", "open"}
    /\ ready' = [ready EXCEPT ![a] = IF @ = "pending" THEN "err" ELSE @]
    /\ \/ /\ status \notin {"idle", "closed"}
          /\ EndWith(peerConnection, {localStream}, {signaling, a})
       \/ /\ status \in {"idle", "closed"}
          /\ socket' = SocketsClosed({a})
          /\ UNCHANGED <<fields, pc, mic, waited, neg>>
    /\ UNCHANGED <<calls, replacements, cutShort, co, replacing, restarting>>

(* rtc.session.closed: the attempt number is not touched.                  *)
SessionClosed(a) ==
    /\ Quiet
    /\ socket[a] = "open" /\ status # "closed"
    /\ Cleanup(peerConnection, {localStream}, {signaling})
    /\ status' = "closed"
    /\ UNCHANGED <<current, calls, replacements, cutShort, co, ready,
                   replacing, restarting>>

(* #waitForMediaConnection and #negotiate up to their awaits, then         *)
(* Promise.all.  #negotiate throws when another negotiation is running, or *)
(* when a listener has taken the signaling client away.                    *)
StartMedia(a) ==
    /\ mediaWait = None
    /\ mediaWait' = a
    /\ waited' = [waited EXCEPT ![a] = "pending"]
    /\ \/ /\ negotiating \/ signaling = None
          /\ neg' = [neg EXCEPT ![<<a, "connect">>] = "threw"]
          /\ UNCHANGED negotiating
       \/ /\ ~negotiating /\ signaling # None
          /\ neg' = [neg EXCEPT ![<<a, "connect">>] = "offering"]
          /\ negotiating' = TRUE
    /\ co' = [co EXCEPT ![a] = "media"]

(* connect() resumes with the session, up to the listeners of 'session';   *)
(* or it throws.                                                           *)
ResumeSignaling(a) ==
    /\ Emitting = {}
    /\ co[a] = "signaling" /\ ready[a] \in {"ok", "err"}
    /\ \/ /\ ready[a] = "ok" /\ Active(a)
          /\ co' = [co EXCEPT ![a] = "peering"]
          /\ UNCHANGED <<fields, resources, waited, neg>>
       \/ /\ ~(ready[a] = "ok" /\ Active(a))
          /\ Fail(a, {})
    /\ UNCHANGED <<calls, replacements, cutShort, ready, replacing,
                   restarting>>

(* connect() goes on and makes the peer connection, whatever the listeners *)
(* did; the factory may throw.  It may be configured without a microphone, *)
(* and then throws when it finds the media wait of an attempt cut short.   *)
MakePeer(a) ==
    /\ co[a] = "peering"
    /\ \/ /\ peerConnection' = a
          /\ pc' = [pc EXCEPT ![a] = "new"]
          /\ \/ /\ co' = [co EXCEPT ![a] = "gum"]
                /\ UNCHANGED <<mediaWait, negotiating, waited, neg>>
             \/ StartMedia(a)
          /\ UNCHANGED <<status, current, signaling, localStream, socket, mic>>
       \/ /\ mediaWait # None /\ current = a
          /\ co' = [co EXCEPT ![a] = "rejected"]
          /\ EndWith(a, {localStream}, {signaling})
       \/ Fail(a, {})
    /\ UNCHANGED <<calls, replacements, cutShort, ready, replacing,
                   restarting>>

(* Mutant of MicrophoneGranted: an unwanted microphone is not stopped.     *)
MicrophoneGrantedKept(a) ==
    /\ Quiet /\ co[a] = "gum"
    /\ mic' = [mic EXCEPT ![a] = "live"]
    /\ \/ /\ Active(a)
          /\ localStream' = a
          /\ StartMedia(a)
          /\ UNCHANGED <<status, current, signaling, peerConnection, socket,
                         pc>>
       \/ /\ ~Active(a)
          /\ co' = [co EXCEPT ![a] = "rejected"]
          /\ UNCHANGED <<fields, socket, pc, waited, neg>>
    /\ UNCHANGED <<calls, replacements, cutShort, ready, replacing,
                   restarting>>

(* getUserMedia resolves: use the microphone, or stop it and throw.  It    *)
(* throws too when it finds the media wait of an attempt cut short.        *)
MicrophoneGranted(a) ==
    /\ Quiet /\ co[a] = "gum"
    /\ \/ /\ Active(a)
          /\ mic' = [mic EXCEPT ![a] = "live"]
          /\ localStream' = a
          /\ StartMedia(a)
          /\ UNCHANGED <<status, current, signaling, peerConnection, socket,
                         pc>>
       \/ /\ Active(a) /\ mediaWait # None
          /\ co' = [co EXCEPT ![a] = "rejected"]
          /\ EndWith(peerConnection, {a}, {signaling})
       \/ ~Active(a) /\ Fail(a, {a})
    /\ UNCHANGED <<calls, replacements, cutShort, ready, replacing,
                   restarting>>

(* getUserMedia rejects.                                                   *)
MicrophoneRefused(a) ==
    /\ Quiet /\ co[a] = "gum"
    /\ Fail(a, {})
    /\ UNCHANGED <<calls, replacements, cutShort, ready, replacing,
                   restarting>>

(* Promise.all settles and connect() resumes.                              *)
ResumeMedia(a) ==
    /\ Emitting = {}
    /\ co[a] = "media" /\ AllSettled(a)
    /\ \/ /\ neg[<<a, "connect">>] = "ok" /\ waited[a] = "ok" /\ Active(a)
          /\ status' = "connected"
          /\ co' = [co EXCEPT ![a] = "resolved"]
          /\ UNCHANGED <<current, signaling, peerConnection, localStream,
                         mediaWait, negotiating, resources, waited, neg>>
       \/ /\ ~(neg[<<a, "connect">>] = "ok" /\ waited[a] = "ok" /\ Active(a))
          /\ Fail(a, {})
    /\ UNCHANGED <<calls, replacements, cutShort, ready, replacing,
                   restarting>>

-----------------------------------------------------------------------------
(* #negotiate moves on.  A promise of a closed peer never settles.         *)
NegMoves(n, from, to) ==
    /\ Quiet
    /\ neg[n] = from /\ pc[n[1]] # "closed"
    /\ neg' = [neg EXCEPT ![n] = to]
    /\ UNCHANGED <<status, current, signaling, peerConnection, localStream,
                   mediaWait, calls, replacements, cutShort, resources, co,
                   ready, waited, replacing, restarting>>

(* createOffer and setLocalDescription: the offer is sent, or something    *)
(* rejects.                                                                *)
NegOffers(n) ==
    /\ \/ socket[n[1]] = "open" /\ NegMoves(n, "offering", "answering")
       \/ NegMoves(n, "offering", "failing")
    /\ UNCHANGED negotiating

(* The answer arrives, or an error reply, or the offer's timer fires.      *)
NegAnswered(n) ==
    /\ \/ NegMoves(n, "answering", "applying")
       \/ NegMoves(n, "answering", "failing")
    /\ UNCHANGED negotiating

(* setRemoteDescription and the buffered candidates: done, or rejected.    *)
NegApplied(n) ==
    \/ NegMoves(n, "applying", "ok") /\ negotiating' = FALSE
    \/ NegMoves(n, "applying", "failing") /\ UNCHANGED negotiating

(* A rejected #negotiate runs its finally block.                           *)
NegFinally(n) ==
    /\ Emitting = {}
    /\ neg[n] = "failing"
    /\ neg' = [neg EXCEPT ![n] = "threw"]
    /\ negotiating' = FALSE
    /\ UNCHANGED <<status, current, signaling, peerConnection, localStream,
                   mediaWait, calls, replacements, cutShort, resources, co,
                   ready, waited, replacing, restarting>>

(* restartIce(): a second negotiation; #negotiate throws while one is      *)
(* running.                                                                *)
RestartIce(a) ==
    /\ status = "connected" /\ peerConnection = a /\ signaling # None
    /\ \/ /\ ~negotiating /\ neg[<<a, "restart">>] \in {"idle", "ok"}
          /\ restarting' = restarting \cup {a}
          /\ neg' = [neg EXCEPT ![<<a, "restart">>] = "offering"]
          /\ negotiating' = TRUE
       \/ /\ negotiating
          /\ restarting' = restarting \cup {None}
          /\ UNCHANGED <<neg, negotiating>>
    /\ UNCHANGED <<status, current, signaling, peerConnection, localStream,
                   mediaWait, resources, waited, calls, replacements, cutShort,
                   co, ready, replacing>>

(* restartIce()'s catch block: disconnect(), whatever is connected now.    *)
RestartFails(a) ==
    /\ Emitting = {}
    /\ a \in restarting /\ (a # None => neg[<<a, "restart">>] = "threw")
    /\ restarting' = restarting \ {a}
    /\ EndCall
    /\ UNCHANGED <<calls, replacements, cutShort, co, ready, replacing>>

-----------------------------------------------------------------------------
(* The peer reports "connected": #resolveMediaConnectionWait.              *)
PeerConnects(a) ==
    /\ Quiet
    /\ pc[a] = "new" /\ neg[<<a, "connect">>] \in {"applying", "ok"}
    /\ pc' = [pc EXCEPT ![a] = "connected"]
    /\ \/ /\ mediaWait = a /\ current = a
          /\ mediaWait' = None
          /\ waited' = [waited EXCEPT ![a] = "ok"]
       \/ ~(mediaWait = a /\ current = a) /\ UNCHANGED <<mediaWait, waited>>
    /\ UNCHANGED <<status, current, signaling, peerConnection, localStream,
                   negotiating, calls, replacements, cutShort, socket, mic, co,
                   ready, neg, replacing, restarting>>

(* The peer reports "failed": while connecting the wait is rejected, once  *)
(* connected the call ends.                                                *)
PeerFails(a) ==
    /\ Quiet
    /\ pc[a] \in {"new", "connected"}
    /\ neg[<<a, "connect">>] \in {"applying", "ok"}
    /\ \/ /\ status = "connecting"
          /\ pc' = [pc EXCEPT ![a] = "failed"]
          /\ waited' = WaitRejected /\ mediaWait' = None
          /\ UNCHANGED <<status, current, signaling, peerConnection,
                         localStream, negotiating, socket, mic, neg>>
       \/ status = "connected" /\ EndCall
    /\ UNCHANGED <<calls, replacements, cutShort, co, ready, replacing,
                   restarting>>

(* mediaConnectionTimeoutMs elapses.                                       *)
MediaTimeout ==
    /\ Quiet
    /\ mediaWait # None
    /\ waited' = WaitRejected /\ mediaWait' = None
    /\ UNCHANGED <<status, current, signaling, peerConnection, localStream,
                   negotiating, calls, replacements, cutShort, resources, co,
                   ready, neg, replacing, restarting>>

-----------------------------------------------------------------------------
(* The stream of the running replaceMicrophone().                          *)
NextStream == MaxAttempts + replacements

(* replaceMicrophone() up to getUserMedia.                                 *)
ReplaceMicrophone ==
    /\ replacing.at = "idle" /\ replacements < MaxReplacements
    /\ peerConnection # None
    /\ replacing' = [at |-> "gum", peer |-> None]
    /\ replacements' = replacements + 1
    /\ UNCHANGED <<fields, calls, cutShort, resources, co, ready, waited, neg,
                   restarting>>

(* The old microphone is stopped and the new one takes its place.          *)
SwapMicrophone ==
    /\ mic' = [Stop({localStream}) EXCEPT ![NextStream] = "live"]
    /\ localStream' = NextStream
    /\ replacing' = [at |-> "idle", peer |-> None]

(* getUserMedia resolves: replace the sender's track, or add one.  Without *)
(* a peer connection this throws.  Or getUserMedia rejects.                *)
ReplacementGranted ==
    /\ Quiet /\ replacing.at = "gum"
    /\ \/ /\ peerConnection # None
          /\ \/ SwapMicrophone
             \/ /\ mic' = [mic EXCEPT ![NextStream] = "live"]
                /\ replacing' = [at |-> "sender", peer |-> peerConnection]
                /\ UNCHANGED localStream
       \/ /\ peerConnection = None
          /\ mic' = [mic EXCEPT ![NextStream] = "live"]
          /\ replacing' = [at |-> "idle", peer |-> None]
          /\ UNCHANGED localStream
       \/ /\ replacing' = [at |-> "idle", peer |-> None]
          /\ UNCHANGED <<mic, localStream>>
    /\ UNCHANGED <<status, current, signaling, peerConnection, mediaWait,
                   negotiating, calls, replacements, cutShort, socket, pc, co,
                   ready, waited, neg, restarting>>

(* replaceTrack settles, unless its peer was closed; or it rejects.        *)
ReplacementSent ==
    /\ Quiet /\ replacing.at = "sender" /\ pc[replacing.peer] # "closed"
    /\ \/ SwapMicrophone
       \/ /\ replacing' = [at |-> "idle", peer |-> None]
          /\ UNCHANGED <<mic, localStream>>
    /\ UNCHANGED <<status, current, signaling, peerConnection, mediaWait,
                   negotiating, calls, replacements, cutShort, socket, pc, co,
                   ready, waited, neg, restarting>>

-----------------------------------------------------------------------------
Gateway(a) ==
    \/ GatewayReady(a) \/ SignalingFails(a) \/ GatewayCloses(a)
    \/ SessionClosed(a)

Peer(a) == PeerConnects(a) \/ PeerFails(a)

Resume(a) ==
    \/ Dial(a) \/ ResumeSignaling(a) \/ MakePeer(a) \/ ResumeMedia(a)
    \/ MicrophoneGranted(a) \/ MicrophoneRefused(a)

Negotiate(n) ==
    NegOffers(n) \/ NegAnswered(n) \/ NegApplied(n) \/ NegFinally(n)

Replace == ReplaceMicrophone \/ ReplacementGranted \/ ReplacementSent

Next ==
    \/ Connect \/ Disconnect \/ MediaTimeout \/ Replace
    \/ \E a \in Attempts :
          Gateway(a) \/ Peer(a) \/ Resume(a) \/ RestartIce(a)
    \/ \E a \in Attempts \cup {None} : RestartFails(a)
    \/ \E n \in Attempts \X Callers : Negotiate(n)

Spec == Init /\ [][Next]_vars

(* Fairness: microtasks run, timers fire (the signaling timer ends a       *)
(* pending connect, the offer's timer a pending offer, the media timer the *)
(* wait), the operations of a live peer settle, and the user answers the   *)
(* microphone prompt.                                                      *)
Fairness ==
    /\ \A a \in Attempts : WF_vars(SignalingFails(a)) /\ WF_vars(Resume(a))
    /\ \A a \in Attempts \cup {None} : WF_vars(RestartFails(a))
    /\ \A n \in Attempts \X Callers :
          /\ WF_vars(NegOffers(n)) /\ WF_vars(NegAnswered(n))
          /\ WF_vars(NegApplied(n)) /\ WF_vars(NegFinally(n))
    /\ WF_vars(MediaTimeout)

FairSpec == Spec /\ Fairness

-----------------------------------------------------------------------------
TypeOK ==
    /\ status \in {"idle", "connecting", "connected", "closed"}
    /\ calls \in 0..MaxAttempts /\ replacements \in 0..MaxReplacements
    /\ {current, signaling, peerConnection, mediaWait}
          \subseteq Attempts \cup {None}
    /\ localStream \in Streams \cup {None}
    /\ negotiating \in BOOLEAN
    /\ cutShort \subseteq Attempts
    /\ co \in [Attempts -> Stages]
    /\ ready \in [Attempts -> {"none", "pending", "ok", "err"}]
    /\ waited \in [Attempts -> {"none", "pending", "ok", "err"}]
    /\ neg \in [Attempts \X Callers -> {"idle", "offering", "answering",
                                        "applying", "ok", "failing", "threw"}]
    /\ restarting \subseteq Attempts \cup {None}
    /\ replacing \in [at : {"idle", "gum", "sender"},
                      peer : Attempts \cup {None}]
    /\ socket \in [Attempts -> {"none", "opening", "open", "closed"}]
    /\ pc \in [Attempts -> {"none", "new", "connected", "failed", "closed"}]
    /\ mic \in [Streams -> {"none", "live", "stopped"}]

(* What an attempt that a listener cut short left in a field, or nothing.  *)
Leftover(x) == x \in cutShort \cup {None}

(* Every live gateway socket and peer connection is the one the client's   *)
(* fields name, and a client that is idle or closed names none: no attempt *)
(* leaves a socket or a peer behind, however it ended.  The exception are  *)
(* the attempts that a listener ended from inside connect().               *)
NothingLeaks ==
    /\ \A a \in Attempts \ cutShort :
          /\ socket[a] \in {"opening", "open"} => signaling = a
          /\ pc[a] \in {"new", "connected", "failed"} => peerConnection = a
    /\ status \in {"idle", "closed"} =>
          Leftover(signaling) /\ Leftover(peerConnection)

(* However the prompt, the end of the call and replacements interleave, no *)
(* microphone that was granted to a connect() is live in a closed client,  *)
(* not even to one that a listener cut short.                              *)
MicrophoneReleased ==
    status = "closed" => \A a \in Attempts : mic[a] # "live"

(* Whatever an attempt acquired is released with it.                       *)
ResourcesReleased == NothingLeaks /\ MicrophoneReleased

(* "connect() rejects and releases the microphone": the same for the       *)
(* microphones granted to replaceMicrophone(), where no listener has cut   *)
(* an attempt short.                                                       *)
EveryMicrophoneReleased ==
    status = "closed" /\ cutShort = {} => \A s \in Streams : mic[s] # "live"

(* The fields are never a mix of two attempts, but for what an attempt cut *)
(* short left in them, and a connected client has all of its attempt: the  *)
(* open socket, the peer, the returned connect().                          *)
OneAttemptAtATime ==
    /\ Leftover(peerConnection) \/ peerConnection = signaling
    /\ Leftover(mediaWait) \/ mediaWait = peerConnection
    /\ status = "connecting" /\ co[current] # "dialling" => signaling = current
    /\ status = "connected" =>
          /\ peerConnection = current /\ signaling = current
          /\ socket[current] = "open" /\ co[current] = "resolved"

(* A connect() that was superseded changes nothing when it resumes: not    *)
(* the status, nor any field, nor the resources of the newer attempt.      *)
StaleConnectIsHarmless ==
    [][\A a \in Attempts :
          current # a /\ co[a] \notin {"idle", "dialling", "rejected"}
             /\ co'[a] = "rejected"
          => UNCHANGED <<fields, socket, pc>>]_vars

(* An attempt that is about to negotiate finds neither a negotiation flag  *)
(* nor a media wait that an earlier attempt left (the wait may be that of  *)
(* one cut short), both of which would make it fail; and the flag is set   *)
(* exactly while its peer is negotiating.                                  *)
NegotiationFlagExact ==
    /\ \A a \in Attempts :
          Active(a) /\ co[a] \in {"signaling", "peering", "gum"} =>
             Leftover(mediaWait) /\ ~negotiating
    /\ Quiet =>
          (negotiating <=>
             \E n \in Attempts \X Callers :
                /\ neg[n] \in {"offering", "answering", "applying"}
                /\ n[1] = peerConnection)

(* Attempts do not see each other: neither in the fields that hold their   *)
(* resources nor in the flags of their negotiations.                       *)
AttemptsSeparate == OneAttemptAtATime /\ NegotiationFlagExact

(* connect() settles, whatever overtakes it, at the latest when the media  *)
(* wait ends.  Only a call that is ended after its media had connected,    *)
(* while #negotiate still awaits the peer, is exempt: then the promise of  *)
(* the closed peer keeps Promise.all, and so connect(), pending.           *)
ConnectSettlesUnlessCutOff ==
    \A a \in Attempts :
        (co[a] = "dialling") ~>  \/ co[a] \in {"resolved", "rejected"}
                                 \/ waited[a] = "ok" /\ pc[a] = "closed"
=============================================================================
