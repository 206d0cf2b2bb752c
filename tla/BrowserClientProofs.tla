-------------------------- MODULE BrowserClientProofs --------------------------
(***************************************************************************)
(* TLAPS proofs about BrowserClient: for any number of connect() calls and *)
(* of microphone replacements.                                             *)
(***************************************************************************)
EXTENDS BrowserClient, TLAPS

(* Where an attempt has been: a call not yet made has done nothing, there  *)
(* is a peer connection once the listeners of 'session' have returned, and *)
(* no negotiation before that.                                             *)
StageOf(a) ==
    /\ a > calls => co[a] = "idle"
    /\ co[a] \in {"idle", "dialling", "signaling", "peering"} => pc[a] = "none"
    /\ co[a] \in {"idle", "dialling"} => ready[a] = "none"
    /\ co[a] = "gum" => pc[a] # "none"
    /\ \A r \in Callers : neg[<<a, r>>] # "idle" =>
          /\ co[a] \notin {"idle", "dialling", "signaling", "peering", "gum"}
          /\ pc[a] # "none"

(* What the attempt that is being connected has, stage by stage.           *)
ConnectingOf(a) ==
    /\ co[a] \in {"dialling", "signaling", "peering", "gum", "media"}
    /\ co[a] = "dialling" => Leftover(signaling)
    /\ co[a] # "dialling" => signaling = a
    /\ co[a] \in {"dialling", "signaling", "peering"} => Leftover(peerConnection)
    /\ co[a] = "peering" => ready[a] = "ok"
    /\ co[a] \in {"peering", "gum", "media"} => socket[a] = "open"
    /\ co[a] \in {"gum", "media"} => peerConnection = a
    /\ co[a] # "media" =>
          Leftover(mediaWait) /\ ~negotiating /\ localStream \notin Attempts

(* The fields of the client and the resources they name.                   *)
FieldInv ==
    /\ NothingLeaks /\ OneAttemptAtATime
    /\ status \in {"connecting", "connected"} => current \in Attempts
    /\ status = "connecting" => ConnectingOf(current)
    /\ ~Leftover(signaling) /\ ready[signaling] = "ok" =>
          socket[signaling] = "open"
    /\ peerConnection # None => pc[peerConnection] # "none"
    /\ status \in {"idle", "closed"} =>
          Leftover(mediaWait) /\ ~negotiating /\ localStream \notin Attempts

(* While connect() is inside a listener it is the only one that is, and it *)
(* is the present attempt, unless the listener has called disconnect().    *)
EmitInv ==
    \A a \in Emitting :
        /\ Emitting = {a}
        /\ \/ a \notin cutShort /\ current = a /\ status = "connecting"
           \/ /\ a \in cutShort /\ current = None /\ status = "closed"
              /\ signaling = None /\ peerConnection = None /\ mediaWait = None

(* A microphone granted to a connect() is live only as #localStream.       *)
MicInv ==
    /\ \A a \in Attempts : mic[a] = "live" => localStream = a
    /\ replacing.at # "idle" => replacements > 0

Busy == {"offering", "answering", "applying", "failing"}

(* A peer connection has at most one negotiation, which owns the flag.     *)
FlagInv ==
    /\ negotiating <=> \E n \in Attempts \X Callers :
                          neg[n] \in Busy /\ n[1] = peerConnection
    /\ \A n, m \in Attempts \X Callers :
          /\ neg[n] \in Busy /\ n[1] = peerConnection
          /\ neg[m] \in Busy /\ m[1] = peerConnection
          => n = m

(* The attempt has its session, or more.                                   *)
HasSession ==
    \/ status = "connected"
    \/ /\ status = "connecting"
       /\ co[current] \in {"gum", "media"} \/ ready[current] = "ok"

(* The finally block of a negotiation of an earlier attempt runs before    *)
(* the present one has a session: it cannot clear the present one's flag.  *)
FinallyInv ==
    HasSession => \A n \in Attempts \X Callers :
                     neg[n] = "failing" => n[1] = peerConnection

(* An attempt that was cut short is over: it is never the present one      *)
(* again, and it never negotiates.                                         *)
CutInv ==
    \A a \in cutShort :
        /\ co[a] # "idle" /\ current # a
        /\ \A r \in Callers : neg[<<a, r>>] \notin Busy

StageInv == \A a \in Attempts : StageOf(a)

ClientInv ==
    /\ StageInv /\ FieldInv /\ EmitInv /\ MicInv
    /\ FlagInv /\ FinallyInv /\ CutInv

-----------------------------------------------------------------------------
(* The type invariant.                                                     *)

(* Lemma: #cleanup keeps the types.                                        *)
LEMMA CleanupTypes ==
    ASSUME TypeOK, NEW p, NEW M, NEW T, Cleanup(p, M, T)
    PROVE  /\ {signaling', peerConnection', mediaWait'} \subseteq Attempts \cup {None}
           /\ localStream' \in Streams \cup {None} /\ negotiating' \in BOOLEAN
           /\ waited' \in [Attempts -> {"none", "pending", "ok", "err"}]
           /\ neg' \in [Attempts \X Callers -> {"idle", "offering", "answering",
                                        "applying", "ok", "failing", "threw"}]
           /\ socket' \in [Attempts -> {"none", "opening", "open", "closed"}]
           /\ pc' \in [Attempts -> {"none", "new", "connected", "failed",
                                    "closed"}]
           /\ mic' \in [Streams -> {"none", "live", "stopped"}]
<1>1. neg' \in [Attempts \X Callers -> {"idle", "offering", "answering",
                                        "applying", "ok", "failing", "threw"}]
  BY DEF Cleanup, RejectPending, TypeOK
<1>2. mic' \in [Streams -> {"none", "live", "stopped"}]
  BY DEF Cleanup, Stop, TypeOK
<1>3. /\ waited' \in [Attempts -> {"none", "pending", "ok", "err"}]
      /\ socket' \in [Attempts -> {"none", "opening", "open", "closed"}]
      /\ pc' \in [Attempts -> {"none", "new", "connected", "failed", "closed"}]
  BY DEF Cleanup, WaitRejected, SocketsClosed, TypeOK
<1> QED
  BY <1>1, <1>2, <1>3 DEF Cleanup

(* Lemma: the end of a call keeps the types.                               *)
LEMMA EndTypes ==
    ASSUME TypeOK, NEW p, NEW M, NEW T, Cleanup(p, M, T), status' = "closed",
           current' \in {current, None}, cutShort' \subseteq Attempts,
           calls' = calls, replacements' = replacements,
           co' \in [Attempts -> Stages],
           ready' \in [Attempts -> {"none", "pending", "ok", "err"}],
           restarting' \subseteq Attempts \cup {None}, replacing' = replacing
    PROVE  TypeOK'
BY CleanupTypes DEF TypeOK

(* Lemma: connect()'s catch block keeps the types.                         *)
LEMMA FailTypes ==
    ASSUME TypeOK, NEW a \in Attempts, NEW S, Fail(a, S),
           UNCHANGED <<calls, replacements, cutShort, ready, replacing, restarting>>
    PROVE  TypeOK'
<1>1. co' \in [Attempts -> Stages]
  BY DEF Fail, TypeOK, Stages
<1>2. CASE EndCallAfter(S)
  BY <1>1, <1>2, EndTypes DEF EndCallAfter, EndWith, TypeOK
<1>3. CASE mic' = Stop(S) /\ UNCHANGED <<fields, socket, pc, waited, neg>>
  <2>1. mic' \in [Streams -> {"none", "live", "stopped"}]
    BY <1>3 DEF Stop, TypeOK
  <2> QED
    BY <1>1, <1>3, <2>1 DEF TypeOK, fields
<1> QED
  BY <1>2, <1>3 DEF Fail

(* Lemma: the calls of the application and the end of the call.            *)
LEMMA CallTypes ==
    ASSUME TypeOK, \/ Connect \/ Disconnect
                   \/ \E a \in Attempts : RestartIce(a)
                   \/ \E a \in Attempts \cup {None} : RestartFails(a)
    PROVE  TypeOK'
<1> USE BrowserAssumption DEF BrowserAssumption
<1>1. CASE Connect
  <2>1. calls' = calls + 1 /\ calls' \in Attempts /\ calls' \in 0..MaxAttempts
    BY <1>1 DEF Connect, Attempts, TypeOK
  <2>2. co' \in [Attempts -> Stages]
    BY <1>1, <2>1 DEF Connect, TypeOK, Stages
  <2>3. /\ UNCHANGED <<signaling, peerConnection, localStream, mediaWait,
                       negotiating, resources, ready, waited, neg, replacing,
                       replacements, restarting, cutShort>>
        /\ current' = calls' /\ status' = "connecting"
    BY <1>1 DEF Connect
  <2> QED
    BY <2>1, <2>2, <2>3 DEF TypeOK, resources
<1>2. CASE Disconnect
  <2>1. cutShort' \subseteq Attempts
    BY <1>2 DEF Disconnect, Emitting, TypeOK
  <2> QED
    BY <1>2, <2>1, EndTypes DEF Disconnect, EndCall, EndCallAfter, EndWith, TypeOK
<1>3. ASSUME NEW a \in Attempts, RestartIce(a) PROVE TypeOK'
  <2>1. <<a, "restart">> \in Attempts \X Callers
    BY DEF Callers
  <2>2. /\ neg' = neg \/ neg' = [neg EXCEPT ![<<a, "restart">>] = "offering"]
        /\ restarting' \subseteq Attempts \cup {None}
        /\ negotiating' \in BOOLEAN
        /\ UNCHANGED <<status, current, signaling, peerConnection, localStream,
                       mediaWait, resources, waited, calls, replacements,
                       cutShort, co, ready, replacing>>
    BY <1>3 DEF RestartIce, TypeOK
  <2>3. neg' \in [Attempts \X Callers -> {"idle", "offering", "answering",
                                          "applying", "ok", "failing", "threw"}]
    BY <2>1, <2>2 DEF TypeOK
  <2> QED
    BY <2>2, <2>3 DEF TypeOK, resources
<1>4. ASSUME NEW a \in Attempts \cup {None}, RestartFails(a) PROVE TypeOK'
  <2>1. /\ EndWith(peerConnection, {} \cup {localStream}, {signaling})
        /\ UNCHANGED <<calls, replacements, cutShort, co, ready, replacing>>
        /\ restarting' \subseteq Attempts \cup {None}
    BY <1>4 DEF RestartFails, EndCall, EndCallAfter, TypeOK
  <2> QED
    BY <2>1, EndTypes DEF TypeOK, EndWith
<1> QED
  BY <1>1, <1>2, <1>3, <1>4

(* Lemma: the events of the gateway and of the peer.                       *)
LEMMA EventTypes ==
    ASSUME TypeOK, NEW a \in Attempts, Gateway(a) \/ Peer(a)
    PROVE  TypeOK'
<1>1. ASSUME Gateway(a)
      PROVE  ready' \in [Attempts -> {"none", "pending", "ok", "err"}]
  BY <1>1 DEF Gateway, GatewayReady, SignalingFails, GatewayCloses,
              SessionClosed, TypeOK
<1>2. ASSUME NEW p, NEW M, NEW T, Gateway(a), Cleanup(p, M, T), status' = "closed",
             current' \in {current, None},
             UNCHANGED <<calls, replacements, cutShort, co, replacing, restarting>>
      PROVE  TypeOK'
  BY <1>1, <1>2, EndTypes DEF TypeOK
<1>3. CASE GatewayReady(a) /\ status' = "closed"
           /\ Cleanup(peerConnection, {localStream}, {a}) /\ UNCHANGED current
  BY <1>2, <1>3 DEF GatewayReady, Gateway
<1>4. CASE \/ GatewayReady(a)
           \/ GatewayCloses(a) /\ UNCHANGED <<fields, pc, mic, waited, neg>>
  <2>1. CASE GatewayReady(a) /\ UNCHANGED <<fields, pc, mic, waited, neg>>
    <3>1. /\ \/ socket' = [socket EXCEPT ![a] = "open"]
             \/ socket' = SocketsClosed({a})
          /\ UNCHANGED <<calls, replacements, cutShort, co, replacing, restarting>>
      BY <2>1 DEF GatewayReady, Cleanup
    <3>2. socket' \in [Attempts -> {"none", "opening", "open", "closed"}]
      BY <3>1 DEF TypeOK, SocketsClosed
    <3> QED
      BY <1>1, <2>1, <3>1, <3>2 DEF Gateway, TypeOK, fields
  <2>2. CASE GatewayCloses(a) /\ UNCHANGED <<fields, pc, mic, waited, neg>>
    <3>1. /\ \E T : socket' = SocketsClosed(T)
          /\ UNCHANGED <<calls, replacements, cutShort, co, replacing, restarting>>
      BY <2>2 DEF GatewayCloses, EndWith, Cleanup
    <3>2. socket' \in [Attempts -> {"none", "opening", "open", "closed"}]
      BY <3>1 DEF TypeOK, SocketsClosed
    <3> QED
      BY <1>1, <2>2, <3>1, <3>2 DEF Gateway, TypeOK, fields
  <2>3. CASE GatewayReady(a) /\ ~UNCHANGED <<fields, pc, mic, waited, neg>>
    BY <1>3, <2>3 DEF GatewayReady
  <2> QED
    BY <1>4, <2>1, <2>2, <2>3
<1>5. CASE SignalingFails(a)
  BY <1>1, <1>5 DEF SignalingFails, Gateway, TypeOK, fields, resources
<1>6. CASE GatewayCloses(a) /\ EndWith(peerConnection, {localStream}, {signaling, a})
  BY <1>2, <1>6 DEF GatewayCloses, EndWith, Gateway
<1>7. CASE SessionClosed(a)
  BY <1>2, <1>7 DEF SessionClosed, Gateway
<1>8. CASE PeerConnects(a)
  <2>1. /\ pc' \in [Attempts -> {"none", "new", "connected", "failed", "closed"}]
        /\ waited' \in [Attempts -> {"none", "pending", "ok", "err"}]
        /\ mediaWait' \in Attempts \cup {None}
    BY <1>8 DEF PeerConnects, TypeOK
  <2> QED
    BY <1>8, <2>1 DEF PeerConnects, TypeOK
<1>9. CASE PeerFails(a) /\ EndCall
  BY <1>9, EndTypes DEF PeerFails, EndCall, EndCallAfter, EndWith, TypeOK
<1>10. CASE PeerFails(a) /\ ~EndCall
  <2>1. /\ pc' \in [Attempts -> {"none", "new", "connected", "failed", "closed"}]
        /\ waited' \in [Attempts -> {"none", "pending", "ok", "err"}]
        /\ mediaWait' = None
        /\ UNCHANGED <<status, current, signaling, peerConnection, localStream,
                       negotiating, socket, mic, neg, calls, replacements,
                       cutShort, co, ready, replacing, restarting>>
    BY <1>10 DEF PeerFails, WaitRejected, TypeOK
  <2> QED
    BY <2>1 DEF TypeOK
<1> QED
  BY <1>3, <1>4, <1>5, <1>6, <1>7, <1>8, <1>9, <1>10
     DEF Gateway, GatewayCloses, Peer

(* Lemma: what the start of the media leaves is of its types.              *)
LEMMA MediaTypes ==
    ASSUME TypeOK, NEW a \in Attempts, StartMedia(a)
    PROVE  /\ mediaWait' \in Attempts \cup {None} /\ negotiating' \in BOOLEAN
           /\ waited' \in [Attempts -> {"none", "pending", "ok", "err"}]
           /\ neg' \in [Attempts \X Callers -> {"idle", "offering",
                    "answering", "applying", "ok", "failing", "threw"}]
           /\ co' \in [Attempts -> Stages]
<1>1. <<a, "connect">> \in Attempts \X Callers
  BY DEF Callers
<1>2. neg' \in [Attempts \X Callers -> {"idle", "offering", "answering",
                                        "applying", "ok", "failing", "threw"}]
  BY <1>1 DEF StartMedia, TypeOK
<1> QED
  BY <1>2 DEF StartMedia, TypeOK, Stages

(* Lemma: connect() goes on or resumes.                                    *)
LEMMA ResumeTypes ==
    ASSUME TypeOK, NEW a \in Attempts, Resume(a)
    PROVE  TypeOK'
<1>1. ASSUME Fail(a, {}) \/ Fail(a, {a}),
             UNCHANGED <<calls, replacements, cutShort, ready, replacing, restarting>>
      PROVE  TypeOK'
  BY <1>1, FailTypes
<1>2. ASSUME NEW p, NEW M, NEW T, EndWith(p, M, T),
             co' = [co EXCEPT ![a] = "rejected"],
             UNCHANGED <<calls, replacements, cutShort, ready, replacing, restarting>>
      PROVE  TypeOK'
  <2>1. co' \in [Attempts -> Stages]
    BY <1>2 DEF TypeOK, Stages
  <2> QED
    BY <1>2, <2>1, EndTypes DEF EndWith, TypeOK
<1>3. CASE Dial(a)
  <2>1. CASE EndWith(peerConnection, {localStream}, {})
             /\ co' = [co EXCEPT ![a] = "rejected"] /\ UNCHANGED ready
    BY <1>2, <1>3, <2>1 DEF Dial
  <2>2. CASE ~(EndWith(peerConnection, {localStream}, {})
               /\ co' = [co EXCEPT ![a] = "rejected"] /\ UNCHANGED ready)
    <3>1. /\ signaling' = a
          /\ socket' = socket \/ socket' = [socket EXCEPT ![a] = "opening"]
          /\ ready' = ready \/ ready' = [ready EXCEPT ![a] = "pending"]
          /\ \/ co' = [co EXCEPT ![a] = "signaling"]
             \/ co' = [co EXCEPT ![a] = "rejected"]
          /\ UNCHANGED <<status, current, peerConnection, localStream,
                         mediaWait, negotiating, pc, mic, waited, neg, calls,
                         replacements, cutShort, replacing, restarting>>
      BY <1>3, <2>2 DEF Dial, resources
    <3>2. /\ socket' \in [Attempts -> {"none", "opening", "open", "closed"}]
          /\ ready' \in [Attempts -> {"none", "pending", "ok", "err"}]
          /\ co' \in [Attempts -> Stages]
      BY <3>1 DEF TypeOK, Stages
    <3> QED
      BY <3>1, <3>2 DEF TypeOK
  <2> QED
    BY <2>1, <2>2
<1>4. CASE ResumeSignaling(a)
  <2>1. CASE Fail(a, {})
    BY <1>1, <1>4, <2>1 DEF ResumeSignaling
  <2>2. CASE ~Fail(a, {})
    <3>1. co' = [co EXCEPT ![a] = "peering"]
      BY <1>4, <2>2 DEF ResumeSignaling
    <3>2. co' \in [Attempts -> Stages]
      BY <3>1 DEF TypeOK, Stages
    <3> QED
      BY <1>4, <2>2, <3>2 DEF ResumeSignaling, TypeOK, fields, resources
  <2> QED
    BY <2>1, <2>2
<1>5. CASE MakePeer(a)
  <2>1. CASE Fail(a, {})
    BY <1>1, <1>5, <2>1 DEF MakePeer
  <2>2. CASE EndWith(a, {localStream}, {signaling})
             /\ co' = [co EXCEPT ![a] = "rejected"]
    BY <1>2, <1>5, <2>2 DEF MakePeer
  <2>3. CASE /\ ~Fail(a, {})
             /\ ~(EndWith(a, {localStream}, {signaling})
                  /\ co' = [co EXCEPT ![a] = "rejected"])
    <3>1. /\ peerConnection' = a /\ pc' = [pc EXCEPT ![a] = "new"]
          /\ UNCHANGED <<status, current, signaling, localStream, socket, mic,
                         calls, replacements, cutShort, ready, replacing,
                         restarting>>
          /\ \/ /\ co' = [co EXCEPT ![a] = "gum"]
                /\ UNCHANGED <<mediaWait, negotiating, waited, neg>>
             \/ StartMedia(a)
      BY <1>5, <2>3 DEF MakePeer
    <3>2. pc' \in [Attempts -> {"none", "new", "connected", "failed", "closed"}]
      BY <3>1 DEF TypeOK
    <3>3. CASE StartMedia(a)
      BY <3>1, <3>2, <3>3, MediaTypes DEF TypeOK
    <3>4. CASE co' = [co EXCEPT ![a] = "gum"]
               /\ UNCHANGED <<mediaWait, negotiating, waited, neg>>
      <4>1. co' \in [Attempts -> Stages]
        BY <3>4 DEF TypeOK, Stages
      <4> QED
        BY <3>1, <3>2, <3>4, <4>1 DEF TypeOK
    <3> QED
      BY <3>1, <3>3, <3>4
  <2> QED
    BY <2>1, <2>2, <2>3
<1>6. CASE MicrophoneGranted(a)
  <2>1. CASE Fail(a, {a})
    BY <1>1, <1>6, <2>1 DEF MicrophoneGranted
  <2>2. CASE EndWith(peerConnection, {a}, {signaling})
             /\ co' = [co EXCEPT ![a] = "rejected"]
    BY <1>2, <1>6, <2>2 DEF MicrophoneGranted
  <2>3. CASE /\ ~Fail(a, {a})
             /\ ~(EndWith(peerConnection, {a}, {signaling})
                  /\ co' = [co EXCEPT ![a] = "rejected"])
    <3>1. /\ mic' = [mic EXCEPT ![a] = "live"] /\ localStream' = a
          /\ StartMedia(a)
          /\ UNCHANGED <<status, current, signaling, peerConnection, socket, pc,
                         calls, replacements, cutShort, ready, replacing,
                         restarting>>
      BY <1>6, <2>3 DEF MicrophoneGranted
    <3>2. a \in Streams
      BY BrowserAssumption DEF BrowserAssumption, Attempts, Streams
    <3> QED
      BY <3>1, <3>2, MediaTypes DEF TypeOK
  <2> QED
    BY <2>1, <2>2, <2>3
<1>7. CASE MicrophoneRefused(a)
  BY <1>1, <1>7 DEF MicrophoneRefused
<1>8. CASE ResumeMedia(a)
  <2>1. CASE Fail(a, {})
    BY <1>1, <1>8, <2>1 DEF ResumeMedia
  <2>2. CASE ~Fail(a, {})
    <3>1. co' = [co EXCEPT ![a] = "resolved"]
      BY <1>8, <2>2 DEF ResumeMedia
    <3>2. co' \in [Attempts -> Stages]
      BY <3>1 DEF TypeOK, Stages
    <3> QED
      BY <1>8, <2>2, <3>2 DEF ResumeMedia, resources, TypeOK
  <2> QED
    BY <2>1, <2>2
<1> QED
  BY <1>3, <1>4, <1>5, <1>6, <1>7, <1>8 DEF Resume

(* Lemma: negotiations, the media timer and replacements.                  *)
LEMMA OtherTypes ==
    ASSUME TypeOK, \/ MediaTimeout \/ Replace
                   \/ \E n \in Attempts \X Callers : Negotiate(n)
    PROVE  TypeOK'
<1> USE BrowserAssumption DEF BrowserAssumption
<1>1. CASE MediaTimeout
  BY <1>1 DEF MediaTimeout, WaitRejected, TypeOK, resources
<1>2. ASSUME NEW n \in Attempts \X Callers, Negotiate(n) PROVE TypeOK'
  <2>1. /\ \E s \in {"answering", "failing", "applying", "ok", "threw"} :
              neg' = [neg EXCEPT ![n] = s]
        /\ negotiating' \in BOOLEAN
        /\ UNCHANGED <<status, current, signaling, peerConnection, localStream,
                       mediaWait, calls, replacements, cutShort, resources, co, ready,
                       waited, replacing, restarting>>
    BY <1>2 DEF Negotiate, NegOffers, NegAnswered, NegApplied, NegFinally,
                NegMoves, TypeOK
  <2>2. neg' \in [Attempts \X Callers -> {"idle", "offering", "answering",
                                          "applying", "ok", "failing", "threw"}]
    BY <2>1 DEF TypeOK
  <2> QED
    BY <2>1, <2>2 DEF TypeOK, resources
<1>3. CASE ReplaceMicrophone
  BY <1>3 DEF ReplaceMicrophone, TypeOK, fields, resources
<1>4. CASE ReplacementGranted \/ ReplacementSent
  <2>1. /\ UNCHANGED <<status, current, signaling, peerConnection, mediaWait,
                       negotiating, calls, replacements, cutShort, socket, pc, co, ready,
                       waited, neg, restarting>>
        /\ \/ SwapMicrophone
           \/ mic' = mic /\ localStream' = localStream
           \/ /\ mic' = [mic EXCEPT ![NextStream] = "live"]
              /\ localStream' = localStream
        /\ \/ replacing' = [at |-> "idle", peer |-> None]
           \/ replacing' = [at |-> "sender", peer |-> peerConnection]
    BY <1>4 DEF ReplacementGranted, ReplacementSent, SwapMicrophone
  <2>2. replacing' \in [at : {"idle", "gum", "sender"},
                        peer : Attempts \cup {None}]
    BY <2>1 DEF TypeOK
  <2>3. CASE mic' = [mic EXCEPT ![NextStream] = "live"]
             /\ localStream' = localStream
    BY <2>1, <2>2, <2>3 DEF TypeOK
  <2>4. CASE SwapMicrophone
    <3>1. NextStream \in Streams \cup {None}
      BY DEF NextStream, Streams, TypeOK
    <3>2. Stop({localStream}) \in [Streams -> {"none", "live", "stopped"}]
      BY DEF Stop, TypeOK
    <3>3. mic' \in [Streams -> {"none", "live", "stopped"}]
      BY <2>4, <3>2 DEF SwapMicrophone
    <3> QED
      BY <2>1, <2>2, <2>4, <3>1, <3>3 DEF TypeOK, SwapMicrophone
  <2>5. CASE mic' = mic /\ localStream' = localStream
    BY <2>1, <2>2, <2>5 DEF TypeOK
  <2> QED
    BY <2>1, <2>3, <2>4, <2>5
<1> QED
  BY <1>1, <1>2, <1>3, <1>4 DEF Replace

(* Every variable keeps its type.                                          *)
THEOREM ClientTypes == Spec => []TypeOK
<1>1. Init => TypeOK
  <2> SUFFICES ASSUME Init PROVE TypeOK
    OBVIOUS
  <2>1. calls \in 0..MaxAttempts /\ replacements \in 0..MaxReplacements
    BY BrowserAssumption DEF BrowserAssumption, Init
  <2>2. replacing \in [at : {"idle", "gum", "sender"},
                       peer : Attempts \cup {None}]
    BY DEF Init
  <2> QED
    BY <2>1, <2>2 DEF Init, TypeOK, Stages
<1>2. TypeOK /\ [Next]_vars => TypeOK'
  <2> SUFFICES ASSUME TypeOK, [Next]_vars PROVE TypeOK'
    OBVIOUS
  <2>1. CASE UNCHANGED vars
    BY <2>1 DEF vars, fields, resources, tasks, TypeOK
  <2> QED
    BY <2>1, CallTypes, EventTypes, ResumeTypes, OtherTypes DEF Next
<1> QED
  BY <1>1, <1>2, PTL DEF Spec

-----------------------------------------------------------------------------
(* The invariant of the lifecycle.                                         *)

(* Lemma: what negotiations and attempts are.                              *)
LEMMA NegotiationShape ==
    /\ None \notin Attempts
    /\ \A n \in Attempts \X Callers : n[1] \in Attempts /\ n = <<n[1], n[2]>>
    /\ \A a \in Attempts, r \in Callers : <<a, r>> \in Attempts \X Callers
    /\ Attempts \subseteq Streams
<1>1. None \notin Attempts /\ Attempts \subseteq Streams
  BY BrowserAssumption DEF BrowserAssumption, None, Attempts, Streams
<1> QED
  BY <1>1

(* Lemma: after #cleanup nothing is left.  The peer p, the microphones M   *)
(* and the sockets T are at least the ones that the fields name.           *)
LEMMA EndKeeps ==
    ASSUME TypeOK, ClientInv, NEW p, NEW M, NEW T, Cleanup(p, M, T),
           status' = "closed",
           UNCHANGED <<calls, replacements, replacing>>,
           Leftover(signaling) \/ signaling \in T,
           Leftover(peerConnection) \/ peerConnection = p,
           localStream \in Attempts => localStream \in M,
           p \in Attempts => pc[p] # "none" \/ co'[p] = "rejected",
           \/ current' = None /\ cutShort' = cutShort \cup Emitting
           \/ current' \in {current, None} /\ cutShort' = cutShort,
           \A a \in Attempts :
              /\ ready[a] = "none" => ready'[a] = "none"
              /\ co'[a] = co[a] \/ (co'[a] = "rejected" /\ co[a] # "idle")
              /\ a \in Emitting => co'[a] = "rejected" \/ a \in cutShort'
    PROVE  ClientInv'
<1> USE NegotiationShape DEF ClientInv
<1>1. /\ \A n \in Attempts \X Callers : neg'[n] # "idle" => neg[n] # "idle"
      /\ \A n \in Attempts \X Callers : neg'[n] \in Busy => neg[n] \in Busy
  BY DEF Cleanup, RejectPending, Busy
<1>2. /\ \A a \in Attempts :
            /\ pc'[a] = IF a = p THEN "closed" ELSE pc[a]
            /\ socket'[a] = IF a \in T THEN "closed" ELSE socket[a]
      /\ signaling' = None /\ peerConnection' = None /\ localStream' = None
      /\ mediaWait' = None /\ negotiating' = FALSE
  BY DEF Cleanup, SocketsClosed
<1>3. cutShort \subseteq cutShort' /\ cutShort' \subseteq cutShort \cup Emitting
  OBVIOUS
<1>4. StageInv'
  <2> SUFFICES ASSUME NEW a \in Attempts PROVE StageOf(a)'
    BY DEF StageInv
  <2>1. StageOf(a)
    BY DEF StageInv
  <2>2. \/ pc'[a] = pc[a]
        \/ pc'[a] = "closed" /\ (pc[a] # "none" \/ co'[a] = "rejected")
    BY <1>2
  <2>3. \A r \in Callers : neg'[<<a, r>>] # "idle" => neg[<<a, r>>] # "idle"
    BY <1>1
  <2>4. a > calls' => a > calls /\ co'[a] = co[a]
    BY <2>1 DEF StageOf
  <2> QED
    BY <2>1, <2>2, <2>3, <2>4 DEF StageOf
<1>5. FieldInv'
  <2>1. /\ Leftover(None)' /\ ~(status' \in {"connecting", "connected"})
    BY DEF Leftover
  <2>2. NothingLeaks'
    <3>1. \A a \in Attempts \ cutShort' :
             /\ socket'[a] \notin {"opening", "open"}
             /\ pc'[a] \notin {"new", "connected", "failed"}
      BY <1>2, <1>3 DEF FieldInv, NothingLeaks, Leftover
    <3> QED
      BY <1>2, <3>1 DEF NothingLeaks, Leftover
  <2>3. OneAttemptAtATime'
    BY <1>2, <2>1 DEF OneAttemptAtATime, Leftover
  <2> QED
    BY <1>2, <2>1, <2>2, <2>3 DEF FieldInv, Leftover
<1>6. EmitInv'
  <2> SUFFICES ASSUME NEW a \in Emitting'
               PROVE  /\ Emitting' = {a}
                      /\ a \in cutShort' /\ current' = None
    BY <1>2 DEF EmitInv
  <2>1. a \in Emitting /\ Emitting' \subseteq Emitting /\ co'[a] # "rejected"
    BY DEF Emitting
  <2>2. Emitting = {a} /\ (a \in cutShort => current = None)
    BY <2>1 DEF EmitInv
  <2>3. a \in cutShort'
    BY <2>1 DEF Emitting
  <2>4. current' = None
    BY <2>2, <2>3
  <2> QED
    BY <2>1, <2>2, <2>3, <2>4
<1>7. MicInv'
  <2>1. \A a \in Attempts : mic'[a] = "live" => mic[a] = "live" /\ a \notin M
    BY DEF Cleanup, Stop
  <2> QED
    BY <1>2, <2>1 DEF MicInv
<1>8. FlagInv'
  BY <1>2 DEF FlagInv
<1>9. FinallyInv'
  BY DEF FinallyInv, HasSession
<1>10. CutInv'
  <2> SUFFICES ASSUME NEW a \in cutShort'
               PROVE  /\ co'[a] # "idle" /\ current' # a
                      /\ \A r \in Callers : neg'[<<a, r>>] \notin Busy
    BY DEF CutInv
  <2>1. a \in Attempts
    BY <1>3 DEF Emitting, TypeOK
  <2>2. CASE a \in cutShort
    BY <1>1, <2>1, <2>2 DEF CutInv
  <2>3. CASE a \notin cutShort
    <3>1. a \in Emitting /\ current' = None
      BY <2>3
    <3>2. \A r \in Callers : neg[<<a, r>>] = "idle"
      BY <2>1, <3>1 DEF Emitting, StageInv, StageOf
    <3> QED
      BY <1>1, <2>1, <3>1, <3>2 DEF Emitting, Busy
  <2> QED
    BY <2>2, <2>3
<1> QED
  BY <1>4, <1>5, <1>6, <1>7, <1>8, <1>9, <1>10

(* Lemma: a step that changes at most the media wait, the replacement in   *)
(* its prompt, or a co of an attempt that is not the present one.          *)
LEMMA FrameKeeps ==
    ASSUME TypeOK, ClientInv,
           UNCHANGED <<status, calls, current, signaling, peerConnection,
                       localStream, negotiating, ready, neg, pc, socket,
                       cutShort>>,
           mediaWait' \in {mediaWait, None},
           \A a \in Attempts : mic'[a] = "live" => mic[a] = "live",
           \/ UNCHANGED <<replacing, replacements>>
           \/ replacing'.at = "gum" /\ replacements' > 0,
           \A a \in Attempts :
              \/ co'[a] = co[a]
              \/ /\ co'[a] = "rejected" /\ co[a] # "idle"
                 /\ current # a
    PROVE  ClientInv'
<1> USE NegotiationShape DEF ClientInv
<1>1. status \in {"connecting", "connected"} => co'[current] = co[current]
  BY DEF FieldInv
<1>2. StageInv'
  BY DEF StageInv, StageOf
<1>3. \A x : Leftover(x) => x \in cutShort' \cup {None}
  BY DEF Leftover
<1>4. FieldInv'
  BY <1>1, <1>3 DEF FieldInv, NothingLeaks, OneAttemptAtATime, ConnectingOf,
                    Leftover
<1>5. EmitInv'
  <2>1. Emitting' \subseteq Emitting
    BY DEF Emitting
  <2> QED
    BY <2>1 DEF EmitInv
<1>6. MicInv'
  BY DEF MicInv
<1>7. FlagInv' /\ CutInv'
  <2>1. \A a \in cutShort : a \in Attempts
    BY DEF TypeOK
  <2> QED
    BY <2>1 DEF FlagInv, CutInv
<1>8. FinallyInv'
  BY <1>1 DEF FinallyInv, HasSession
<1> QED
  BY <1>2, <1>4, <1>5, <1>6, <1>7, <1>8

(* Lemma: the end of a call by the running code, inside connect() or with  *)
(* no connect() inside a listener.                                         *)
LEMMA EndCallKeeps ==
    ASSUME TypeOK, ClientInv, NEW S, EndCallAfter(S),
           UNCHANGED <<calls, replacements, replacing>>,
           cutShort' \in {cutShort, cutShort \cup Emitting},
           \A a \in Attempts :
              /\ ready[a] = "none" => ready'[a] = "none"
              /\ co'[a] = co[a] \/ (co'[a] = "rejected" /\ co[a] # "idle")
              /\ a \in Emitting => co'[a] = "rejected" \/ a \in cutShort'
    PROVE  ClientInv'
<1> DEFINE p == peerConnection
           M == S \cup {localStream}
           T == {signaling}
<1>1. Cleanup(p, M, T) /\ status' = "closed" /\ current' = None
  BY DEF EndCallAfter, EndWith
<1>2. /\ signaling \in T /\ peerConnection = p
      /\ localStream \in Attempts => localStream \in M
      /\ p \in Attempts => pc[p] # "none"
  BY NegotiationShape DEF ClientInv, FieldInv
<1> HIDE DEF p, M, T
<1> QED
  BY <1>1, <1>2, EndKeeps

(* Lemma: connect()'s catch block.                                         *)
LEMMA FailKeeps ==
    ASSUME TypeOK, ClientInv, NEW a \in Attempts, NEW S, Fail(a, S),
           co[a] # "idle", Emitting \subseteq {a},
           UNCHANGED <<calls, replacements, cutShort, ready, replacing, restarting>>
    PROVE  ClientInv'
<1>1. /\ \A b \in Attempts : co'[b] = co[b] \/ (co'[b] = "rejected" /\ b = a)
      /\ co'[a] = "rejected"
  BY DEF Fail, TypeOK
<1>2. CASE EndCallAfter(S)
  BY <1>1, <1>2, EndCallKeeps
<1>3. CASE current # a /\ mic' = Stop(S)
           /\ UNCHANGED <<fields, socket, pc, waited, neg>>
  <2>1. \A b \in Attempts : mic'[b] = "live" => mic[b] = "live"
    BY <1>3, NegotiationShape DEF Stop
  <2> QED
    BY <1>1, <1>3, <2>1, FrameKeeps DEF fields
<1> QED
  BY <1>2, <1>3 DEF Fail

(* Lemma: a new attempt finds nothing of the last one, but what one that   *)
(* was cut short has left.                                                 *)
LEMMA ConnectKeeps ==
    ASSUME TypeOK, ClientInv, Connect
    PROVE  ClientInv'
<1> USE NegotiationShape
<1>1. calls' = calls + 1 /\ calls' \in Attempts /\ calls \in Nat /\ calls' > calls
  BY BrowserAssumption DEF BrowserAssumption, Connect, Attempts, TypeOK
<1>2. /\ status' = "connecting" /\ current' = calls'
      /\ UNCHANGED <<signaling, peerConnection, localStream, mediaWait,
                     negotiating, socket, pc, mic, ready, neg, replacing,
                     replacements, cutShort>>
      /\ status \in {"idle", "closed"} /\ Emitting = {}
  BY DEF Connect, TypeOK, resources
<1>3. /\ co'[calls'] = "dialling"
      /\ \A a \in Attempts \ {calls'} : co'[a] = co[a]
  BY <1>1 DEF Connect, TypeOK
<1>4. /\ co[calls'] = "idle" /\ pc[calls'] = "none" /\ ready[calls'] = "none"
      /\ \A r \in Callers : neg[<<calls', r>>] = "idle"
  BY <1>1 DEF ClientInv, StageInv, StageOf
<1>5. /\ Leftover(signaling) /\ Leftover(peerConnection) /\ Leftover(mediaWait)
      /\ negotiating = FALSE /\ localStream \notin Attempts
  BY <1>2 DEF ClientInv, FieldInv, NothingLeaks, TypeOK
<1>6. calls' \notin cutShort
  BY <1>4 DEF ClientInv, CutInv
<1>7. StageInv'
  <2> SUFFICES ASSUME NEW a \in Attempts PROVE StageOf(a)'
    BY DEF StageInv
  <2>1. CASE a = calls'
    BY <1>1, <1>2, <1>3, <1>4, <2>1 DEF StageOf
  <2>2. CASE a # calls'
    <3>1. a > calls' => a > calls
      BY <1>1 DEF Attempts
    <3> QED
      BY <1>2, <1>3, <2>2, <3>1 DEF ClientInv, StageInv, StageOf
  <2> QED
    BY <2>1, <2>2
<1>8. FieldInv'
  <2>1. NothingLeaks'
    BY <1>2 DEF ClientInv, FieldInv, NothingLeaks, Leftover
  <2>2. OneAttemptAtATime'
    BY <1>2, <1>3, <1>5 DEF OneAttemptAtATime, Leftover
  <2> QED
    BY <1>1, <1>2, <1>3, <1>5, <2>1, <2>2
       DEF ClientInv, FieldInv, ConnectingOf, Leftover
<1>9. EmitInv'
  <2>1. Emitting' = {calls'}
    BY <1>1, <1>2, <1>3 DEF Emitting
  <2> QED
    BY <1>2, <1>6, <2>1 DEF EmitInv
<1>10. MicInv' /\ FlagInv'
  BY <1>2 DEF ClientInv, MicInv, FlagInv
<1>11. FinallyInv'
  BY <1>2, <1>3, <1>4 DEF FinallyInv, HasSession
<1>12. CutInv'
  BY <1>2, <1>3, <1>6 DEF ClientInv, CutInv, TypeOK
<1> QED
  BY <1>7, <1>8, <1>9, <1>10, <1>11, <1>12 DEF ClientInv

(* Lemma: connect() opens its socket, whatever the listeners of 'state'    *)
(* have done.                                                              *)
LEMMA DialKeeps ==
    ASSUME TypeOK, ClientInv, NEW a \in Attempts, Dial(a)
    PROVE  ClientInv'
<1> USE NegotiationShape
<1>1. /\ co[a] = "dialling" /\ a \in Emitting
      /\ UNCHANGED <<calls, replacements, cutShort, replacing>>
  BY DEF Dial, Emitting
<1>2. /\ Emitting = {a}
      /\ \/ a \notin cutShort /\ current = a /\ status = "connecting"
         \/ /\ a \in cutShort /\ current = None /\ status = "closed"
            /\ signaling = None /\ peerConnection = None /\ mediaWait = None
  BY <1>1 DEF ClientInv, EmitInv
<1>3. Leftover(signaling)
  BY <1>1, <1>2 DEF ClientInv, FieldInv, ConnectingOf, Leftover
<1>4. CASE EndWith(peerConnection, {localStream}, {})
           /\ co' = [co EXCEPT ![a] = "rejected"]
  <2> DEFINE p == peerConnection
             M == {localStream}
             T == {}
  <2>1. Cleanup(p, M, T) /\ status' = "closed" /\ current' = None
    BY <1>4 DEF EndWith
  <2>2. /\ peerConnection = p /\ localStream \in M
        /\ p \in Attempts => pc[p] # "none"
    BY DEF ClientInv, FieldInv
  <2>3. \A b \in Attempts :
           /\ ready[b] = "none" => ready'[b] = "none"
           /\ co'[b] = co[b] \/ (co'[b] = "rejected" /\ co[b] # "idle")
           /\ b \in Emitting => co'[b] = "rejected" \/ b \in cutShort'
    BY <1>1, <1>2, <1>4 DEF TypeOK, Dial
  <2> HIDE DEF p, M, T
  <2> QED
    BY <1>1, <1>3, <2>1, <2>2, <2>3, EndKeeps
<1>5. CASE ~(EndWith(peerConnection, {localStream}, {})
             /\ co' = [co EXCEPT ![a] = "rejected"])
  <2>1. /\ signaling' = a
        /\ UNCHANGED <<status, current, peerConnection, localStream, mediaWait,
                       negotiating, pc, mic, neg>>
        /\ \/ /\ socket' = [socket EXCEPT ![a] = "opening"]
              /\ ready' = [ready EXCEPT ![a] = "pending"]
              /\ co' = [co EXCEPT ![a] = "signaling"]
           \/ /\ current # a
              /\ co' = [co EXCEPT ![a] = "rejected"]
              /\ UNCHANGED <<socket, ready>>
    BY <1>5 DEF Dial, resources
  <2>2. /\ co'[a] = "signaling" \/ (co'[a] = "rejected" /\ current # a)
        /\ ready'[a] # "ok" \/ (ready'[a] = ready[a] /\ current # a)
        /\ \A b \in Attempts \ {a} :
              co'[b] = co[b] /\ socket'[b] = socket[b] /\ ready'[b] = ready[b]
    BY <2>1 DEF TypeOK
  <2>3. StageInv'
    <3>1. pc[a] = "none" /\ (\A r \in Callers : neg[<<a, r>>] = "idle")
          /\ ~(a > calls)
      BY <1>1 DEF ClientInv, StageInv, StageOf
    <3> SUFFICES ASSUME NEW b \in Attempts PROVE StageOf(b)'
      BY DEF StageInv
    <3>2. CASE b = a
      BY <1>1, <2>1, <2>2, <3>1, <3>2 DEF StageOf
    <3>3. CASE b # a
      BY <1>1, <2>1, <2>2, <3>3 DEF ClientInv, StageInv, StageOf
    <3> QED
      BY <3>2, <3>3
  <2>4. NothingLeaks'
    BY <1>1, <1>2, <1>3, <2>1, <2>2 DEF ClientInv, FieldInv, NothingLeaks, Leftover
  <2>5. OneAttemptAtATime'
    BY <1>1, <1>2, <2>1, <2>2
       DEF ClientInv, FieldInv, OneAttemptAtATime, ConnectingOf, Leftover
  <2>6. FieldInv'
    BY <1>1, <1>2, <2>1, <2>2, <2>4, <2>5
       DEF ClientInv, FieldInv, ConnectingOf, Leftover
  <2>7. EmitInv'
    <3>1. Emitting' = {}
      BY <1>2, <2>2 DEF Emitting
    <3> QED
      BY <3>1 DEF EmitInv
  <2>8. MicInv' /\ FlagInv'
    BY <1>1, <2>1 DEF ClientInv, MicInv, FlagInv
  <2>9. FinallyInv'
    BY <1>2, <2>1, <2>2 DEF FinallyInv, HasSession
  <2>10. CutInv'
    BY <1>1, <2>1, <2>2 DEF ClientInv, CutInv, TypeOK
  <2> QED
    BY <2>3, <2>6, <2>7, <2>8, <2>9, <2>10 DEF ClientInv
<1> QED
  BY <1>4, <1>5

(* Lemma: the events of the gateway, those of a socket that an attempt cut *)
(* short has left included.                                                *)
LEMMA GatewayKeeps ==
    ASSUME TypeOK, ClientInv, NEW a \in Attempts, Gateway(a)
    PROVE  ClientInv'
<1> USE NegotiationShape
<1>1. /\ Quiet /\ Emitting = {}
      /\ UNCHANGED <<calls, replacements, cutShort, co, replacing>>
      /\ \A b \in Attempts : ready[b] = "none" => ready'[b] = "none"
  BY DEF Gateway, GatewayReady, SignalingFails, GatewayCloses, SessionClosed,
         Quiet, TypeOK
<1>2. ASSUME NEW T, Cleanup(peerConnection, {localStream}, T), signaling \in T,
             status' = "closed", current' \in {current, None}
      PROVE  ClientInv'
  <2> DEFINE p == peerConnection
             M == {localStream}
  <2>1. Cleanup(p, M, T)
    BY <1>2
  <2>2. /\ peerConnection = p /\ localStream \in M
        /\ p \in Attempts => pc[p] # "none"
    BY DEF ClientInv, FieldInv
  <2> HIDE DEF p, M
  <2> QED
    BY <1>1, <1>2, <2>1, <2>2, EndKeeps
<1>3. CASE Cleanup(peerConnection, {localStream}, {a}) /\ status' = "closed"
           /\ signaling = a /\ UNCHANGED current
  BY <1>2, <1>3
<1>4. CASE GatewayReady(a) /\ UNCHANGED <<fields, pc, mic, waited, neg>>
           /\ socket' = [socket EXCEPT ![a] = "open"]
  <2>1. /\ ready[a] = "pending" /\ socket[a] = "opening"
        /\ ready' = [ready EXCEPT ![a] = "ok"]
    BY <1>4 DEF GatewayReady
  <2>2. /\ socket'[a] = "open" /\ ready'[a] = "ok"
        /\ \A b \in Attempts \ {a} : socket'[b] = socket[b] /\ ready'[b] = ready[b]
    BY <1>4, <2>1 DEF TypeOK
  <2>3. StageInv'
    BY <1>1, <1>4, <2>1, <2>2 DEF ClientInv, StageInv, StageOf
  <2>4. MicInv' /\ FlagInv' /\ CutInv'
    BY <1>1, <1>4 DEF ClientInv, MicInv, FlagInv, CutInv, fields
  <2>5. NothingLeaks' /\ OneAttemptAtATime'
    BY <1>1, <1>4, <2>1, <2>2 DEF ClientInv, FieldInv, NothingLeaks,
          OneAttemptAtATime, Leftover, fields
  <2>6. FieldInv'
    BY <1>1, <1>4, <2>1, <2>2, <2>5 DEF ClientInv, FieldInv, ConnectingOf,
          Leftover, fields
  <2>7. EmitInv'
    BY <1>1 DEF EmitInv, Emitting
  <2>8. FinallyInv'
    BY <1>1, <1>4 DEF FinallyInv, Quiet
  <2> QED
    BY <2>3, <2>4, <2>6, <2>7, <2>8 DEF ClientInv
<1>5. CASE \/ SignalingFails(a)
           \/ /\ GatewayCloses(a) /\ status \in {"idle", "closed"}
              /\ socket' = SocketsClosed({a})
              /\ UNCHANGED <<fields, pc, mic, waited, neg>>
  <2>1. /\ UNCHANGED <<fields, pc, mic, neg>>
        /\ ready' = ready \/ ready' = [ready EXCEPT ![a] = "err"]
        /\ ready'[a] = "ok" => ready[a] = "ok"
        /\ \A b \in Attempts :
              \/ socket'[b] = socket[b]
              \/ socket'[b] = "closed" /\ status \in {"idle", "closed"}
    BY <1>5 DEF SignalingFails, GatewayCloses, SocketsClosed, resources, TypeOK
  <2>2. \A b \in Attempts : ready'[b] = "ok" => ready[b] = "ok"
    BY <2>1 DEF TypeOK
  <2>3. \A b \in Attempts : co[b] = "peering" => b \notin Attempts
    BY <1>1 DEF Emitting
  <2>4. StageInv'
    BY <1>1, <2>1 DEF ClientInv, StageInv, StageOf
  <2>5. MicInv' /\ FlagInv' /\ CutInv'
    BY <1>1, <2>1 DEF ClientInv, MicInv, FlagInv, CutInv, fields
  <2>6. NothingLeaks' /\ OneAttemptAtATime'
    BY <1>1, <2>1 DEF ClientInv, FieldInv, NothingLeaks, OneAttemptAtATime,
          Leftover, fields
  <2>7. FieldInv'
    <3>1. status \in {"connecting", "connected"} \/ Leftover(signaling)
      BY DEF ClientInv, FieldInv, NothingLeaks, TypeOK
    <3>2. signaling \in Attempts \cup {None}
      BY DEF TypeOK
    <3> QED
      BY <1>1, <2>1, <2>2, <2>3, <2>6, <3>1, <3>2 DEF ClientInv, FieldInv,
            ConnectingOf, Leftover, fields
  <2>8. EmitInv'
    BY <1>1 DEF EmitInv, Emitting
  <2>9. FinallyInv'
    BY <1>1 , <2>1 DEF FinallyInv, Quiet
  <2> QED
    BY <2>4, <2>5, <2>7, <2>8, <2>9 DEF ClientInv
<1>6. CASE GatewayCloses(a) /\ EndWith(peerConnection, {localStream}, {signaling, a})
  BY <1>2, <1>6 DEF EndWith
<1>7. CASE SessionClosed(a)
  BY <1>2, <1>7 DEF SessionClosed
<1> QED
  BY <1>3, <1>4, <1>5, <1>6, <1>7 DEF Gateway, GatewayReady, GatewayCloses

(* Lemma: the states the peer reports.                                     *)
LEMMA PeerKeeps ==
    ASSUME TypeOK, ClientInv, NEW a \in Attempts, Peer(a)
    PROVE  ClientInv'
<1> USE NegotiationShape
<1>1. /\ Emitting = {} /\ UNCHANGED <<calls, replacements, cutShort, co, ready, replacing>>
  BY DEF Peer, PeerConnects, PeerFails, Quiet
<1>2. CASE PeerFails(a) /\ EndCall
  BY <1>1, <1>2, EndCallKeeps DEF EndCall
<1>3. CASE PeerConnects(a) \/ (PeerFails(a) /\ ~EndCall)
  <2>1. /\ pc[a] \in {"new", "connected"}
        /\ \/ pc' = [pc EXCEPT ![a] = "connected"]
           \/ pc' = [pc EXCEPT ![a] = "failed"]
        /\ mediaWait' \in {mediaWait, None}
        /\ UNCHANGED <<status, current, signaling, peerConnection, localStream,
                       negotiating, socket, mic, neg>>
    BY <1>3 DEF PeerConnects, PeerFails
  <2>2. /\ pc'[a] \in {"connected", "failed"}
        /\ \A b \in Attempts \ {a} : pc'[b] = pc[b]
    BY <2>1 DEF TypeOK
  <2>3. StageInv'
    BY <1>1, <2>1, <2>2 DEF ClientInv, StageInv, StageOf
  <2>4. NothingLeaks' /\ OneAttemptAtATime'
    BY <1>1, <2>1, <2>2 DEF ClientInv, FieldInv, NothingLeaks,
          OneAttemptAtATime, Leftover
  <2>5. FieldInv'
    <3>1. /\ peerConnection \in Attempts \cup {None}
          /\ \A b \in Attempts : pc[b] # "none" => pc'[b] # "none"
      BY <2>2 DEF TypeOK
    <3> QED
      BY <1>1, <2>1, <2>4, <3>1 DEF ClientInv, FieldInv, ConnectingOf, Leftover
  <2>6. MicInv' /\ CutInv'
    BY <1>1, <2>1 DEF ClientInv, MicInv, CutInv
  <2>7. FlagInv' /\ FinallyInv'
    BY <1>1, <2>1 DEF ClientInv, FlagInv, FinallyInv, HasSession
  <2>8. EmitInv'
    BY <1>1 DEF EmitInv, Emitting
  <2> QED
    BY <2>3, <2>5, <2>6, <2>7, <2>8 DEF ClientInv
<1> QED
  BY <1>2, <1>3 DEF Peer

(* Lemma: connect() resumes with its session and calls the listeners.      *)
LEMMA ResumeSignalingKeeps ==
    ASSUME TypeOK, ClientInv, NEW a \in Attempts, ResumeSignaling(a)
    PROVE  ClientInv'
<1> USE NegotiationShape
<1>1. /\ co[a] = "signaling" /\ Emitting = {}
      /\ UNCHANGED <<calls, replacements, cutShort, ready, replacing, restarting>>
  BY DEF ResumeSignaling
<1>2. CASE Fail(a, {})
  BY <1>1, <1>2, FailKeeps
<1>3. CASE /\ ready[a] = "ok" /\ Active(a)
           /\ co' = [co EXCEPT ![a] = "peering"]
           /\ UNCHANGED <<fields, resources, waited, neg>>
  <2>1. /\ co'[a] = "peering" /\ \A b \in Attempts \ {a} : co'[b] = co[b]
    BY <1>3 DEF TypeOK
  <2>2. /\ current = a /\ status = "connecting" /\ a \notin cutShort
        /\ signaling = a /\ socket[a] = "open"
    BY <1>1, <1>3 DEF Active, ClientInv, CutInv, FieldInv, ConnectingOf,
          Leftover
  <2>3. StageInv'
    <3>1. pc[a] = "none" /\ (\A r \in Callers : neg[<<a, r>>] = "idle")
          /\ ~(a > calls)
      BY <1>1 DEF ClientInv, StageInv, StageOf
    <3> SUFFICES ASSUME NEW b \in Attempts PROVE StageOf(b)'
      BY DEF StageInv
    <3>2. CASE b = a
      BY <1>1, <1>3, <2>1, <3>1, <3>2 DEF StageOf, resources
    <3>3. CASE b # a
      BY <1>1, <1>3, <2>1, <3>3 DEF ClientInv, StageInv, StageOf, resources
    <3> QED
      BY <3>2, <3>3
  <2>4. NothingLeaks' /\ OneAttemptAtATime'
    BY <1>1, <1>3, <2>1, <2>2 DEF ClientInv, FieldInv, NothingLeaks,
          OneAttemptAtATime, Leftover, fields, resources
  <2>5. FieldInv'
    BY <1>1, <1>3, <2>1, <2>2, <2>4 DEF ClientInv, FieldInv, ConnectingOf,
          Leftover, fields, resources
  <2>6. EmitInv'
    <3>1. Emitting' = {a}
      BY <1>1, <2>1 DEF Emitting
    <3> QED
      BY <1>1, <1>3, <2>2, <3>1 DEF EmitInv, fields
  <2>7. MicInv' /\ FlagInv'
    BY <1>1, <1>3 DEF ClientInv, MicInv, FlagInv, fields, resources
  <2>8. FinallyInv'
    <3>1. HasSession
      BY <1>3, <2>2 DEF HasSession
    <3> QED
      BY <1>3, <3>1 DEF ClientInv, FinallyInv, fields
  <2>9. CutInv'
    BY <1>1, <1>3, <2>1 DEF ClientInv, CutInv, TypeOK, fields
  <2> QED
    BY <2>3, <2>5, <2>6, <2>7, <2>8, <2>9 DEF ClientInv
<1> QED
  BY <1>2, <1>3 DEF ResumeSignaling

(* Lemma: connect() makes its peer, whatever the listeners of 'session'    *)
(* have done.                                                              *)
LEMMA MakePeerKeeps ==
    ASSUME TypeOK, ClientInv, NEW a \in Attempts, MakePeer(a)
    PROVE  ClientInv'
<1> USE NegotiationShape
<1>1. /\ co[a] = "peering" /\ a \in Emitting
      /\ UNCHANGED <<calls, replacements, cutShort, ready, replacing, restarting>>
  BY DEF MakePeer, Emitting
<1>2. /\ Emitting = {a}
      /\ \/ a \notin cutShort /\ current = a /\ status = "connecting"
         \/ /\ a \in cutShort /\ current = None /\ status = "closed"
            /\ signaling = None /\ peerConnection = None /\ mediaWait = None
  BY <1>1 DEF ClientInv, EmitInv
<1>3. /\ pc[a] = "none" /\ \A r \in Callers : neg[<<a, r>>] = "idle"
      /\ ~(a > calls)
  BY <1>1 DEF ClientInv, StageInv, StageOf
<1>4. /\ Leftover(peerConnection) /\ Leftover(mediaWait) /\ ~negotiating
      /\ localStream \notin Attempts
      /\ a \notin cutShort => signaling = a /\ socket[a] = "open" /\ ready[a] = "ok"
  BY <1>1, <1>2 DEF ClientInv, FieldInv, ConnectingOf, Leftover
<1>5. CASE Fail(a, {})
  BY <1>1, <1>2, <1>5, FailKeeps
<1>6. CASE EndWith(a, {localStream}, {signaling})
           /\ co' = [co EXCEPT ![a] = "rejected"]
  <2> DEFINE M == {localStream}
             T == {signaling}
  <2>1. Cleanup(a, M, T) /\ status' = "closed" /\ current' = None
    BY <1>6 DEF EndWith
  <2>2. signaling \in T /\ localStream \in M
    OBVIOUS
  <2>3. /\ co'[a] = "rejected"
        /\ \A b \in Attempts :
              /\ ready[b] = "none" => ready'[b] = "none"
              /\ co'[b] = co[b] \/ (co'[b] = "rejected" /\ co[b] # "idle")
              /\ b \in Emitting => co'[b] = "rejected" \/ b \in cutShort'
    BY <1>1, <1>2, <1>6 DEF TypeOK
  <2> HIDE DEF M, T
  <2> QED
    BY <1>1, <1>4, <2>1, <2>2, <2>3, EndKeeps
<1>7. CASE /\ peerConnection' = a /\ pc' = [pc EXCEPT ![a] = "new"]
           /\ UNCHANGED <<status, current, signaling, localStream, socket, mic>>
           /\ \/ /\ co' = [co EXCEPT ![a] = "gum"]
                 /\ UNCHANGED <<mediaWait, negotiating, waited, neg>>
              \/ StartMedia(a)
  <2>1. /\ pc'[a] = "new" /\ \A b \in Attempts \ {a} : pc'[b] = pc[b]
    BY <1>7 DEF TypeOK
  <2>2. <<a, "connect">> \in Attempts \X Callers
    BY DEF Callers
  <2>3. /\ co'[a] \in {"gum", "media"}
        /\ \A b \in Attempts \ {a} : co'[b] = co[b]
        /\ \/ /\ co'[a] = "gum" /\ mediaWait' = mediaWait
              /\ neg' = neg /\ negotiating' = FALSE
           \/ /\ co'[a] = "media" /\ mediaWait' = a
              /\ \/ /\ a \in cutShort /\ negotiating' = FALSE
                    /\ neg' = [neg EXCEPT ![<<a, "connect">>] = "threw"]
                 \/ /\ a \notin cutShort /\ negotiating' = TRUE
                    /\ neg' = [neg EXCEPT ![<<a, "connect">>] = "offering"]
    <3>1. signaling = None <=> a \in cutShort
      BY <1>2, <1>4
    <3>2. negotiating = FALSE
      BY <1>4 DEF TypeOK
    <3>3. CASE StartMedia(a)
      <4>1. co'[a] = "media" /\ \A b \in Attempts \ {a} : co'[b] = co[b]
        BY <3>3 DEF StartMedia, TypeOK
      <4> QED
        BY <3>1, <3>2, <3>3, <4>1 DEF StartMedia
    <3>4. CASE /\ co' = [co EXCEPT ![a] = "gum"]
               /\ UNCHANGED <<mediaWait, negotiating, waited, neg>>
      BY <3>2, <3>4 DEF TypeOK
    <3> QED
      BY <1>7, <3>3, <3>4
  <2>4. /\ \A n \in Attempts \X Callers : n # <<a, "connect">> => neg'[n] = neg[n]
        /\ neg'[<<a, "connect">>] \in {"idle", "threw", "offering"}
        /\ neg'[<<a, "connect">>] # "idle" => co'[a] = "media"
        /\ neg'[<<a, "connect">>] = "offering" <=> negotiating'
        /\ a \in cutShort => ~negotiating'
    <3>1. CASE co'[a] = "gum"
      BY <1>3, <2>3, <3>1 DEF Callers
    <3>2. CASE co'[a] = "media"
      BY <2>2, <2>3, <3>2 DEF TypeOK
    <3> QED
      BY <2>3, <3>1, <3>2
  <2>5. StageInv'
    <3> SUFFICES ASSUME NEW b \in Attempts PROVE StageOf(b)'
      BY DEF StageInv
    <3>1. CASE b = a
      <4>1. \A r \in Callers : neg'[<<a, r>>] # "idle" => co'[a] = "media"
        <5>1. \A r \in Callers : r # "connect" => <<a, r>> # <<a, "connect">>
          OBVIOUS
        <5> QED
          BY <1>3, <2>4, <5>1
      <4> QED
        BY <1>1, <1>3, <2>1, <2>3, <3>1, <4>1 DEF StageOf
    <3>2. CASE b # a
      <4>1. \A r \in Callers : neg'[<<b, r>>] = neg[<<b, r>>]
        BY <2>4, <3>2
      <4> QED
        BY <1>1, <2>1, <2>3, <3>2, <4>1 DEF ClientInv, StageInv, StageOf
    <3> QED
      BY <3>1, <3>2
  <2>6. NothingLeaks'
    BY <1>1, <1>2, <1>4, <1>7, <2>1
       DEF ClientInv, FieldInv, NothingLeaks, Leftover
  <2>7. OneAttemptAtATime'
    <3>1. Leftover(mediaWait)' \/ mediaWait' = peerConnection'
      BY <1>1, <1>4, <1>7, <2>3 DEF Leftover
    <3>2. Leftover(peerConnection)' \/ peerConnection' = signaling'
      BY <1>1, <1>4, <1>7 DEF Leftover
    <3> QED
      BY <1>2, <1>4, <1>7, <2>3, <3>1, <3>2 DEF OneAttemptAtATime
  <2>8. FieldInv'
    <3>1. status = "connecting" => ConnectingOf(a)'
      BY <1>1, <1>2, <1>4, <1>7, <2>3 DEF ConnectingOf, Leftover
    <3>2. status \in {"idle", "closed"} => Leftover(mediaWait)' /\ ~negotiating'
      BY <1>1, <1>2, <1>4, <2>3, <2>4 DEF Leftover
    <3> QED
      BY <1>1, <1>2, <1>4, <1>7, <2>1, <2>6, <2>7, <3>1, <3>2
         DEF FieldInv, Leftover
  <2>9. EmitInv'
    <3>1. Emitting' = {}
      BY <1>2, <2>3 DEF Emitting
    <3> QED
      BY <3>1 DEF EmitInv
  <2>10. MicInv'
    BY <1>1, <1>7 DEF ClientInv, MicInv
  <2>11. \A n \in Attempts \X Callers : n[1] = a => neg[n] = "idle"
    BY <1>3
  <2>12. FlagInv'
    <3>1. \A n \in Attempts \X Callers :
             neg'[n] \in Busy /\ n[1] = a <=> n = <<a, "connect">> /\ negotiating'
      <4> SUFFICES ASSUME NEW n \in Attempts \X Callers
                   PROVE  neg'[n] \in Busy /\ n[1] = a
                             <=> n = <<a, "connect">> /\ negotiating'
        OBVIOUS
      <4>1. CASE n = <<a, "connect">>
        BY <2>4, <4>1 DEF Busy
      <4>2. CASE n # <<a, "connect">>
        BY <2>4, <2>11, <4>2 DEF Busy
      <4> QED
        BY <4>1, <4>2
    <3> QED
      BY <1>7, <2>2, <3>1 DEF FlagInv
  <2>13. FinallyInv'
    <3> SUFFICES ASSUME HasSession', NEW n \in Attempts \X Callers,
                        neg'[n] = "failing"
                 PROVE  n[1] = a
      BY <1>7 DEF FinallyInv
    <3>1. neg[n] = "failing"
      BY <2>4
    <3>2. HasSession
      BY <1>2, <1>4, <1>7 DEF HasSession
    <3>3. n[1] = peerConnection
      BY <3>1, <3>2 DEF ClientInv, FinallyInv
    <3>4. n[1] \in cutShort /\ n[2] \in Callers
      BY <1>4, <3>3 DEF Leftover
    <3>5. neg[<<n[1], n[2]>>] \notin Busy
      BY <3>4 DEF ClientInv, CutInv
    <3> QED
      BY <3>1, <3>5 DEF Busy
  <2>14. CutInv'
    <3> SUFFICES ASSUME NEW b \in cutShort
                 PROVE  /\ co'[b] # "idle" /\ current # b
                        /\ \A r \in Callers : neg'[<<b, r>>] \notin Busy
      BY <1>1, <1>7 DEF CutInv
    <3>1. b \in Attempts /\ current # b /\ co[b] # "idle"
          /\ \A r \in Callers : neg[<<b, r>>] \notin Busy
      BY DEF ClientInv, CutInv, TypeOK
    <3>2. CASE b = a
      <4>1. \A r \in Callers : neg'[<<a, r>>] \in {"idle", "threw"}
        <5>1. \A r \in Callers : r # "connect" => <<a, r>> # <<a, "connect">>
          OBVIOUS
        <5> QED
          BY <1>3, <2>4, <3>2, <5>1
      <4> QED
        BY <2>3, <3>1, <3>2, <4>1 DEF Busy
    <3>3. CASE b # a
      <4>1. \A r \in Callers : neg'[<<b, r>>] = neg[<<b, r>>]
        BY <2>4, <3>1, <3>3
      <4> QED
        BY <2>3, <3>1, <3>3, <4>1
    <3> QED
      BY <3>2, <3>3
  <2> QED
    BY <2>5, <2>8, <2>9, <2>10, <2>12, <2>13, <2>14 DEF ClientInv
<1> QED
  BY <1>5, <1>6, <1>7 DEF MakePeer

(* Lemma: the microphone of the present attempt is granted.                *)
LEMMA MicrophoneKeeps ==
    ASSUME TypeOK, ClientInv, NEW a \in Attempts, MicrophoneGranted(a),
           ~Fail(a, {a})
    PROVE  ClientInv'
<1> USE NegotiationShape
<1>1. /\ Quiet /\ Emitting = {} /\ co[a] = "gum"
      /\ current = a /\ status = "connecting" /\ a \notin cutShort
      /\ UNCHANGED <<calls, replacements, cutShort, ready, replacing>>
  BY DEF MicrophoneGranted, Active, Quiet, ClientInv, CutInv
<1>2. /\ signaling = a /\ peerConnection = a /\ Leftover(mediaWait)
      /\ negotiating = FALSE /\ localStream \notin Attempts /\ socket[a] = "open"
  BY <1>1 DEF ClientInv, FieldInv, ConnectingOf, TypeOK
<1>3. CASE EndWith(peerConnection, {a}, {signaling})
           /\ co' = [co EXCEPT ![a] = "rejected"]
  <2> DEFINE p == peerConnection
             M == {a}
             T == {signaling}
  <2>1. Cleanup(p, M, T) /\ status' = "closed" /\ current' = None
    BY <1>3 DEF EndWith
  <2>2. /\ peerConnection = p /\ signaling \in T
        /\ p \in Attempts => pc[p] # "none"
    BY DEF ClientInv, FieldInv
  <2>3. \A b \in Attempts :
           /\ ready[b] = "none" => ready'[b] = "none"
           /\ co'[b] = co[b] \/ (co'[b] = "rejected" /\ co[b] # "idle")
           /\ b \in Emitting => co'[b] = "rejected" \/ b \in cutShort'
    BY <1>1, <1>3 DEF TypeOK
  <2> HIDE DEF p, M, T
  <2> QED
    BY <1>1, <1>2, <2>1, <2>2, <2>3, EndKeeps
<1>4. CASE /\ mic' = [mic EXCEPT ![a] = "live"] /\ localStream' = a
           /\ StartMedia(a)
           /\ UNCHANGED <<status, current, signaling, peerConnection, socket, pc>>
  <2>1. /\ mediaWait' = a /\ negotiating' = TRUE
        /\ neg' = [neg EXCEPT ![<<a, "connect">>] = "offering"]
        /\ co' = [co EXCEPT ![a] = "media"]
    BY <1>2, <1>4 DEF StartMedia
  <2>2. <<a, "connect">> \in Attempts \X Callers
    BY DEF Callers
  <2>3. /\ co'[a] = "media" /\ \A b \in Attempts \ {a} : co'[b] = co[b]
        /\ neg'[<<a, "connect">>] = "offering"
        /\ \A n \in Attempts \X Callers : n # <<a, "connect">> => neg'[n] = neg[n]
    BY <2>1, <2>2 DEF TypeOK
  <2>4. /\ a \in Streams /\ mic'[a] = "live"
        /\ \A b \in Attempts \ {a} : mic'[b] = mic[b]
    BY <1>4 DEF TypeOK
  <2>5. \A n \in Attempts \X Callers : neg[n] \in Busy => n[1] # a
    BY <1>2 DEF ClientInv, FlagInv
  <2>6. StageInv'
    <3> SUFFICES ASSUME NEW b \in Attempts PROVE StageOf(b)'
      BY DEF StageInv
    <3>1. CASE b = a
      BY <1>1, <1>4, <2>3, <3>1 DEF ClientInv, StageInv, StageOf
    <3>2. CASE b # a
      <4>1. \A r \in Callers : neg'[<<b, r>>] = neg[<<b, r>>]
        BY <2>3, <3>2
      <4> QED
        BY <1>1, <1>4, <2>3, <3>2, <4>1 DEF ClientInv, StageInv, StageOf
    <3> QED
      BY <3>1, <3>2
  <2>7. FieldInv'
    BY <1>1, <1>2, <1>4, <2>1, <2>3 DEF ClientInv, FieldInv, NothingLeaks,
          OneAttemptAtATime, ConnectingOf, Leftover
  <2>8. MicInv'
    BY <1>1, <1>2, <1>4, <2>4 DEF ClientInv, MicInv
  <2>9. FlagInv'
    BY <1>1, <1>2, <1>4, <2>1, <2>2, <2>3, <2>5 DEF FlagInv, Busy
  <2>10. FinallyInv'
    BY <1>1, <2>3 DEF FinallyInv, Quiet
  <2>11. EmitInv'
    <3>1. Emitting' = {}
      BY <1>1, <2>3 DEF Emitting
    <3> QED
      BY <3>1 DEF EmitInv
  <2>12. CutInv'
    <3> SUFFICES ASSUME NEW b \in cutShort
                 PROVE  /\ co'[b] # "idle" /\ current # b
                        /\ \A r \in Callers : neg'[<<b, r>>] \notin Busy
      BY <1>1, <1>4 DEF CutInv
    <3>1. b \in Attempts /\ b # a /\ current # b /\ co[b] # "idle"
          /\ \A r \in Callers : neg[<<b, r>>] \notin Busy
      BY <1>1 DEF ClientInv, CutInv, TypeOK
    <3>2. \A r \in Callers : neg'[<<b, r>>] = neg[<<b, r>>]
      BY <2>3, <3>1
    <3> QED
      BY <2>3, <3>1, <3>2
  <2> QED
    BY <2>6, <2>7, <2>8, <2>9, <2>10, <2>11, <2>12 DEF ClientInv
<1> QED
  BY <1>3, <1>4 DEF MicrophoneGranted

(* Lemma: connect() goes on or resumes, wherever it waited.                *)
LEMMA ResumeKeeps ==
    ASSUME TypeOK, ClientInv, NEW a \in Attempts, Resume(a)
    PROVE  ClientInv'
<1> USE NegotiationShape
<1>1. CASE \/ MicrophoneGranted(a) /\ Fail(a, {a})
           \/ MicrophoneRefused(a) \/ (ResumeMedia(a) /\ Fail(a, {}))
  <2>1. /\ co[a] # "idle" /\ Emitting = {}
        /\ UNCHANGED <<calls, replacements, cutShort, ready, replacing, restarting>>
        /\ Fail(a, {}) \/ Fail(a, {a})
    BY <1>1 DEF ResumeMedia, MicrophoneGranted, MicrophoneRefused, Quiet
  <2> QED
    BY <2>1, FailKeeps
<1>2. CASE ResumeMedia(a) /\ ~Fail(a, {})
  <2>1. /\ co[a] = "media" /\ current = a /\ status = "connecting"
        /\ Emitting = {}
        /\ status' = "connected" /\ co' = [co EXCEPT ![a] = "resolved"]
        /\ UNCHANGED <<current, signaling, peerConnection, localStream,
                       mediaWait, negotiating, resources, neg, calls,
                       replacements, cutShort, ready, replacing>>
    BY <1>2 DEF ResumeMedia, Active
  <2>2. /\ co'[a] = "resolved" /\ \A b \in Attempts \ {a} : co'[b] = co[b]
    BY <2>1 DEF TypeOK
  <2>3. StageInv'
    BY <2>1, <2>2 DEF ClientInv, StageInv, StageOf, resources
  <2>4. signaling = a /\ peerConnection = a /\ socket[a] = "open"
    BY <2>1 DEF ClientInv, FieldInv, ConnectingOf
  <2>5. FieldInv'
    BY <2>1, <2>2, <2>4 DEF ClientInv, FieldInv, NothingLeaks,
          OneAttemptAtATime, Leftover, resources
  <2>6. MicInv' /\ FlagInv'
    BY <2>1 DEF ClientInv, MicInv, FlagInv, resources
  <2>7. FinallyInv'
    BY <2>1 DEF ClientInv, FinallyInv, HasSession
  <2>8. EmitInv'
    <3>1. Emitting' = {}
      BY <2>1, <2>2 DEF Emitting
    <3> QED
      BY <3>1 DEF EmitInv
  <2>9. CutInv'
    BY <2>1, <2>2 DEF ClientInv, CutInv, TypeOK
  <2> QED
    BY <2>3, <2>5, <2>6, <2>7, <2>8, <2>9 DEF ClientInv
<1> QED
  BY <1>1, <1>2, DialKeeps, ResumeSignalingKeeps, MakePeerKeeps,
     MicrophoneKeeps DEF Resume

(* Lemma: a negotiation moves on only while its peer is the present one,   *)
(* and its finally block clears no flag but its own.                       *)
LEMMA NegotiateKeeps ==
    ASSUME TypeOK, ClientInv, NEW n \in Attempts \X Callers, Negotiate(n)
    PROVE  ClientInv'
<1> USE NegotiationShape
<1>1. /\ neg[n] \in Busy
      /\ neg[n] # "failing" => pc[n[1]] # "closed"
      /\ \E s \in {"answering", "failing", "applying", "ok", "threw"} :
            /\ neg' = [neg EXCEPT ![n] = s]
            /\ s = "failing" => neg[n] # "failing"
            /\ \/ s \in Busy /\ negotiating' = negotiating
               \/ s \notin Busy /\ negotiating' = FALSE
      /\ UNCHANGED <<status, current, signaling, peerConnection, localStream,
                     mediaWait, calls, replacements, cutShort, resources, co,
                     ready, replacing>>
      /\ Emitting = {}
  BY DEF Negotiate, NegOffers, NegAnswered, NegApplied, NegFinally, NegMoves,
         Quiet, Busy
<1>2. /\ neg'[n] # "idle"
      /\ neg'[n] = "failing" => neg[n] # "failing"
      /\ \/ neg'[n] \in Busy /\ negotiating' = negotiating
         \/ neg'[n] \notin Busy /\ negotiating' = FALSE
      /\ \A m \in Attempts \X Callers : m # n => neg'[m] = neg[m]
  BY <1>1 DEF TypeOK
<1>3. /\ pc[n[1]] # "none" /\ n[1] \notin cutShort
      /\ co[n[1]] \notin {"idle", "dialling", "signaling", "peering", "gum"}
  <2>1. neg[n] # "idle" /\ n = <<n[1], n[2]>> /\ n[2] \in Callers
    BY <1>1 DEF Busy
  <2>2. n[1] \notin cutShort
    BY <1>1, <2>1 DEF ClientInv, CutInv
  <2> QED
    BY <2>1, <2>2 DEF ClientInv, StageInv, StageOf
<1>4. neg[n] # "failing" => peerConnection = n[1]
  BY <1>1, <1>3 DEF ClientInv, FieldInv, NothingLeaks, TypeOK
<1>5. n[1] # peerConnection => ~negotiating
  <2> SUFFICES ASSUME n[1] # peerConnection PROVE ~negotiating
    OBVIOUS
  <2>1. ~HasSession
    BY <1>1, <1>4 DEF ClientInv, FinallyInv
  <2>2. status # "connected" /\ (status = "connecting" => co[current] # "media")
    BY <2>1 DEF HasSession, ClientInv, FieldInv, ConnectingOf
  <2> QED
    BY <2>2 DEF ClientInv, FieldInv, ConnectingOf, TypeOK
<1>6. StageInv'
  <2> SUFFICES ASSUME NEW a \in Attempts PROVE StageOf(a)'
    BY DEF StageInv
  <2>1. ASSUME NEW r \in Callers, neg'[<<a, r>>] # "idle"
        PROVE  /\ co[a] \notin {"idle", "dialling", "signaling", "peering", "gum"}
               /\ pc[a] # "none"
    <3>1. CASE <<a, r>> = n
      <4>1. n[1] = a
        BY <3>1
      <4> QED
        BY <1>3, <4>1
    <3>2. CASE <<a, r>> # n
      BY <1>2, <2>1, <3>2 DEF ClientInv, StageInv, StageOf
    <3> QED
      BY <3>1, <3>2
  <2> QED
    BY <1>1, <2>1 DEF ClientInv, StageInv, StageOf, resources
<1>7. FieldInv'
  <2>1. negotiating' => negotiating
    BY <1>2
  <2> QED
    BY <1>1, <2>1 DEF ClientInv, FieldInv, NothingLeaks, OneAttemptAtATime,
                      ConnectingOf, Leftover, resources
<1>8. MicInv'
  BY <1>1 DEF ClientInv, MicInv, resources
<1>9. FlagInv'
  <2>1. \A m \in Attempts \X Callers : neg'[m] \in Busy => neg[m] \in Busy
    BY <1>1, <1>2
  <2>2. \A m, k \in Attempts \X Callers :
           /\ neg'[m] \in Busy /\ m[1] = peerConnection'
           /\ neg'[k] \in Busy /\ k[1] = peerConnection'
           => m = k
    BY <1>1, <2>1 DEF ClientInv, FlagInv
  <2>3. CASE n[1] = peerConnection
    <3>1. \A m \in Attempts \X Callers :
             neg[m] \in Busy /\ m[1] = peerConnection => m = n
      BY <1>1, <2>3 DEF ClientInv, FlagInv
    <3>2. negotiating' <=> \E m \in Attempts \X Callers :
                              neg'[m] \in Busy /\ m[1] = peerConnection
      <4>1. negotiating
        BY <1>1, <2>3 DEF ClientInv, FlagInv
      <4>2. CASE neg'[n] \in Busy
        BY <1>2, <2>3, <4>1, <4>2
      <4>3. CASE neg'[n] \notin Busy
        BY <1>2, <2>1, <3>1, <4>3
      <4> QED
        BY <4>2, <4>3
    <3> QED
      BY <1>1, <2>2, <3>2 DEF FlagInv
  <2>4. CASE n[1] # peerConnection
    <3>1. ~negotiating /\ ~negotiating'
      BY <1>2, <1>5, <2>4
    <3> QED
      BY <1>1, <2>1, <2>2, <3>1 DEF ClientInv, FlagInv
  <2> QED
    BY <2>3, <2>4
<1>10. FinallyInv'
  BY <1>1, <1>2, <1>4 DEF ClientInv, FinallyInv, HasSession
<1>11. EmitInv'
  BY <1>1 DEF EmitInv, Emitting
<1>12. CutInv'
  <2> SUFFICES ASSUME NEW a \in cutShort, NEW r \in Callers
               PROVE  neg'[<<a, r>>] \notin Busy
    BY <1>1 DEF ClientInv, CutInv
  <2>1. a \in Attempts /\ <<a, r>> # n
    BY <1>3 DEF TypeOK
  <2> QED
    BY <1>2, <2>1 DEF ClientInv, CutInv
<1> QED
  BY <1>6, <1>7, <1>8, <1>9, <1>10, <1>11, <1>12 DEF ClientInv

(* Lemma: restartIce() begins when no negotiation of the peer is busy.     *)
LEMMA RestartKeeps ==
    ASSUME TypeOK, ClientInv, NEW a \in Attempts, RestartIce(a)
    PROVE  ClientInv'
<1> USE NegotiationShape
<1>1. /\ status = "connected" /\ peerConnection = a
      /\ UNCHANGED <<status, current, signaling, peerConnection, localStream,
                     mediaWait, resources, calls, replacements, cutShort, co,
                     ready, replacing>>
  BY DEF RestartIce
<1>2. CASE UNCHANGED <<neg, negotiating>>
  BY <1>1, <1>2, FrameKeeps DEF resources
<1>3. CASE ~UNCHANGED <<neg, negotiating>>
  <2>1. /\ ~negotiating /\ negotiating' = TRUE
        /\ neg' = [neg EXCEPT ![<<a, "restart">>] = "offering"]
    BY <1>3 DEF RestartIce
  <2>2. <<a, "restart">> \in Attempts \X Callers
    BY DEF Callers
  <2>3. /\ neg'[<<a, "restart">>] = "offering"
        /\ \A n \in Attempts \X Callers : n # <<a, "restart">> => neg'[n] = neg[n]
    BY <2>1, <2>2 DEF TypeOK
  <2>4. /\ co[a] = "resolved" /\ pc[a] # "none"
    BY <1>1 DEF ClientInv, FieldInv, OneAttemptAtATime
  <2>5. StageInv'
    <3> SUFFICES ASSUME NEW b \in Attempts PROVE StageOf(b)'
      BY DEF StageInv
    <3>1. CASE b = a
      BY <1>1, <2>4, <3>1 DEF ClientInv, StageInv, StageOf, resources
    <3>2. CASE b # a
      <4>1. \A r \in Callers : neg'[<<b, r>>] = neg[<<b, r>>]
        BY <2>3, <3>2
      <4> QED
        BY <1>1, <4>1 DEF ClientInv, StageInv, StageOf, resources
    <3> QED
      BY <3>1, <3>2
  <2>6. FieldInv'
    BY <1>1 DEF ClientInv, FieldInv, NothingLeaks, OneAttemptAtATime, Leftover,
                resources
  <2>7. MicInv'
    BY <1>1 DEF ClientInv, MicInv, resources
  <2>8. \A n \in Attempts \X Callers : neg[n] \in Busy => n[1] # peerConnection
    BY <2>1 DEF ClientInv, FlagInv
  <2>9. FlagInv'
    BY <1>1, <2>1, <2>2, <2>3, <2>8 DEF FlagInv, Busy
  <2>10. FinallyInv'
    BY <1>1, <2>3 DEF ClientInv, FinallyInv, HasSession
  <2>11. EmitInv'
    BY <1>1 DEF ClientInv, EmitInv, Emitting
  <2>12. CutInv'
    <3> SUFFICES ASSUME NEW b \in cutShort, NEW r \in Callers
                 PROVE  neg'[<<b, r>>] \notin Busy
      BY <1>1 DEF ClientInv, CutInv
    <3>1. b \in Attempts /\ b # a
      BY <1>1 DEF TypeOK, ClientInv, CutInv, FieldInv, OneAttemptAtATime
    <3>2. <<b, r>> # <<a, "restart">>
      BY <3>1
    <3> QED
      BY <2>3, <3>1, <3>2 DEF ClientInv, CutInv
  <2> QED
    BY <2>5, <2>6, <2>7, <2>9, <2>10, <2>11, <2>12 DEF ClientInv
<1> QED
  BY <1>2, <1>3

(* Lemma: a replacement never touches the microphone of an attempt, except *)
(* to stop it.                                                             *)
LEMMA ReplaceKeeps ==
    ASSUME TypeOK, ClientInv, Replace
    PROVE  ClientInv'
<1> USE NegotiationShape
<1>1. CASE ReplaceMicrophone
  <2>1. replacements' > 0 /\ replacing'.at = "gum"
    BY <1>1 DEF ReplaceMicrophone, TypeOK
  <2> QED
    BY <1>1, <2>1, FrameKeeps DEF ReplaceMicrophone, fields, resources
<1>2. CASE ReplacementGranted \/ ReplacementSent
  <2>1. /\ UNCHANGED <<status, current, signaling, peerConnection, mediaWait,
                       negotiating, calls, replacements, cutShort, socket, pc,
                       co, ready, neg>>
        /\ replacing.at \in {"gum", "sender"}
        /\ \/ SwapMicrophone
           \/ /\ mic' = mic \/ mic' = [mic EXCEPT ![NextStream] = "live"]
              /\ localStream' = localStream
    BY <1>2 DEF ReplacementGranted, ReplacementSent
  <2>2. NextStream \notin Attempts /\ NextStream # None
    <3>1. replacements > 0
      BY <2>1 DEF ClientInv, MicInv
    <3> QED
      BY <3>1, BrowserAssumption
         DEF BrowserAssumption, NextStream, Attempts, None, TypeOK
  <2>3. \A a \in Attempts : mic'[a] = "live" => mic[a] = "live" /\ localStream' = a
    <3>1. CASE SwapMicrophone
      <4>1. \A a \in Attempts : mic'[a] = IF a = localStream THEN "stopped" ELSE mic[a]
        BY <2>2, <3>1 DEF SwapMicrophone, Stop
      <4> QED
        BY <4>1 DEF ClientInv, MicInv
    <3>2. CASE localStream' = localStream
               /\ (mic' = mic \/ mic' = [mic EXCEPT ![NextStream] = "live"])
      BY <2>2, <3>2 DEF ClientInv, MicInv, TypeOK
    <3> QED
      BY <2>1, <3>1, <3>2
  <2>4. localStream' = localStream \/ localStream' \notin Attempts
    BY <2>1, <2>2 DEF SwapMicrophone
  <2>5. FieldInv'
    BY <2>1, <2>4 DEF ClientInv, FieldInv, NothingLeaks, OneAttemptAtATime,
                      ConnectingOf, Leftover
  <2>6. MicInv'
    <3>1. replacing'.at # "idle" => replacements > 0
      BY <2>1 DEF ClientInv, MicInv
    <3> QED
      BY <2>1, <2>3, <3>1 DEF MicInv
  <2>7. StageInv' /\ FlagInv' /\ FinallyInv'
    BY <2>1 DEF ClientInv, StageInv, StageOf, FlagInv, FinallyInv, HasSession
  <2>8. EmitInv' /\ CutInv'
    BY <2>1 DEF ClientInv, EmitInv, Emitting, CutInv
  <2> QED
    BY <2>5, <2>6, <2>7, <2>8 DEF ClientInv
<1> QED
  BY <1>1, <1>2 DEF Replace

(* The lifecycle of the client: attempts, fields, microphones, and the     *)
(* flag of #negotiate.                                                     *)
THEOREM LifecycleInvariant == Spec => []ClientInv
<1>1. Init => ClientInv
  <2> SUFFICES ASSUME Init PROVE ClientInv
    OBVIOUS
  <2> USE NegotiationShape
  <2>1. StageInv
    BY DEF Init, StageInv, StageOf
  <2>2. FieldInv
    BY DEF Init, FieldInv, NothingLeaks, OneAttemptAtATime, Leftover
  <2>3. MicInv
    BY DEF Init, MicInv
  <2>4. FlagInv /\ FinallyInv /\ EmitInv /\ CutInv
    BY DEF Init, FlagInv, FinallyInv, HasSession, Busy, EmitInv, Emitting, CutInv
  <2> QED
    BY <2>1, <2>2, <2>3, <2>4 DEF ClientInv
<1>2. TypeOK /\ ClientInv /\ [Next]_vars => ClientInv'
  <2> SUFFICES ASSUME TypeOK, ClientInv, [Next]_vars PROVE ClientInv'
    OBVIOUS
  <2>1. CASE Disconnect
    BY <2>1, EndCallKeeps DEF Disconnect, EndCall
  <2>2. ASSUME NEW a \in Attempts \cup {None}, RestartFails(a) PROVE ClientInv'
    BY <2>2, EndCallKeeps DEF RestartFails, EndCall
  <2>3. CASE MediaTimeout
    BY <2>3, FrameKeeps DEF MediaTimeout, resources
  <2>4. CASE UNCHANGED vars
    BY <2>4, FrameKeeps DEF vars, fields, resources, tasks
  <2> QED
    BY <2>1, <2>2, <2>3, <2>4, ConnectKeeps, GatewayKeeps, PeerKeeps,
       ResumeKeeps, RestartKeeps, NegotiateKeeps, ReplaceKeeps DEF Next
<1> QED
  BY <1>1, <1>2, ClientTypes, PTL DEF Spec

-----------------------------------------------------------------------------
(* However an attempt ends, its socket, its peer connection and the        *)
(* microphone that was granted to it are released; of an attempt that a    *)
(* listener ended from inside connect(), the microphone.                   *)
THEOREM ResourcesAreReleased == Spec => []ResourcesReleased
<1>1. ClientInv => ResourcesReleased
  <2> SUFFICES ASSUME ClientInv PROVE ResourcesReleased
    OBVIOUS
  <2>1. MicrophoneReleased
    BY DEF ClientInv, FieldInv, MicInv, MicrophoneReleased
  <2> QED
    BY <2>1 DEF ClientInv, FieldInv, ResourcesReleased
<1> QED
  BY <1>1, LifecycleInvariant, PTL

(* The fields and the negotiation flag are never a mix of two attempts,    *)
(* but for what an attempt that a listener cut short left in them.         *)
THEOREM AttemptsAreSeparate == Spec => []AttemptsSeparate
<1>1. TypeOK /\ ClientInv => AttemptsSeparate
  <2> SUFFICES ASSUME TypeOK, ClientInv PROVE AttemptsSeparate
    OBVIOUS
  <2>1. OneAttemptAtATime
    BY DEF ClientInv, FieldInv
  <2>2. \A a \in Attempts :
           Active(a) /\ co[a] \in {"signaling", "peering", "gum"} =>
              Leftover(mediaWait) /\ ~negotiating
    BY DEF ClientInv, FieldInv, ConnectingOf, Active
  <2>3. ASSUME Quiet
        PROVE  negotiating <=>
                  \E n \in Attempts \X Callers :
                     /\ neg[n] \in {"offering", "answering", "applying"}
                     /\ n[1] = peerConnection
    <3>1. \A n \in Attempts \X Callers :
             neg[n] \in Busy <=> neg[n] \in {"offering", "answering", "applying"}
      BY <2>3 DEF Quiet, Busy
    <3> QED
      BY <3>1 DEF ClientInv, FlagInv
  <2> QED
    BY <2>1, <2>2, <2>3 DEF AttemptsSeparate, NegotiationFlagExact
<1> QED
  BY <1>1, ClientTypes, LifecycleInvariant, PTL

(* A connect() that was superseded changes no field, no socket and no peer *)
(* when it resumes.                                                        *)
THEOREM SupersededIsHarmless == Spec => StaleConnectIsHarmless
<1> DEFINE A == \A a \in Attempts :
                   current # a /\ co[a] \notin {"idle", "dialling", "rejected"}
                      /\ co'[a] = "rejected"
                   => UNCHANGED <<fields, socket, pc>>
<1>1. TypeOK /\ ClientInv /\ [Next]_vars => [A]_vars
  <2> SUFFICES ASSUME TypeOK, ClientInv, Next, NEW a \in Attempts,
                      current # a, co[a] \notin {"idle", "dialling", "rejected"},
                      co'[a] = "rejected"
               PROVE  UNCHANGED <<fields, socket, pc>>
    OBVIOUS
  <2>1. co' # co
    OBVIOUS
  <2>2. CASE Connect
    <3>1. co'[a] = co[a] \/ co'[a] = "dialling"
      BY <2>2 DEF Connect, TypeOK
    <3> QED
      BY <3>1
  <2>3. ASSUME NEW b \in Attempts, Resume(b)
        PROVE  UNCHANGED <<fields, socket, pc>>
    <3>1. \A c \in Attempts \ {b} : co'[c] = co[c]
      BY <2>3 DEF Resume, Dial, ResumeSignaling, MakePeer, ResumeMedia,
                  MicrophoneGranted, MicrophoneRefused, StartMedia, Fail, TypeOK
    <3>2. b = a
      BY <3>1
    <3>3. Fail(a, {}) \/ Fail(a, {a})
      BY <2>3, <3>2 DEF Resume, Dial, ResumeSignaling, MakePeer, ResumeMedia,
            MicrophoneGranted, MicrophoneRefused, StartMedia, Active, TypeOK
    <3> QED
      BY <3>3 DEF Fail
  <2>4. ASSUME Disconnect \/ MediaTimeout \/ Replace PROVE FALSE
    BY <2>1, <2>4 DEF Disconnect, MediaTimeout, Replace, ReplaceMicrophone,
                      ReplacementGranted, ReplacementSent
  <2>5. ASSUME NEW b \in Attempts, Gateway(b) \/ Peer(b) \/ RestartIce(b)
        PROVE  FALSE
    BY <2>1, <2>5 DEF Gateway, GatewayReady, SignalingFails, GatewayCloses,
             SessionClosed, Peer, PeerConnects, PeerFails, RestartIce
  <2>6. ASSUME NEW b \in Attempts \cup {None}, RestartFails(b) PROVE FALSE
    BY <2>1, <2>6 DEF RestartFails
  <2>7. ASSUME NEW n \in Attempts \X Callers, Negotiate(n) PROVE FALSE
    BY <2>1, <2>7 DEF Negotiate, NegOffers, NegAnswered, NegApplied,
                      NegFinally, NegMoves
  <2> QED
    BY <2>2, <2>3, <2>4, <2>5, <2>6, <2>7 DEF Next
<1> QED
  BY <1>1, ClientTypes, LifecycleInvariant, PTL DEF Spec, StaleConnectIsHarmless
===============================================================================
