-------------------------- MODULE BrowserNegotiation --------------------------
(***************************************************************************)
(* Offers, answers and trickled candidates of one browser connection       *)
(* (#negotiate and its helpers in vox-rtc-client/src/client.ts, the        *)
(* exchange half of signaling.ts).                                         *)
(*                                                                         *)
(* Negotiation 1 is connect()'s, the others are restartIce()'s.  Both      *)
(* sides number candidates by negotiation; each candidate here also knows  *)
(* the negotiation it was really gathered for.  The peer connection and    *)
(* the gateway with Vox behind it are external: the gateway keeps the      *)
(* order of messages in each direction, and Vox labels what it sends with  *)
(* the last offer it has.                                                  *)
(***************************************************************************)
EXTENDS Naturals, Sequences

CONSTANTS
    MaxNegotiations,     \* bound on connect() and restartIce() together
    MaxLocalCandidates,  \* bound on the browser's candidates
    MaxVoxCandidates     \* bound on Vox's candidates

ASSUME NegotiationAssumption ==
    /\ MaxNegotiations \in Nat \ {0}
    /\ MaxLocalCandidates \in Nat /\ MaxVoxCandidates \in Nat

Generations == 1..MaxNegotiations

(* A candidate: its number in order of gathering, and its generation.      *)
Candidates(bound) == [n : 1..bound, generation : Generations]

VARIABLES
    status,                     \* connecting, connected or closed
    at,                         \* where #negotiate is
    negotiationGeneration,      \* of the signaling client
    awaitingRemoteDescription,
    bufferLocalCandidates,
    pendingLocalCandidates,
    pendingServerCandidates,
    flushing,                   \* what #flushServerCandidates has left
    \* The peer connection.
    localDescription,           \* the negotiation of pc.localDescription
    remoteDescription,          \* the negotiation of pc.remoteDescription
    gathered,                   \* local candidates gathered so far
    applied,                    \* <<candidate, remoteDescription>> in order
    early,                      \* candidates that came before their answer
    \* The gateway and Vox.
    toVox,                      \* messages under way to Vox
    toBrowser,                  \* messages under way to the browser
    voxGeneration,              \* the last offer Vox has
    voxAnswered,                \* the last offer Vox has answered
    voxSent,                    \* candidates Vox has sent so far
    received                    \* <<candidate, label, voxGeneration>> at Vox

clientVars == <<status, at, negotiationGeneration, awaitingRemoteDescription,
                bufferLocalCandidates, pendingLocalCandidates,
                pendingServerCandidates, flushing>>
peerVars == <<localDescription, remoteDescription, gathered, applied, early>>
voxVars == <<toVox, toBrowser, voxGeneration, voxAnswered, voxSent,
             received>>
vars == <<clientVars, peerVars, voxVars>>

Offer(g) == [type |-> "rtc.offer", generation |-> g]
Answer(g) == [type |-> "rtc.answer", generation |-> g]
Refusal(g) == [type |-> "gateway.error", generation |-> g]
Trickle(c, label) ==
    [type |-> "rtc.ice_candidate", generation |-> label, candidate |-> c]

Init ==
    /\ status = "connecting"
    /\ at = "idle"
    /\ negotiationGeneration = 0
    /\ awaitingRemoteDescription = FALSE
    /\ bufferLocalCandidates = FALSE
    /\ pendingLocalCandidates = <<>>
    /\ pendingServerCandidates = <<>>
    /\ flushing = <<>>
    /\ localDescription = 0 /\ remoteDescription = 0
    /\ gathered = 0
    /\ applied = <<>>
    /\ early = {}
    /\ toVox = <<>> /\ toBrowser = <<>>
    /\ voxGeneration = 0 /\ voxAnswered = 0
    /\ voxSent = 0
    /\ received = <<>>

-----------------------------------------------------------------------------
(* #negotiate up to createOffer.                                           *)
NegotiateBegins ==
    /\ at' = "createOffer"
    /\ awaitingRemoteDescription' = TRUE
    /\ bufferLocalCandidates' = TRUE
    /\ pendingLocalCandidates' = <<>>

(* connect() negotiates once, restartIce() when connected.  While another  *)
(* negotiation runs, restartIce() fails, which ends the call.              *)
Negotiate ==
    /\ at = "idle"
    /\ \/ status = "connecting" /\ negotiationGeneration = 0
       \/ status = "connected" /\ negotiationGeneration < MaxNegotiations
    /\ NegotiateBegins
    /\ UNCHANGED <<status, negotiationGeneration, pendingServerCandidates,
                   flushing, peerVars, voxVars>>

(* #cleanup: the call is over.                                             *)
CloseCall ==
    /\ status # "closed"
    /\ status' = "closed"
    /\ at' = "idle"
    /\ awaitingRemoteDescription' = FALSE
    /\ bufferLocalCandidates' = FALSE
    /\ pendingLocalCandidates' = <<>>
    /\ pendingServerCandidates' = <<>>
    /\ flushing' = <<>>
    /\ UNCHANGED <<negotiationGeneration, peerVars>>

(* The call ends for a reason of its own, because a peer operation of      *)
(* #negotiate rejected, or because restartIce() found one running.         *)
Close == CloseCall /\ UNCHANGED voxVars

(* createOffer resolves and setLocalDescription takes the offer.  From     *)
(* here on the peer gathers candidates for it, also before the promise     *)
(* resolves.                                                               *)
CreateOffer ==
    /\ at = "createOffer"
    /\ at' = "setLocal"
    /\ localDescription' = negotiationGeneration + 1
    /\ UNCHANGED <<status, negotiationGeneration, awaitingRemoteDescription,
                   bufferLocalCandidates, pendingLocalCandidates,
                   pendingServerCandidates, flushing, remoteDescription,
                   gathered, applied, early, voxVars>>

(* Mutant of FlushLocalCandidates: the buffer goes out before the offer.   *)
FlushLocalFirst(offer, label) ==
    [i \in 1..Len(pendingLocalCandidates) |->
        Trickle(pendingLocalCandidates[i], label)] \o <<offer>>

(* exchangeOffer, then #flushLocalCandidates.                              *)
FlushLocalCandidates(offer, label) ==
    <<offer>> \o [i \in 1..Len(pendingLocalCandidates) |->
                     Trickle(pendingLocalCandidates[i], label)]

(* setLocalDescription resolves: the offer is sent under a new generation, *)
(* followed by what was buffered.                                          *)
ExchangeOffer ==
    /\ at = "setLocal"
    /\ at' = "answer"
    /\ negotiationGeneration' = negotiationGeneration + 1
    /\ toVox' = toVox \o FlushLocalCandidates(Offer(negotiationGeneration'),
                                              negotiationGeneration')
    /\ bufferLocalCandidates' = FALSE
    /\ pendingLocalCandidates' = <<>>
    /\ UNCHANGED <<status, awaitingRemoteDescription, pendingServerCandidates,
                   flushing, peerVars, toBrowser, voxGeneration, voxAnswered, voxSent,
                   received>>

(* onicecandidate: buffer the candidate or send it under the signaling     *)
(* client's generation.                                                    *)
LocalCandidate ==
    /\ status # "closed"
    /\ localDescription # 0 /\ gathered < MaxLocalCandidates
    /\ gathered' = gathered + 1
    /\ LET c == [n |-> gathered', generation |-> localDescription] IN
       \/ /\ bufferLocalCandidates
          /\ pendingLocalCandidates' = Append(pendingLocalCandidates, c)
          /\ UNCHANGED toVox
       \/ /\ ~bufferLocalCandidates
          /\ toVox' = Append(toVox, Trickle(c, negotiationGeneration))
          /\ UNCHANGED pendingLocalCandidates
    /\ UNCHANGED <<status, at, negotiationGeneration,
                   awaitingRemoteDescription, bufferLocalCandidates,
                   pendingServerCandidates, flushing, localDescription,
                   remoteDescription, applied, early, toBrowser,
                   voxGeneration, voxAnswered, voxSent, received>>

-----------------------------------------------------------------------------
(* The next message of the gateway.                                        *)
Receives(type) ==
    /\ status # "closed"
    /\ toBrowser # <<>> /\ Head(toBrowser).type = type
    /\ toBrowser' = Tail(toBrowser)

(* rtc.answer to the pending offer: setRemoteDescription is called.        *)
AnswerArrives ==
    /\ at = "answer"
    /\ Receives("rtc.answer")
    /\ at' = "setRemote"
    /\ UNCHANGED <<status, negotiationGeneration, awaitingRemoteDescription,
                   bufferLocalCandidates, pendingLocalCandidates,
                   pendingServerCandidates, flushing, peerVars, toVox,
                   voxGeneration, voxAnswered, voxSent, received>>

(* The peer takes a candidate.                                             *)
AddIceCandidate(c) == applied' = Append(applied, <<c, remoteDescription'>>)

(* #negotiate's finally block.                                             *)
NegotiateEnds ==
    /\ at' = "idle"
    /\ awaitingRemoteDescription' = FALSE
    /\ bufferLocalCandidates' = FALSE
    /\ pendingLocalCandidates' = <<>>

(* setRemoteDescription resolves: #flushServerCandidates takes the buffer  *)
(* and applies its first candidate, or there is none.                      *)
SetRemoteDescription ==
    /\ at = "setRemote"
    /\ remoteDescription' = negotiationGeneration
    /\ pendingServerCandidates' = <<>>
    /\ \/ /\ pendingServerCandidates = <<>>
          /\ NegotiateEnds
          /\ UNCHANGED <<flushing, applied>>
       \/ /\ pendingServerCandidates # <<>>
          /\ at' = "flush"
          /\ awaitingRemoteDescription' = FALSE
          /\ AddIceCandidate(Head(pendingServerCandidates))
          /\ flushing' = Tail(pendingServerCandidates)
          /\ UNCHANGED <<bufferLocalCandidates, pendingLocalCandidates>>
    /\ UNCHANGED <<status, negotiationGeneration, localDescription, gathered,
                   early, voxVars>>

(* addIceCandidate of the flush resolves: apply the next one, or end.      *)
FlushServerCandidates ==
    /\ at = "flush"
    /\ UNCHANGED remoteDescription
    /\ \/ /\ flushing = <<>>
          /\ NegotiateEnds
          /\ UNCHANGED <<flushing, applied>>
       \/ /\ flushing # <<>>
          /\ AddIceCandidate(Head(flushing))
          /\ flushing' = Tail(flushing)
          /\ UNCHANGED <<at, awaitingRemoteDescription, bufferLocalCandidates,
                         pendingLocalCandidates>>
    /\ UNCHANGED <<status, negotiationGeneration, pendingServerCandidates,
                   localDescription, gathered, early, voxVars>>

(* #dispatch of the signaling client: candidates of other generations are  *)
(* dropped.                                                                *)
CurrentGeneration(m) == m.generation = negotiationGeneration

(* Mutant of HoldBack: only a missing description is looked at.            *)
HoldBackOnce == remoteDescription = 0

(* #handleSignalingEvent: the description is missing or about to change.   *)
HoldBack == remoteDescription = 0 \/ awaitingRemoteDescription

(* #pendingServerCandidates.push.                                          *)
BufferServerCandidate(c) == Append(pendingServerCandidates, c)

(* rtc.ice_candidate: drop, buffer or apply it.                            *)
ServerCandidate ==
    /\ Receives("rtc.ice_candidate")
    /\ UNCHANGED remoteDescription
    /\ LET m == Head(toBrowser) IN
       \/ /\ ~CurrentGeneration(m)
          /\ UNCHANGED <<pendingServerCandidates, applied, early>>
       \/ /\ CurrentGeneration(m) /\ HoldBack
          /\ pendingServerCandidates' = BufferServerCandidate(m.candidate)
          /\ early' = early \cup {m.candidate}
          /\ UNCHANGED applied
       \/ /\ CurrentGeneration(m) /\ ~HoldBack
          /\ AddIceCandidate(m.candidate)
          /\ UNCHANGED <<pendingServerCandidates, early>>
    /\ UNCHANGED <<status, at, negotiationGeneration,
                   awaitingRemoteDescription, bufferLocalCandidates,
                   pendingLocalCandidates, flushing, localDescription,
                   gathered, toVox, voxGeneration, voxAnswered, voxSent, received>>

(* gateway.error or rtc.signaling_error for the pending offer: #negotiate  *)
(* throws and its caller ends the call.                                    *)
OfferRefused ==
    /\ at = "answer"
    /\ Receives("gateway.error")
    /\ CloseCall
    /\ UNCHANGED <<toVox, voxGeneration, voxAnswered, voxSent, received>>

(* Mutant of OfferTimesOut: the pending entry is only deleted.             *)
OfferTimerForgets == at = "answer" /\ UNCHANGED vars

(* The timer of exchangeOffer fires: the same.                             *)
OfferTimesOut == at = "answer" /\ CloseCall /\ UNCHANGED voxVars

(* connect() resolves when negotiation and media are done.                 *)
ConnectResolves ==
    /\ status = "connecting" /\ at = "idle" /\ remoteDescription = 1
    /\ status' = "connected"
    /\ UNCHANGED <<at, negotiationGeneration, awaitingRemoteDescription,
                   bufferLocalCandidates, pendingLocalCandidates,
                   pendingServerCandidates, flushing, peerVars, voxVars>>

-----------------------------------------------------------------------------
(* Vox receives an offer or a candidate.                                   *)
VoxReceives ==
    /\ toVox # <<>>
    /\ toVox' = Tail(toVox)
    /\ LET m == Head(toVox) IN
       \/ /\ m.type = "rtc.offer"
          /\ voxGeneration' = m.generation
          /\ UNCHANGED received
       \/ /\ m.type = "rtc.ice_candidate"
          /\ received' = Append(received,
                                <<m.candidate, m.generation, voxGeneration>>)
          /\ UNCHANGED voxGeneration
    /\ UNCHANGED <<clientVars, peerVars, toBrowser, voxAnswered, voxSent>>

(* Vox answers its offer, or the gateway or Vox refuses it.                *)
VoxAnswers ==
    /\ voxAnswered # voxGeneration
    /\ voxAnswered' = voxGeneration
    /\ \E m \in {Answer(voxGeneration), Refusal(voxGeneration)} :
          toBrowser' = Append(toBrowser, m)
    /\ UNCHANGED <<clientVars, peerVars, toVox, voxGeneration, voxSent,
                   received>>

(* Vox trickles a candidate, before or after its answer.                   *)
VoxTrickles ==
    /\ voxGeneration # 0 /\ voxSent < MaxVoxCandidates
    /\ voxSent' = voxSent + 1
    /\ toBrowser' = Append(toBrowser,
                           Trickle([n |-> voxSent', generation |-> voxGeneration],
                                   voxGeneration))
    /\ UNCHANGED <<clientVars, peerVars, toVox, voxGeneration, voxAnswered,
                   received>>

-----------------------------------------------------------------------------
PeerStep == CreateOffer \/ SetRemoteDescription \/ FlushServerCandidates

Next ==
    \/ Negotiate \/ Close \/ PeerStep \/ ExchangeOffer \/ LocalCandidate
    \/ AnswerArrives \/ ServerCandidate \/ OfferRefused \/ OfferTimesOut
    \/ ConnectResolves
    \/ VoxReceives \/ VoxAnswers \/ VoxTrickles

Spec == Init /\ [][Next]_vars

(* Fairness: the operations of a live peer settle, timers fire.  Nothing   *)
(* is assumed of the gateway and of Vox.                                   *)
FairSpec ==
    Spec /\ WF_vars(PeerStep) /\ WF_vars(ExchangeOffer) /\ WF_vars(OfferTimesOut)

-----------------------------------------------------------------------------
LocalCandidates == Candidates(MaxLocalCandidates)
VoxCandidates == Candidates(MaxVoxCandidates)

ToVox == {Offer(g) : g \in Generations}
            \cup {Trickle(c, g) : c \in LocalCandidates, g \in 0..MaxNegotiations}
ToBrowser == {Answer(g) : g \in Generations}
                \cup {Refusal(g) : g \in Generations}
                \cup {Trickle(c, g) : c \in VoxCandidates, g \in Generations}

TypeOK ==
    /\ status \in {"connecting", "connected", "closed"}
    /\ at \in {"idle", "createOffer", "setLocal", "answer", "setRemote",
               "flush"}
    /\ negotiationGeneration \in 0..MaxNegotiations
    /\ localDescription \in 0..MaxNegotiations
    /\ remoteDescription \in 0..MaxNegotiations
    /\ voxGeneration \in 0..MaxNegotiations
    /\ voxAnswered \in 0..MaxNegotiations
    /\ awaitingRemoteDescription \in BOOLEAN
    /\ bufferLocalCandidates \in BOOLEAN
    /\ pendingLocalCandidates \in Seq(LocalCandidates)
    /\ pendingServerCandidates \in Seq(VoxCandidates)
    /\ flushing \in Seq(VoxCandidates)
    /\ gathered \in 0..MaxLocalCandidates /\ voxSent \in 0..MaxVoxCandidates
    /\ applied \in Seq(VoxCandidates \X (0..MaxNegotiations))
    /\ early \subseteq VoxCandidates
    /\ received \in Seq(LocalCandidates \X (0..MaxNegotiations)
                              \X (0..MaxNegotiations))
    /\ toVox \in Seq(ToVox) /\ toBrowser \in Seq(ToBrowser)

(* The number of the candidate a message carries, 0 for an offer.          *)
Carried(m) == IF m.type = "rtc.ice_candidate" THEN m.candidate.n ELSE 0

(* Vox gets every candidate after the offer it is labelled for and before  *)
(* the next one: buffering holds candidates back until their offer is out. *)
LabelledForOffer ==
    \A i \in 1..Len(received) : received[i][2] = received[i][3]

(* As long as the call lives no local candidate is lost, repeated or       *)
(* overtaken, although buffering is switched on and off around offers.     *)
LocalCandidatesInOrder ==
    status # "closed" =>
        LET line == [i \in 1..Len(received) |-> received[i][1].n]
                       \o [i \in 1..Len(toVox) |-> Carried(toVox[i])]
                       \o [i \in 1..Len(pendingLocalCandidates) |->
                             pendingLocalCandidates[i].n]
            places == {i \in 1..Len(line) : line[i] # 0}
        IN  /\ {line[i] : i \in places} = 1..gathered
            /\ \A i, j \in places : i < j => line[i] < line[j]

(* The browser's candidates reach Vox complete, in order and with their    *)
(* offer.                                                                  *)
OutgoingCandidates == LabelledForOffer /\ LocalCandidatesInOrder

(* The peer is never given a candidate of a negotiation whose answer it    *)
(* does not have yet, also not during an ICE restart.                      *)
NeverAppliedEarly ==
    \A i \in 1..Len(applied) : applied[i][1].generation <= applied[i][2]

(* "Candidates that arrive before the matching answer are buffered and     *)
(* applied in order": each of them is waiting or applied, once, in order.  *)
EarlyCandidatesInOrder ==
    status # "closed" =>
        LET line == [i \in 1..Len(applied) |-> applied[i][1]]
                       \o flushing \o pendingServerCandidates
            places == {i \in 1..Len(line) : i <= Len(applied) => line[i] \in early}
        IN  /\ {line[i] : i \in places} = early
            /\ \A i, j \in places : i < j => line[i].n < line[j].n

(* Vox's candidates reach the peer with an answer it has, the early ones   *)
(* in order.                                                               *)
IncomingCandidates == NeverAppliedEarly /\ EarlyCandidatesInOrder

(* A negotiation ends, with or without an answer.                          *)
NegotiationEnds == (at # "idle") ~> (at = "idle")
=============================================================================
