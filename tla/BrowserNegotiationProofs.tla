----------------------- MODULE BrowserNegotiationProofs -----------------------
(***************************************************************************)
(* TLAPS proofs about BrowserNegotiation: for any number of negotiations   *)
(* and of candidates on either side.                                       *)
(***************************************************************************)
EXTENDS BrowserNegotiation, TLAPS

USE NegotiationAssumption DEF NegotiationAssumption

(* How the flags of the client follow #negotiate.                          *)
StageInv ==
    /\ status = "closed" => at = "idle"
    /\ bufferLocalCandidates <=> at \in {"createOffer", "setLocal"}
    /\ awaitingRemoteDescription <=>
          at \in {"createOffer", "setLocal", "answer", "setRemote"}
    /\ at \in {"createOffer", "setLocal"} =>
          negotiationGeneration < MaxNegotiations
    /\ ~bufferLocalCandidates => pendingLocalCandidates = <<>>
    /\ at # "flush" => flushing = <<>>
    /\ remoteDescription <= negotiationGeneration
    /\ status # "closed" /\ ~awaitingRemoteDescription =>
          remoteDescription = negotiationGeneration
    /\ voxGeneration = 0 => voxAnswered = 0

(* The generation that is in force at Vox before the i-th message arrives. *)
Before(i) == IF i = 1 THEN voxGeneration ELSE toVox[i - 1].generation

(* A candidate carries the generation in force when it arrives, and after  *)
(* the last message under way the one of the browser is in force.          *)
LabelInv ==
    /\ \A i \in 1..Len(toVox) :
          Carried(toVox[i]) # 0 => toVox[i].generation = Before(i)
    /\ Before(Len(toVox) + 1) = negotiationGeneration

(* The browser's candidates stand in line: at Vox, under way, and held     *)
(* back, numbered without a gap.                                           *)
LineInv ==
    /\ Len(received) <= gathered
    /\ \A i \in 1..Len(received) : received[i][1].n = i
    /\ \A i \in 1..Len(toVox) : Carried(toVox[i]) # 0 =>
          Len(received) < Carried(toVox[i]) /\ Carried(toVox[i]) <= gathered
    /\ \A i, j \in 1..Len(toVox) :
          i < j /\ Carried(toVox[i]) # 0 /\ Carried(toVox[j]) # 0 =>
             Carried(toVox[i]) < Carried(toVox[j])
    /\ \A i \in 1..Len(pendingLocalCandidates) :
          /\ Len(received) < pendingLocalCandidates[i].n
          /\ pendingLocalCandidates[i].n <= gathered
          /\ \A j \in 1..Len(toVox) :
                Carried(toVox[j]) < pendingLocalCandidates[i].n
    /\ \A i, j \in 1..Len(pendingLocalCandidates) : i < j =>
          pendingLocalCandidates[i].n < pendingLocalCandidates[j].n
    /\ \A n \in 1..gathered :
          \/ n <= Len(received)
          \/ \E i \in 1..Len(toVox) : Carried(toVox[i]) = n
          \/ \E i \in 1..Len(pendingLocalCandidates) :
                pendingLocalCandidates[i].n = n

OutgoingInv == LabelInv /\ LabelledForOffer /\ (status # "closed" => LineInv)

-----------------------------------------------------------------------------
(* No candidate the browser holds is of a later negotiation than its own.  *)
GenerationInv ==
    /\ \A i \in 1..Len(pendingServerCandidates) :
          pendingServerCandidates[i].generation <= negotiationGeneration
    /\ \A i \in 1..Len(flushing) :
          flushing[i].generation <= negotiationGeneration
    /\ NeverAppliedEarly

(* What Vox sends is labelled with the negotiation it is for, and numbered *)
(* in the order of sending.                                                *)
WireInv ==
    /\ \A i \in 1..Len(toBrowser) : Carried(toBrowser[i]) # 0 =>
          toBrowser[i].candidate.generation = toBrowser[i].generation
    /\ \A i \in 1..Len(toBrowser) : Carried(toBrowser[i]) <= voxSent
    /\ \A i, j \in 1..Len(toBrowser) :
          i < j /\ Carried(toBrowser[i]) # 0 /\ Carried(toBrowser[j]) # 0 =>
             Carried(toBrowser[i]) < Carried(toBrowser[j])

(* What the browser has taken was sent before what is still under way.     *)
Taken == early \cup {applied[i][1] : i \in 1..Len(applied)}

AheadInv ==
    \A c \in Taken :
        /\ c.n <= voxSent
        /\ \A j \in 1..Len(toBrowser) :
              Carried(toBrowser[j]) # 0 => c.n < Carried(toBrowser[j])

(* The early candidates stand in line: applied, being flushed, held back.  *)
EarlyInv ==
    /\ \A i \in 1..Len(flushing) : flushing[i] \in early
    /\ \A i \in 1..Len(pendingServerCandidates) :
          pendingServerCandidates[i] \in early
    /\ \A c \in early :
          \/ \E i \in 1..Len(applied) : applied[i][1] = c
          \/ \E i \in 1..Len(flushing) : flushing[i] = c
          \/ \E i \in 1..Len(pendingServerCandidates) :
                pendingServerCandidates[i] = c
    /\ \A i, j \in 1..Len(applied) :
          i < j /\ applied[i][1] \in early /\ applied[j][1] \in early =>
             applied[i][1].n < applied[j][1].n
    /\ \A i, j \in 1..Len(flushing) : i < j => flushing[i].n < flushing[j].n
    /\ \A i, j \in 1..Len(pendingServerCandidates) : i < j =>
          pendingServerCandidates[i].n < pendingServerCandidates[j].n
    /\ \A i \in 1..Len(applied), j \in 1..Len(flushing) :
          applied[i][1] \in early => applied[i][1].n < flushing[j].n
    /\ \A i \in 1..Len(applied), j \in 1..Len(pendingServerCandidates) :
          applied[i][1] \in early =>
             applied[i][1].n < pendingServerCandidates[j].n
    /\ \A i \in 1..Len(flushing), j \in 1..Len(pendingServerCandidates) :
          flushing[i].n < pendingServerCandidates[j].n

IncomingInv ==
    GenerationInv /\ WireInv /\ AheadInv /\ (status # "closed" => EarlyInv)

-----------------------------------------------------------------------------
(* Types.                                                                  *)

(* Lemma: what a candidate and a message to Vox are.                       *)
LEMMA ToVoxShape ==
    /\ \A c \in LocalCandidates : c.n \in Nat \ {0}
    /\ \A m \in ToVox :
          /\ m.generation \in 0..MaxNegotiations /\ Carried(m) \in Nat
          /\ m.type \in {"rtc.offer", "rtc.ice_candidate"}
          /\ m.type = "rtc.offer" => m.generation \in Generations /\ Carried(m) = 0
          /\ m.type = "rtc.ice_candidate" =>
                /\ m.candidate \in LocalCandidates
                /\ Carried(m) = m.candidate.n /\ Carried(m) # 0
    /\ \A c \in LocalCandidates, g \in 0..MaxNegotiations :
          /\ Trickle(c, g) \in ToVox /\ Trickle(c, g).generation = g
          /\ Carried(Trickle(c, g)) = c.n
    /\ \A g \in Generations :
          /\ Offer(g) \in ToVox /\ Offer(g).generation = g
          /\ Carried(Offer(g)) = 0
<1>1. \A c \in LocalCandidates : c.n \in Nat \ {0}
  BY DEF LocalCandidates, Candidates
<1>2. ASSUME NEW g \in Generations
      PROVE  /\ Offer(g) \in ToVox /\ Offer(g).generation = g
             /\ Offer(g).type = "rtc.offer" /\ Carried(Offer(g)) = 0
             /\ g \in 0..MaxNegotiations
  BY DEF Offer, ToVox, Carried, Generations
<1>3. ASSUME NEW c \in LocalCandidates, NEW g \in 0..MaxNegotiations
      PROVE  /\ Trickle(c, g) \in ToVox /\ Trickle(c, g).generation = g
             /\ Trickle(c, g).type = "rtc.ice_candidate"
             /\ Trickle(c, g).candidate = c
             /\ Carried(Trickle(c, g)) = c.n
  BY DEF Trickle, ToVox, Carried
<1>4. ASSUME NEW m \in ToVox
      PROVE  \/ \E g \in Generations : m = Offer(g)
             \/ \E c \in LocalCandidates, g \in 0..MaxNegotiations : m = Trickle(c, g)
  BY DEF ToVox
<1> QED
  BY <1>1, <1>2, <1>3, <1>4

(* Lemma: the same for messages to the browser.                            *)
LEMMA ToBrowserShape ==
    /\ \A c \in VoxCandidates : c.n \in Nat \ {0} /\ c.generation \in Generations
    /\ \A m \in ToBrowser :
          /\ m.generation \in Generations /\ Carried(m) \in Nat
          /\ m.type # "rtc.ice_candidate" => Carried(m) = 0
          /\ m.type = "rtc.ice_candidate" =>
                /\ m.candidate \in VoxCandidates
                /\ Carried(m) = m.candidate.n /\ Carried(m) # 0
    /\ \A c \in VoxCandidates, g \in Generations :
          /\ Trickle(c, g) \in ToBrowser /\ Trickle(c, g).generation = g
          /\ Trickle(c, g).candidate = c /\ Carried(Trickle(c, g)) = c.n
    /\ \A g \in Generations :
          /\ Answer(g) \in ToBrowser /\ Carried(Answer(g)) = 0
          /\ Refusal(g) \in ToBrowser /\ Carried(Refusal(g)) = 0
<1>1. \A c \in VoxCandidates : c.n \in Nat \ {0} /\ c.generation \in Generations
  BY DEF VoxCandidates, Candidates
<1>2. ASSUME NEW g \in Generations
      PROVE  /\ Answer(g) \in ToBrowser /\ Answer(g).generation = g
             /\ Answer(g).type = "rtc.answer" /\ Carried(Answer(g)) = 0
             /\ Refusal(g) \in ToBrowser /\ Refusal(g).generation = g
             /\ Refusal(g).type = "gateway.error" /\ Carried(Refusal(g)) = 0
  BY DEF Answer, Refusal, ToBrowser, Carried
<1>3. ASSUME NEW c \in VoxCandidates, NEW g \in Generations
      PROVE  /\ Trickle(c, g) \in ToBrowser /\ Trickle(c, g).generation = g
             /\ Trickle(c, g).type = "rtc.ice_candidate"
             /\ Trickle(c, g).candidate = c
             /\ Carried(Trickle(c, g)) = c.n
  BY DEF Trickle, ToBrowser, Carried
<1>4. ASSUME NEW m \in ToBrowser
      PROVE  \/ \E g \in Generations : m = Answer(g) \/ m = Refusal(g)
             \/ \E c \in VoxCandidates, g \in Generations : m = Trickle(c, g)
  BY DEF ToBrowser
<1> QED
  BY <1>1, <1>2, <1>3, <1>4

(* Lemma: what exchangeOffer and #flushLocalCandidates put on the wire.    *)
LEMMA FlushShape ==
    ASSUME TypeOK, NEW g \in Generations
    PROVE  LET f == FlushLocalCandidates(Offer(g), g)
               k == Len(pendingLocalCandidates)
           IN  /\ f \in Seq(ToVox) /\ Len(f) = k + 1 /\ f[1] = Offer(g)
               /\ k \in Nat
               /\ \A i \in 1..k : f[i + 1] = Trickle(pendingLocalCandidates[i], g)
<1> DEFINE k == Len(pendingLocalCandidates)
           t == [i \in 1..k |-> Trickle(pendingLocalCandidates[i], g)]
<1>1. k \in Nat /\ \A i \in 1..k : pendingLocalCandidates[i] \in LocalCandidates
  BY DEF TypeOK
<1>2. g \in 0..MaxNegotiations
  BY DEF Generations
<1>3. \A i \in 1..k : Trickle(pendingLocalCandidates[i], g) \in ToVox
  BY <1>1, <1>2, ToVoxShape
<1>4. t \in Seq(ToVox) /\ Len(t) = k
  BY <1>1, <1>3
<1>5. <<Offer(g)>> \in Seq(ToVox) /\ Len(<<Offer(g)>>) = 1
      /\ <<Offer(g)>>[1] = Offer(g)
  BY ToVoxShape
<1>6. \A i \in 1..k : t[i] = Trickle(pendingLocalCandidates[i], g)
  OBVIOUS
<1> HIDE DEF t
<1>7. LET f == <<Offer(g)>> \o t
      IN  /\ f \in Seq(ToVox) /\ Len(f) = k + 1 /\ f[1] = Offer(g)
          /\ \A i \in 1..k : f[i + 1] = t[i]
  BY <1>1, <1>4, <1>5
<1> QED
  BY <1>1, <1>6, <1>7 DEF FlushLocalCandidates, t

TypeInv == TypeOK /\ StageInv

(* Lemma: an empty buffer is a buffer, also of messages.                   *)
LEMMA EmptyBuffers == \A S : <<>> \in Seq(S)
OBVIOUS

(* Lemma: the steps of #negotiate up to its answer keep types and stages.  *)
LEMMA OfferTypes ==
    ASSUME TypeInv, \/ Negotiate \/ Close \/ CreateOffer \/ ExchangeOffer
                    \/ LocalCandidate \/ AnswerArrives \/ OfferRefused
                    \/ OfferTimesOut \/ ConnectResolves
    PROVE  TypeInv'
<1> USE DEF TypeInv, peerVars, voxVars
<1>1. CASE Negotiate
  BY <1>1 DEF Negotiate, NegotiateBegins, TypeOK, StageInv
<1>2. ASSUME CloseCall, toBrowser' \in Seq(ToBrowser),
             UNCHANGED <<toVox, voxGeneration, voxAnswered, voxSent, received>>
      PROVE  TypeInv'
  <2>1. TypeOK'
    <3>1. /\ pendingLocalCandidates' \in Seq(LocalCandidates)
          /\ pendingServerCandidates' \in Seq(VoxCandidates)
          /\ flushing' \in Seq(VoxCandidates)
      BY <1>2, EmptyBuffers DEF CloseCall
    <3>2. status' = "closed" /\ at' = "idle" /\ awaitingRemoteDescription' = FALSE
          /\ bufferLocalCandidates' = FALSE /\ toBrowser' \in Seq(ToBrowser)
          /\ UNCHANGED <<negotiationGeneration, localDescription, remoteDescription,
                         gathered, applied, early, toVox, voxGeneration,
                         voxAnswered, voxSent, received>>
      BY <1>2 DEF CloseCall
    <3> QED
      BY <3>1, <3>2 DEF TypeOK
  <2>2. StageInv'
    BY <1>2 DEF CloseCall, TypeOK, StageInv
  <2> QED
    BY <2>1, <2>2
<1>3. CASE Close \/ OfferTimesOut
  BY <1>2, <1>3 DEF Close, OfferTimesOut, TypeOK
<1>4. CASE OfferRefused
  BY <1>2, <1>4 DEF OfferRefused, Receives, TypeOK
<1>5. CASE CreateOffer
  BY <1>5 DEF CreateOffer, TypeOK, StageInv
<1>6. CASE ExchangeOffer
  <2> DEFINE g == negotiationGeneration + 1
             f == FlushLocalCandidates(Offer(g), g)
  <2>1. g \in Generations /\ g \in 0..MaxNegotiations
    BY <1>6 DEF ExchangeOffer, TypeOK, StageInv, Generations
  <2>2. f \in Seq(ToVox)
    BY <2>1, FlushShape
  <2>3. toVox' = toVox \o f
    BY <1>6 DEF ExchangeOffer
  <2> HIDE DEF f
  <2>4. toVox' \in Seq(ToVox)
    BY <2>2, <2>3 DEF TypeOK
  <2>5. TypeOK'
    <3>1. pendingLocalCandidates' \in Seq(LocalCandidates)
      BY <1>6, EmptyBuffers DEF ExchangeOffer
    <3>2. at' = "answer" /\ negotiationGeneration' = g /\ bufferLocalCandidates' = FALSE
          /\ UNCHANGED <<status, awaitingRemoteDescription, pendingServerCandidates,
                   flushing, peerVars, toBrowser, voxGeneration, voxAnswered, voxSent,
                   received>>
      BY <1>6 DEF ExchangeOffer
    <3> QED
      BY <2>1, <2>4, <3>1, <3>2 DEF TypeOK
  <2>6. StageInv'
    BY <1>6 DEF ExchangeOffer, TypeOK, StageInv
  <2> QED
    BY <2>5, <2>6
<1>7. CASE LocalCandidate
  <2> DEFINE c == [n |-> gathered', generation |-> localDescription]
  <2>1. gathered' = gathered + 1 /\ gathered' \in 1..MaxLocalCandidates
    BY <1>7 DEF LocalCandidate, TypeOK
  <2>2. c \in LocalCandidates
    BY <1>7, <2>1 DEF LocalCandidate, TypeOK, LocalCandidates, Candidates, Generations
  <2>3. Trickle(c, negotiationGeneration) \in ToVox
    BY <2>2, ToVoxShape DEF TypeOK
  <2>4. /\ \/ /\ bufferLocalCandidates
              /\ pendingLocalCandidates' = Append(pendingLocalCandidates, c)
              /\ UNCHANGED toVox
           \/ /\ ~bufferLocalCandidates
              /\ toVox' = Append(toVox, Trickle(c, negotiationGeneration))
              /\ UNCHANGED pendingLocalCandidates
        /\ UNCHANGED <<status, at, negotiationGeneration,
                   awaitingRemoteDescription, bufferLocalCandidates,
                   pendingServerCandidates, flushing, localDescription,
                   remoteDescription, applied, early, toBrowser,
                   voxGeneration, voxAnswered, voxSent, received>>
    BY <1>7 DEF LocalCandidate
  <2> HIDE DEF c
  <2>5. /\ pendingLocalCandidates' \in Seq(LocalCandidates)
        /\ toVox' \in Seq(ToVox)
        /\ ~bufferLocalCandidates => pendingLocalCandidates' = <<>>
    <3>1. /\ Append(pendingLocalCandidates, c) \in Seq(LocalCandidates)
          /\ Append(toVox, Trickle(c, negotiationGeneration)) \in Seq(ToVox)
      BY <2>2, <2>3 DEF TypeOK
    <3>2. /\ pendingLocalCandidates \in Seq(LocalCandidates) /\ toVox \in Seq(ToVox)
          /\ ~bufferLocalCandidates => pendingLocalCandidates = <<>>
      BY DEF TypeOK, StageInv
    <3> QED
      BY <2>4, <3>1, <3>2
  <2>6. gathered' \in 0..MaxLocalCandidates
    BY <2>1
  <2>7. TypeOK'
    BY <2>4, <2>5, <2>6 DEF TypeOK
  <2>8. StageInv'
    BY <2>4, <2>5 DEF StageInv
  <2> QED
    BY <2>7, <2>8
<1>8. CASE AnswerArrives
  <2>1. toBrowser' \in Seq(ToBrowser)
    BY <1>8 DEF AnswerArrives, Receives, TypeOK
  <2> QED
    BY <1>8, <2>1 DEF AnswerArrives, TypeOK, StageInv
<1>9. CASE ConnectResolves
  BY <1>9 DEF ConnectResolves, TypeOK, StageInv
<1> QED
  BY <1>1, <1>3, <1>4, <1>5, <1>6, <1>7, <1>8, <1>9

(* Lemma: applying the answer and candidates keeps types and stages.       *)
LEMMA AnswerTypes ==
    ASSUME TypeInv,
           SetRemoteDescription \/ FlushServerCandidates \/ ServerCandidate
    PROVE  TypeInv'
<1> USE DEF TypeInv
<1>1. ASSUME NEW c \in VoxCandidates, remoteDescription' \in 0..MaxNegotiations,
             AddIceCandidate(c)
      PROVE  applied' \in Seq(VoxCandidates \X (0..MaxNegotiations))
  <2>1. <<c, remoteDescription'>> \in VoxCandidates \X (0..MaxNegotiations)
    BY <1>1
  <2> QED
    BY <1>1, <2>1 DEF AddIceCandidate, TypeOK
<1>2. CASE SetRemoteDescription
  <2>1. CASE pendingServerCandidates = <<>>
    <3>1. TypeOK'
      <4>1. /\ pendingLocalCandidates' \in Seq(LocalCandidates)
            /\ pendingServerCandidates' \in Seq(VoxCandidates)
        BY <1>2, <2>1, EmptyBuffers DEF SetRemoteDescription, NegotiateEnds
      <4>2. /\ at' = "idle" /\ awaitingRemoteDescription' = FALSE
            /\ bufferLocalCandidates' = FALSE
            /\ remoteDescription' = negotiationGeneration
            /\ UNCHANGED <<flushing, applied, status, negotiationGeneration,
                           localDescription, gathered, early, voxVars>>
        BY <1>2, <2>1 DEF SetRemoteDescription, NegotiateEnds
      <4> QED
        BY <4>1, <4>2 DEF TypeOK, voxVars
    <3>2. StageInv'
      BY <1>2, <2>1 DEF SetRemoteDescription, NegotiateEnds, TypeOK, StageInv, voxVars
    <3> QED
      BY <3>1, <3>2
  <2>2. CASE pendingServerCandidates # <<>>
    <3>1. /\ Head(pendingServerCandidates) \in VoxCandidates
          /\ Tail(pendingServerCandidates) \in Seq(VoxCandidates)
      BY <2>2 DEF TypeOK
    <3>2. /\ at' = "flush" /\ awaitingRemoteDescription' = FALSE
          /\ AddIceCandidate(Head(pendingServerCandidates))
          /\ flushing' = Tail(pendingServerCandidates)
          /\ at = "setRemote" /\ remoteDescription' = negotiationGeneration
          /\ pendingServerCandidates' = <<>>
          /\ UNCHANGED <<bufferLocalCandidates, pendingLocalCandidates, status,
                         negotiationGeneration, localDescription, gathered,
                         early, voxVars>>
      BY <1>2, <2>2 DEF SetRemoteDescription
    <3>3. applied' \in Seq(VoxCandidates \X (0..MaxNegotiations))
      BY <1>1, <3>1, <3>2 DEF TypeOK
    <3>4. TypeOK'
      <4>1. /\ pendingServerCandidates' \in Seq(VoxCandidates)
            /\ flushing' \in Seq(VoxCandidates)
        BY <3>1, <3>2, EmptyBuffers
      <4> QED
        BY <3>2, <3>3, <4>1 DEF TypeOK, voxVars
    <3>5. StageInv'
      BY <3>2 DEF TypeOK, StageInv, voxVars
    <3> QED
      BY <3>4, <3>5
  <2> QED
    BY <2>1, <2>2
<1>3. CASE FlushServerCandidates
  <2>1. CASE flushing = <<>>
    BY <1>3, <2>1 DEF FlushServerCandidates, NegotiateEnds, TypeOK, StageInv, voxVars
  <2>2. CASE flushing # <<>>
    <3>1. Head(flushing) \in VoxCandidates /\ Tail(flushing) \in Seq(VoxCandidates)
      BY <2>2 DEF TypeOK
    <3>2. applied' \in Seq(VoxCandidates \X (0..MaxNegotiations))
      BY <1>1, <1>3, <2>2, <3>1 DEF FlushServerCandidates, TypeOK
    <3>3. TypeOK'
      BY <1>3, <2>2, <3>1, <3>2 DEF FlushServerCandidates, TypeOK, voxVars
    <3>4. StageInv'
      BY <1>3, <2>2 DEF FlushServerCandidates, StageInv, voxVars
    <3> QED
      BY <3>3, <3>4
  <2> QED
    BY <2>1, <2>2
<1>4. CASE ServerCandidate
  <2> DEFINE m == Head(toBrowser)
  <2>1. m \in ToBrowser /\ toBrowser' \in Seq(ToBrowser)
        /\ m.candidate \in VoxCandidates
    BY <1>4, ToBrowserShape DEF ServerCandidate, Receives, TypeOK
  <2>2. /\ \/ UNCHANGED <<pendingServerCandidates, applied, early>>
           \/ /\ pendingServerCandidates' = Append(pendingServerCandidates, m.candidate)
              /\ early' = early \cup {m.candidate}
              /\ UNCHANGED applied
           \/ /\ AddIceCandidate(m.candidate)
              /\ UNCHANGED <<pendingServerCandidates, early>>
        /\ UNCHANGED <<remoteDescription, status, at, negotiationGeneration,
                   awaitingRemoteDescription, bufferLocalCandidates,
                   pendingLocalCandidates, flushing, localDescription,
                   gathered, toVox, voxGeneration, voxAnswered, voxSent, received>>
    BY <1>4 DEF ServerCandidate, BufferServerCandidate
  <2> HIDE DEF m
  <2>3. /\ pendingServerCandidates' \in Seq(VoxCandidates)
        /\ early' \subseteq VoxCandidates
    <3>1. Append(pendingServerCandidates, m.candidate) \in Seq(VoxCandidates)
      BY <2>1 DEF TypeOK
    <3> QED
      BY <2>1, <2>2, <3>1 DEF TypeOK
  <2>4. applied' \in Seq(VoxCandidates \X (0..MaxNegotiations))
    BY <1>1, <2>1, <2>2 DEF TypeOK
  <2>5. TypeOK'
    BY <2>1, <2>2, <2>3, <2>4 DEF TypeOK
  <2>6. StageInv'
    BY <2>2 DEF StageInv
  <2> QED
    BY <2>5, <2>6
<1> QED
  BY <1>2, <1>3, <1>4

(* Lemma: Vox's steps keep types and stages.                               *)
LEMMA VoxTypes ==
    ASSUME TypeInv, VoxReceives \/ VoxAnswers \/ VoxTrickles
    PROVE  TypeInv'
<1> USE DEF TypeInv, clientVars, peerVars
<1>1. CASE VoxReceives
  <2> DEFINE m == Head(toVox)
  <2>1. m \in ToVox /\ toVox' \in Seq(ToVox)
    BY <1>1 DEF VoxReceives, TypeOK
  <2>2. CASE m.type = "rtc.offer"
    <3>1. m.generation \in 0..MaxNegotiations /\ m.generation # 0
      BY <2>1, <2>2, ToVoxShape DEF Generations
    <3> QED
      BY <1>1, <2>1, <2>2, <3>1 DEF VoxReceives, TypeOK, StageInv
  <2>3. CASE m.type = "rtc.ice_candidate"
    <3>1. <<m.candidate, m.generation, voxGeneration>>
             \in LocalCandidates \X (0..MaxNegotiations) \X (0..MaxNegotiations)
      BY <2>1, <2>3, ToVoxShape DEF TypeOK
    <3>2. received' = Append(received, <<m.candidate, m.generation, voxGeneration>>)
          /\ voxGeneration' = voxGeneration
      BY <1>1, <2>3 DEF VoxReceives
    <3>3. received' \in Seq(LocalCandidates \X (0..MaxNegotiations)
                                            \X (0..MaxNegotiations))
      BY <3>1, <3>2 DEF TypeOK
    <3> QED
      BY <1>1, <2>1, <3>2, <3>3 DEF VoxReceives, TypeOK, StageInv
  <2> QED
    BY <2>1, <2>2, <2>3, ToVoxShape
<1>2. CASE VoxAnswers
  <2>1. voxGeneration \in 0..MaxNegotiations /\ voxAnswered \in 0..MaxNegotiations
    BY DEF TypeOK
  <2>2. CASE voxGeneration \in Generations
    <3>1. toBrowser' \in Seq(ToBrowser)
      <4>1. PICK m \in {Answer(voxGeneration), Refusal(voxGeneration)} :
               toBrowser' = Append(toBrowser, m)
        BY <1>2 DEF VoxAnswers
      <4>2. m \in ToBrowser
        BY <2>2, ToBrowserShape
      <4> QED
        BY <4>1, <4>2 DEF TypeOK
    <3> QED
      BY <1>2, <3>1 DEF VoxAnswers, TypeOK, StageInv
  <2>3. CASE voxGeneration = 0
    BY <1>2, <2>3 DEF VoxAnswers, StageInv
  <2> QED
    BY <2>1, <2>2, <2>3 DEF Generations
<1>3. CASE VoxTrickles
  <2> DEFINE c == [n |-> voxSent', generation |-> voxGeneration]
  <2>1. /\ voxSent' \in 1..MaxVoxCandidates /\ voxGeneration \in Generations
    BY <1>3 DEF VoxTrickles, TypeOK, Generations
  <2>2. c \in VoxCandidates
    BY <2>1 DEF VoxCandidates, Candidates
  <2>3. Trickle(c, voxGeneration) \in ToBrowser
    BY <2>1, <2>2, ToBrowserShape
  <2>4. toBrowser' = Append(toBrowser, Trickle(c, voxGeneration))
    BY <1>3 DEF VoxTrickles
  <2> HIDE DEF c
  <2>5. toBrowser' \in Seq(ToBrowser) /\ voxSent' \in 0..MaxVoxCandidates
    BY <2>1, <2>3, <2>4 DEF TypeOK
  <2> QED
    BY <1>3, <2>5 DEF VoxTrickles, TypeOK, StageInv
<1> QED
  BY <1>1, <1>2, <1>3

(* Theorem: the states of the client and of the messages under way have    *)
(* the types of the model, and the flags of the client (buffering, waiting *)
(* for the description) follow the stages of #negotiate, for any number of *)
(* negotiations and candidates.                                            *)
THEOREM NegotiationTypes == Spec => []TypeInv
<1>1. Init => TypeInv
  <2>1. Init => TypeOK
    <3> SUFFICES ASSUME Init PROVE TypeOK
      OBVIOUS
    <3>1. /\ pendingLocalCandidates \in Seq(LocalCandidates)
          /\ pendingServerCandidates \in Seq(VoxCandidates)
          /\ flushing \in Seq(VoxCandidates)
          /\ applied \in Seq(VoxCandidates \X (0..MaxNegotiations))
          /\ received \in Seq(LocalCandidates \X (0..MaxNegotiations)
                                   \X (0..MaxNegotiations))
          /\ toVox \in Seq(ToVox) /\ toBrowser \in Seq(ToBrowser)
      BY EmptyBuffers DEF Init
    <3>2. /\ status = "connecting" /\ at = "idle" /\ negotiationGeneration = 0
          /\ awaitingRemoteDescription = FALSE /\ bufferLocalCandidates = FALSE
          /\ localDescription = 0 /\ remoteDescription = 0 /\ gathered = 0
          /\ early = {} /\ voxGeneration = 0 /\ voxAnswered = 0 /\ voxSent = 0
      BY DEF Init
    <3>3. /\ 0 \in 0..MaxNegotiations /\ 0 \in 0..MaxLocalCandidates
          /\ 0 \in 0..MaxVoxCandidates
      OBVIOUS
    <3> QED
      BY <3>1, <3>2, <3>3 DEF TypeOK
  <2>2. Init => StageInv
    BY DEF Init, StageInv
  <2> QED
    BY <2>1, <2>2 DEF TypeInv
<1>2. TypeInv /\ [Next]_vars => TypeInv'
  <2>1. CASE Next
    BY <2>1, OfferTypes, AnswerTypes, VoxTypes DEF Next, PeerStep
  <2>2. ASSUME TypeInv, UNCHANGED vars
        PROVE  TypeInv'
    BY <2>2 DEF TypeInv, TypeOK, StageInv, vars, clientVars, peerVars, voxVars
  <2> QED
    BY <2>1, <2>2
<1> QED
  BY <1>1, <1>2, PTL DEF Spec

-----------------------------------------------------------------------------
(* Candidates of the browser.                                              *)

(* Lemma: types of what is in line, for the arithmetic.                    *)
LEMMA OutgoingTypes ==
    ASSUME TypeOK
    PROVE  /\ Len(toVox) \in Nat /\ Len(received) \in Nat
           /\ Len(pendingLocalCandidates) \in Nat
           /\ gathered \in Nat /\ negotiationGeneration \in Nat
           /\ voxGeneration \in Nat
           /\ \A i \in 1..Len(toVox) :
                 /\ toVox[i] \in ToVox /\ Carried(toVox[i]) \in Nat
                 /\ toVox[i].generation \in Nat
           /\ \A i \in 1..Len(received) : received[i][1].n \in Nat
           /\ \A i \in 1..Len(pendingLocalCandidates) :
                 /\ pendingLocalCandidates[i] \in LocalCandidates
                 /\ pendingLocalCandidates[i].n \in Nat \ {0}
<1>1. \A i \in 1..Len(toVox) : toVox[i] \in ToVox
  BY DEF TypeOK
<1>2. \A i \in 1..Len(received) : received[i][1] \in LocalCandidates
  BY DEF TypeOK
<1>3. \A i \in 1..Len(pendingLocalCandidates) :
         pendingLocalCandidates[i] \in LocalCandidates
  BY DEF TypeOK
<1>4. /\ Len(toVox) \in Nat /\ Len(received) \in Nat
      /\ Len(pendingLocalCandidates) \in Nat
      /\ gathered \in Nat /\ negotiationGeneration \in Nat
      /\ voxGeneration \in Nat
  BY DEF TypeOK
<1> QED
  BY <1>1, <1>2, <1>3, <1>4, ToVoxShape

(* Lemma: steps that send and receive no message to Vox.                   *)
LEMMA OutgoingFrame ==
    ASSUME OutgoingInv,
           UNCHANGED <<negotiationGeneration, toVox, voxGeneration, received>>,
           \/ status' = "closed"
           \/ status # "closed" /\ UNCHANGED <<gathered, pendingLocalCandidates>>
    PROVE  OutgoingInv'
<1>1. LabelInv' /\ LabelledForOffer'
  BY DEF OutgoingInv, LabelInv, Before, LabelledForOffer
<1>2. (status # "closed" => LineInv)'
  BY DEF OutgoingInv, LineInv
<1> QED
  BY <1>1, <1>2 DEF OutgoingInv

(* Lemma: a candidate is buffered, or sent under the present generation.   *)
LEMMA OutgoingLocal ==
    ASSUME TypeInv, OutgoingInv, LocalCandidate
    PROVE  OutgoingInv'
<1> DEFINE c == [n |-> gathered', generation |-> localDescription]
           m == Trickle(c, negotiationGeneration)
           n == Len(toVox)
           k == Len(pendingLocalCandidates)
<1> USE DEF TypeInv
<1>1. c \in LocalCandidates /\ c.n = gathered + 1 /\ gathered' = gathered + 1
      /\ negotiationGeneration \in 0..MaxNegotiations
  BY DEF LocalCandidate, TypeOK, LocalCandidates, Candidates, Generations
<1>2. m.generation = negotiationGeneration /\ Carried(m) = gathered + 1 /\ m \in ToVox
  BY <1>1, ToVoxShape
<1>3. /\ status # "closed"
      /\ \/ /\ pendingLocalCandidates' = Append(pendingLocalCandidates, c)
            /\ UNCHANGED toVox
         \/ /\ ~bufferLocalCandidates
            /\ toVox' = Append(toVox, m)
            /\ UNCHANGED pendingLocalCandidates
      /\ UNCHANGED <<status, negotiationGeneration, voxGeneration, received>>
  BY DEF LocalCandidate
<1>4. LineInv /\ LabelInv /\ LabelledForOffer
  BY <1>3 DEF OutgoingInv
<1> HIDE DEF c, m
<1>5. CASE /\ pendingLocalCandidates' = Append(pendingLocalCandidates, c)
           /\ UNCHANGED toVox
  <2>1. /\ Len(pendingLocalCandidates') = k + 1
        /\ \A i \in 1..k : pendingLocalCandidates'[i] = pendingLocalCandidates[i]
        /\ pendingLocalCandidates'[k + 1] = c
    BY <1>5 DEF TypeOK
  <2>2. LabelInv' /\ LabelledForOffer'
    BY <1>3, <1>4, <1>5 DEF LabelInv, Before, LabelledForOffer
  <2> HIDE DEF k
  <2>3. \A i \in 1..Len(pendingLocalCandidates') : i \in 1..k \/ i = k + 1
    BY <2>1, OutgoingTypes DEF k
  <2>4. LineInv'
    <3>1. \A i \in 1..Len(pendingLocalCandidates') :
             /\ Len(received) < pendingLocalCandidates'[i].n
             /\ pendingLocalCandidates'[i].n <= gathered + 1
             /\ \A j \in 1..Len(toVox) :
                   Carried(toVox[j]) < pendingLocalCandidates'[i].n
      <4>1. \A j \in 1..Len(toVox) : Carried(toVox[j]) < gathered + 1
        BY <1>4, OutgoingTypes DEF LineInv
      <4>2. Len(received) < gathered + 1
        BY <1>4, OutgoingTypes DEF LineInv
      <4>3. \A i \in 1..k :
               /\ Len(received) < pendingLocalCandidates[i].n
               /\ pendingLocalCandidates[i].n <= gathered + 1
               /\ \A j \in 1..Len(toVox) :
                     Carried(toVox[j]) < pendingLocalCandidates[i].n
        BY <1>4, OutgoingTypes DEF LineInv, k
      <4>4. gathered + 1 <= gathered + 1
        BY OutgoingTypes
      <4> QED
        BY <1>1, <2>1, <2>3, <4>1, <4>2, <4>3, <4>4
    <3>2. \A i, j \in 1..Len(pendingLocalCandidates') : i < j =>
             pendingLocalCandidates'[i].n < pendingLocalCandidates'[j].n
      <4> TAKE i, j \in 1..Len(pendingLocalCandidates')
      <4> HAVE i < j
      <4>1. i \in 1..k
        BY <2>1, OutgoingTypes DEF k
      <4>2. CASE j \in 1..k
        BY <1>4, <2>1, <4>1, <4>2 DEF LineInv, k
      <4>3. CASE j = k + 1
        <5>1. pendingLocalCandidates[i].n <= gathered
              /\ pendingLocalCandidates[i].n \in Nat
          BY <1>4, <4>1, OutgoingTypes DEF LineInv, k
        <5> QED
          BY <1>1, <2>1, <4>1, <4>3, <5>1, OutgoingTypes
      <4> QED
        BY <2>3, <4>2, <4>3
    <3>3. \A h \in 1..(gathered + 1) :
             \/ h <= Len(received)
             \/ \E i \in 1..Len(toVox) : Carried(toVox[i]) = h
             \/ \E i \in 1..Len(pendingLocalCandidates') :
                   pendingLocalCandidates'[i].n = h
      <4> TAKE h \in 1..(gathered + 1)
      <4>1. k \in Nat /\ k + 1 \in 1..Len(pendingLocalCandidates')
            /\ 1..k \subseteq 1..Len(pendingLocalCandidates')
        BY <2>1, OutgoingTypes DEF k
      <4>2. CASE h = gathered + 1
        BY <1>1, <2>1, <4>1, <4>2
      <4>3. CASE h \in 1..gathered
        BY <1>4, <2>1, <4>1, <4>3 DEF LineInv, k
      <4> QED
        BY <4>2, <4>3, OutgoingTypes
    <3>4. /\ Len(received) <= gathered + 1
          /\ \A i \in 1..Len(toVox) : Carried(toVox[i]) # 0 =>
                Len(received) < Carried(toVox[i]) /\ Carried(toVox[i]) <= gathered + 1
      BY <1>4, OutgoingTypes DEF LineInv
    <3> QED
      BY <1>1, <1>3, <1>4, <1>5, <3>1, <3>2, <3>3, <3>4 DEF LineInv
  <2> QED
    BY <2>2, <2>4 DEF OutgoingInv
<1>6. CASE /\ ~bufferLocalCandidates
           /\ toVox' = Append(toVox, m)
           /\ UNCHANGED pendingLocalCandidates
  <2>1. /\ Len(toVox') = n + 1
        /\ \A i \in 1..n : toVox'[i] = toVox[i]
        /\ toVox'[n + 1] = m
    BY <1>6 DEF TypeOK
  <2>2. k = 0
    BY <1>6 DEF StageInv
  <2>3. \A i \in 1..Len(toVox') : i \in 1..n \/ i = n + 1
    BY <2>1, OutgoingTypes
  <2> HIDE DEF n, k
  <2>4. n \in Nat /\ n + 1 \in 1..Len(toVox') /\ 1..n \subseteq 1..Len(toVox')
    BY <2>1, OutgoingTypes DEF n
  <2>5. LabelInv'
    <3>1. \A i \in 1..(n + 1) : Before(i)' = Before(i)
      BY <1>3, <2>1, <2>4 DEF Before
    <3>2. \A i \in 1..n : i \in 1..(n + 1)
      BY <2>4
    <3>3. \A i \in 1..Len(toVox') : Carried(toVox'[i]) # 0 =>
             toVox'[i].generation = Before(i)'
      BY <1>2, <1>4, <2>1, <2>3, <2>4, <3>1, <3>2 DEF LabelInv, n
    <3>4. Before(Len(toVox) + 1)' = negotiationGeneration'
      <4>1. (n + 1) + 1 # 1 /\ (n + 1) + 1 - 1 = n + 1
        BY <2>4
      <4> QED
        BY <1>2, <1>3, <2>1, <4>1 DEF Before
    <3> QED
      BY <3>3, <3>4 DEF LabelInv
  <2>6. LineInv'
    <3>1. \A i \in 1..Len(toVox') : Carried(toVox'[i]) # 0 =>
             Len(received) < Carried(toVox'[i]) /\ Carried(toVox'[i]) <= gathered + 1
      BY <1>2, <1>4, <2>1, <2>3, OutgoingTypes DEF LineInv, n
    <3>2. \A i, j \in 1..Len(toVox') :
             i < j /\ Carried(toVox'[i]) # 0 /\ Carried(toVox'[j]) # 0 =>
                Carried(toVox'[i]) < Carried(toVox'[j])
      <4> TAKE i, j \in 1..Len(toVox')
      <4> HAVE i < j /\ Carried(toVox'[i]) # 0 /\ Carried(toVox'[j]) # 0
      <4>1. i \in 1..n
        BY <2>1, <2>4
      <4>2. CASE j \in 1..n
        BY <1>4, <2>1, <4>1, <4>2 DEF LineInv, n
      <4>3. CASE j = n + 1
        <5>1. Carried(toVox[i]) <= gathered /\ Carried(toVox[i]) \in Nat
          BY <1>4, <2>1, <4>1, OutgoingTypes DEF LineInv, n
        <5> QED
          BY <1>2, <2>1, <4>1, <4>3, <5>1, OutgoingTypes
      <4> QED
        BY <2>3, <4>2, <4>3
    <3>3. \A h \in 1..(gathered + 1) :
             h <= Len(received) \/ \E i \in 1..Len(toVox') : Carried(toVox'[i]) = h
      <4> TAKE h \in 1..(gathered + 1)
      <4>1. CASE h = gathered + 1
        BY <1>2, <2>1, <2>4, <4>1
      <4>2. CASE h \in 1..gathered
        BY <1>4, <2>1, <2>2, <2>4, <4>2 DEF LineInv, n, k
      <4> QED
        BY <4>1, <4>2, OutgoingTypes
    <3>4. Len(received) <= gathered + 1
      BY <1>4, OutgoingTypes DEF LineInv
    <3>5. \A i \in 1..Len(pendingLocalCandidates') : FALSE
      BY <1>6, <2>2 DEF k
    <3> QED
      BY <1>1, <1>3, <1>4, <3>1, <3>2, <3>3, <3>4, <3>5 DEF LineInv
  <2>7. LabelledForOffer'
    BY <1>3, <1>4 DEF LabelledForOffer
  <2> QED
    BY <2>5, <2>6, <2>7 DEF OutgoingInv
<1> QED
  BY <1>3, <1>5, <1>6

(* Lemma: the offer goes out and what was buffered follows it.             *)
LEMMA OutgoingOffer ==
    ASSUME TypeInv, OutgoingInv, ExchangeOffer
    PROVE  OutgoingInv'
<1> DEFINE g == negotiationGeneration + 1
           f == FlushLocalCandidates(Offer(g), g)
           n == Len(toVox)
           k == Len(pendingLocalCandidates)
<1> USE DEF TypeInv
<1>1. g \in Generations /\ g \in 0..MaxNegotiations
  BY DEF ExchangeOffer, TypeOK, StageInv, Generations
<1>2. /\ toVox' = toVox \o f /\ negotiationGeneration' = g
      /\ pendingLocalCandidates' = <<>>
      /\ status # "closed"
      /\ UNCHANGED <<status, gathered, voxGeneration, received>>
  BY DEF ExchangeOffer, StageInv, peerVars
<1>3. /\ f \in Seq(ToVox) /\ Len(f) = k + 1 /\ f[1] = Offer(g)
      /\ \A i \in 1..k : f[i + 1] = Trickle(pendingLocalCandidates[i], g)
  BY <1>1, FlushShape
<1> HIDE DEF f
<1>4. n \in Nat /\ k \in Nat
  BY OutgoingTypes
<1>5. /\ Len(toVox') = n + k + 1
      /\ \A i \in 1..n : toVox'[i] = toVox[i]
      /\ \A i \in 1..(k + 1) : toVox'[n + i] = f[i]
  <2>1. toVox \in Seq(ToVox)
    BY DEF TypeOK
  <2>2. /\ Len(toVox \o f) = Len(toVox) + Len(f)
        /\ \A i \in 1..Len(toVox) : (toVox \o f)[i] = toVox[i]
        /\ \A i \in 1..Len(f) : (toVox \o f)[Len(toVox) + i] = f[i]
    BY <1>3, <1>4, <2>1
  <2> QED
    BY <1>2, <1>3, <1>4, <2>2
<1>6. toVox'[n + 1].generation = g /\ Carried(toVox'[n + 1]) = 0
  BY <1>1, <1>3, <1>4, <1>5, ToVoxShape
<1>7. \A i \in (n + 2)..(n + k + 1) :
         /\ i - n - 1 \in 1..k
         /\ toVox'[i].generation = g
         /\ Carried(toVox'[i]) = pendingLocalCandidates[i - n - 1].n
  <2> TAKE i \in (n + 2)..(n + k + 1)
  <2> DEFINE j == i - n - 1
  <2>1. j \in 1..k /\ j + 1 \in 1..(k + 1) /\ i = n + (j + 1)
    BY <1>4
  <2>2. toVox'[i] = Trickle(pendingLocalCandidates[j], g)
    BY <1>3, <1>5, <2>1
  <2>3. pendingLocalCandidates[j] \in LocalCandidates
    BY <2>1, OutgoingTypes
  <2>4. /\ Trickle(pendingLocalCandidates[j], g).generation = g
        /\ Carried(Trickle(pendingLocalCandidates[j], g)) = pendingLocalCandidates[j].n
    BY <1>1, <2>3, ToVoxShape
  <2> QED
    BY <2>1, <2>2, <2>4
<1>8. \A i \in 1..Len(toVox') : i \in 1..n \/ i = n + 1 \/ i \in (n + 2)..(n + k + 1)
  BY <1>4, <1>5
<1>9. LineInv /\ LabelInv /\ LabelledForOffer
  BY <1>2 DEF OutgoingInv
<1> HIDE DEF g
<1>10. LabelInv'
  <2>1. ASSUME NEW i \in 1..Len(toVox'), Carried(toVox'[i]) # 0
        PROVE  toVox'[i].generation = Before(i)'
    <3>1. CASE i \in 1..n
      BY <1>2, <1>4, <1>5, <1>9, <2>1, <3>1 DEF LabelInv, Before
    <3>2. CASE i \in (n + 2)..(n + k + 1)
      <4>1. i # 1 /\ (i - 1 = n + 1 \/ i - 1 \in (n + 2)..(n + k + 1))
        BY <1>4, <3>2
      <4> QED
        BY <1>6, <1>7, <3>2, <4>1 DEF Before
    <3> QED
      BY <1>6, <1>8, <2>1, <3>1, <3>2
  <2>2. Before(Len(toVox) + 1)' = negotiationGeneration'
    <3>1. Len(toVox') + 1 # 1 /\ Len(toVox') + 1 - 1 = n + k + 1
          /\ (n + k + 1 = n + 1 \/ n + k + 1 \in (n + 2)..(n + k + 1))
      BY <1>4, <1>5
    <3> QED
      BY <1>2, <1>6, <1>7, <3>1 DEF Before
  <2> QED
    BY <2>1, <2>2 DEF LabelInv
<1>11. LineInv'
  <2>1. ASSUME NEW i \in 1..Len(toVox'), Carried(toVox'[i]) # 0
        PROVE  Len(received) < Carried(toVox'[i]) /\ Carried(toVox'[i]) <= gathered
    BY <1>5, <1>6, <1>7, <1>8, <1>9, <2>1 DEF LineInv
  <2>2. ASSUME NEW i \in 1..Len(toVox'), NEW j \in 1..Len(toVox'), i < j,
               Carried(toVox'[i]) # 0, Carried(toVox'[j]) # 0
        PROVE  Carried(toVox'[i]) < Carried(toVox'[j])
    <3>1. CASE i \in 1..n /\ j \in 1..n
      BY <1>5, <1>9, <2>2, <3>1 DEF LineInv
    <3>2. CASE i \in 1..n /\ j \in (n + 2)..(n + k + 1)
      <4>1. \A h \in 1..k : Carried(toVox[i]) < pendingLocalCandidates[h].n
        BY <1>9, <3>2 DEF LineInv
      <4> QED
        BY <1>5, <1>7, <3>2, <4>1
    <3>3. CASE i \in (n + 2)..(n + k + 1) /\ j \in (n + 2)..(n + k + 1)
      <4>1. i - n - 1 < j - n - 1
        BY <1>4, <2>2
      <4>2. \A g1, g2 \in 1..k : g1 < g2 =>
               pendingLocalCandidates[g1].n < pendingLocalCandidates[g2].n
        BY <1>9 DEF LineInv
      <4> QED
        BY <1>7, <3>3, <4>1, <4>2
    <3> QED
      BY <1>4, <1>6, <1>8, <2>2, <3>1, <3>2, <3>3
  <2>3. ASSUME NEW h \in 1..gathered
        PROVE  h <= Len(received) \/ \E i \in 1..Len(toVox') : Carried(toVox'[i]) = h
    <3>1. CASE h <= Len(received)
      BY <3>1
    <3>2. CASE \E i \in 1..n : Carried(toVox[i]) = h
      BY <1>4, <1>5, <3>2
    <3>3. ASSUME NEW i \in 1..k, pendingLocalCandidates[i].n = h
          PROVE  Carried(toVox'[n + 1 + i]) = h /\ n + 1 + i \in 1..Len(toVox')
      <4>1. n + 1 + i \in (n + 2)..(n + k + 1) /\ (n + 1 + i) - n - 1 = i
            /\ n + 1 + i \in 1..Len(toVox')
        BY <1>4, <1>5
      <4> QED
        BY <1>7, <3>3, <4>1
    <3> QED
      BY <1>9, <3>1, <3>2, <3>3 DEF LineInv
  <2>4. \A i \in 1..Len(pendingLocalCandidates') : FALSE
    BY <1>2
  <2> QED
    BY <1>2, <1>9, <2>1, <2>2, <2>3, <2>4 DEF LineInv
<1>12. LabelledForOffer'
  BY <1>2, <1>9 DEF LabelledForOffer
<1> QED
  BY <1>10, <1>11, <1>12 DEF OutgoingInv

(* Lemma: Vox takes the first message.                                     *)
LEMMA OutgoingArrives ==
    ASSUME TypeInv, OutgoingInv, VoxReceives
    PROVE  OutgoingInv'
<1> DEFINE n == Len(toVox)
           r == Len(received)
           m == Head(toVox)
           e == <<m.candidate, m.generation, voxGeneration>>
<1> USE DEF TypeInv
<1>1. /\ toVox # <<>> /\ toVox' = Tail(toVox)
      /\ \/ /\ m.type = "rtc.offer" /\ voxGeneration' = m.generation
            /\ UNCHANGED received
         \/ /\ m.type = "rtc.ice_candidate" /\ UNCHANGED voxGeneration
            /\ received' = Append(received, e)
      /\ UNCHANGED <<status, negotiationGeneration, gathered, pendingLocalCandidates>>
  BY DEF VoxReceives, clientVars, peerVars
<1>2. n \in Nat \ {0} /\ m = toVox[1] /\ 1 \in 1..n
  BY <1>1 DEF TypeOK
<1>3. /\ Len(toVox') = n - 1
      /\ \A i \in 1..(n - 1) : toVox'[i] = toVox[i + 1]
  BY <1>1, <1>2 DEF TypeOK
<1>4. m \in ToVox
  BY <1>2, OutgoingTypes
<1>5. /\ m.type = "rtc.offer" => Carried(m) = 0
      /\ m.type = "rtc.ice_candidate" => Carried(m) # 0 /\ m.candidate.n = Carried(m)
  BY <1>4, ToVoxShape
<1> HIDE DEF m, n, e
<1>6. LabelInv /\ LabelledForOffer
  BY DEF OutgoingInv
<1>7. Carried(m) # 0 => m.generation = voxGeneration
  BY <1>2, <1>6 DEF LabelInv, Before, n
<1>8. voxGeneration' = m.generation
  BY <1>1, <1>5, <1>7
<1>9. LabelInv'
  <2>1. \A i \in 1..n : Before(i)' = Before(i + 1)
    <3> TAKE i \in 1..n
    <3>1. CASE i = 1
      BY <1>2, <1>8, <3>1 DEF Before
    <3>2. CASE i # 1
      <4>1. i - 1 \in 1..(n - 1) /\ (i - 1) + 1 = i /\ (i + 1) - 1 = i /\ i + 1 # 1
        BY <1>2, <3>2
      <4> QED
        BY <1>3, <3>2, <4>1 DEF Before
    <3> QED
      BY <3>1, <3>2
  <2>2. \A i \in 1..(n - 1) : i \in 1..n /\ i + 1 \in 1..n
    BY <1>2
  <2>3. \A i \in 1..Len(toVox') : Carried(toVox'[i]) # 0 =>
           toVox'[i].generation = Before(i)'
    BY <1>3, <1>6, <2>1, <2>2 DEF LabelInv, n
  <2>4. Before(Len(toVox) + 1)' = negotiationGeneration'
    <3>1. toVox[n].generation = negotiationGeneration
      BY <1>2, <1>6 DEF LabelInv, Before, n
    <3>2. CASE Len(toVox') + 1 = 1
      <4>1. n = 1
        BY <1>2, <1>3, <3>2
      <4> QED
        BY <1>1, <1>2, <1>8, <3>1, <3>2, <4>1 DEF Before
    <3>3. CASE Len(toVox') + 1 # 1
      <4>1. (Len(toVox') + 1) - 1 = n - 1 /\ n - 1 \in 1..(n - 1) /\ (n - 1) + 1 = n
        BY <1>2, <1>3, <3>3
      <4> QED
        BY <1>1, <1>3, <3>1, <3>3, <4>1 DEF Before
    <3> QED
      BY <3>2, <3>3
  <2> QED
    BY <2>3, <2>4 DEF LabelInv
<1>10. LabelledForOffer'
  <2>1. CASE UNCHANGED received
    BY <1>6, <2>1 DEF LabelledForOffer
  <2>2. CASE Carried(m) # 0 /\ received' = Append(received, e)
    <3>1. e[2] = e[3]
      BY <1>7, <2>2 DEF e
    <3>2. /\ r \in Nat /\ Len(received') = r + 1 /\ received'[r + 1] = e
          /\ \A i \in 1..r : received'[i] = received[i]
      BY <2>2 DEF TypeOK
    <3> QED
      BY <1>6, <3>1, <3>2 DEF LabelledForOffer
  <2> QED
    BY <1>1, <1>5, <2>1, <2>2
<1>11. ASSUME status # "closed"
       PROVE  LineInv'
  <2> DEFINE rr == Len(received')
             nn == n - 1
  <2>1. LineInv
    BY <1>11 DEF OutgoingInv
  <2>2. /\ r \in Nat
        /\ \/ Carried(m) = 0 /\ rr = r /\ received' = received
           \/ /\ Carried(m) = r + 1 /\ rr = r + 1 /\ received'[r + 1][1].n = r + 1
              /\ r + 1 <= gathered
              /\ \A i \in 1..r : received'[i] = received[i]
    <3>1. r \in Nat
      BY OutgoingTypes
    <3>2. CASE Carried(m) # 0 /\ received' = Append(received, e)
      <4>1. /\ Len(received') = r + 1 /\ received'[r + 1] = e
            /\ \A i \in 1..r : received'[i] = received[i]
        BY <3>2 DEF TypeOK
      <4>2. r < Carried(m) /\ Carried(m) <= gathered /\ Carried(m) \in Nat
            /\ gathered \in Nat
        BY <1>2, <2>1, <3>2, OutgoingTypes DEF LineInv, n
      <4>3. Carried(m) = r + 1
        <5>1. r + 1 \in 1..gathered /\ ~(r + 1 <= r)
          BY <3>1, <4>2
        <5>2. ASSUME NEW i \in 1..n, Carried(toVox[i]) = r + 1
              PROVE  Carried(m) <= r + 1
          <6>1. i = 1 \/ 1 < i
            BY <1>2
          <6>2. CASE i = 1
            BY <1>2, <3>1, <5>2, <6>2
          <6>3. CASE 1 < i
            <7>1. Carried(toVox[1]) # 0 /\ Carried(toVox[i]) # 0
              BY <1>2, <3>1, <3>2, <5>2
            <7>2. Carried(toVox[1]) < Carried(toVox[i])
              BY <1>2, <2>1, <6>3, <7>1 DEF LineInv, n
            <7> QED
              BY <1>2, <3>1, <4>2, <5>2, <7>2
          <6> QED
            BY <6>1, <6>2, <6>3
        <5>3. ASSUME NEW i \in 1..Len(pendingLocalCandidates),
                     pendingLocalCandidates[i].n = r + 1
              PROVE  Carried(m) < r + 1
          BY <1>2, <2>1, <5>3 DEF LineInv, n
        <5>4. Carried(m) <= r + 1
          <6>1. \/ \E i \in 1..n : Carried(toVox[i]) = r + 1
                \/ \E i \in 1..Len(pendingLocalCandidates) :
                      pendingLocalCandidates[i].n = r + 1
            BY <2>1, <5>1 DEF LineInv, n
          <6> QED
            BY <3>1, <4>2, <5>2, <5>3, <6>1
        <5> QED
          BY <3>1, <4>2, <5>4
      <4>4. e[1].n = Carried(m)
        BY <1>4, <1>5, <3>2, ToVoxShape DEF e
      <4> QED
        BY <3>1, <4>1, <4>2, <4>3, <4>4
    <3>3. CASE Carried(m) = 0 /\ UNCHANGED received
      BY <3>1, <3>3
    <3> QED
      BY <1>1, <1>5, <3>2, <3>3
  <2> HIDE DEF r, rr
  <2>3. \A i \in 1..nn : i \in 1..n /\ i + 1 \in 1..n /\ 1 < i + 1
                         /\ toVox'[i] = toVox[i + 1]
    BY <1>2, <1>3
  <2>4. \A i \in 1..nn : Carried(toVox'[i]) # 0 =>
           rr < Carried(toVox'[i]) /\ Carried(toVox'[i]) <= gathered
    <3> SUFFICES ASSUME NEW i \in 1..nn, Carried(toVox'[i]) # 0
                 PROVE  rr < Carried(toVox'[i]) /\ Carried(toVox'[i]) <= gathered
      OBVIOUS
    <3>1. /\ r < Carried(toVox'[i]) /\ Carried(toVox'[i]) <= gathered
          /\ Carried(toVox'[i]) \in Nat
          /\ Carried(m) # 0 => Carried(m) < Carried(toVox'[i])
      BY <1>2, <2>1, <2>3, OutgoingTypes DEF LineInv, n, r
    <3> QED
      BY <2>2, <3>1
  <2>5. \A i, j \in 1..nn :
           i < j /\ Carried(toVox'[i]) # 0 /\ Carried(toVox'[j]) # 0 =>
              Carried(toVox'[i]) < Carried(toVox'[j])
    <3> TAKE i, j \in 1..nn
    <3>1. i < j => i + 1 < j + 1
      BY <1>2
    <3> QED
      BY <2>1, <2>3, <3>1 DEF LineInv, n
  <2>6. \A i \in 1..Len(pendingLocalCandidates) :
           /\ rr < pendingLocalCandidates[i].n
           /\ pendingLocalCandidates[i].n <= gathered
           /\ \A j \in 1..nn : Carried(toVox'[j]) < pendingLocalCandidates[i].n
    <3> TAKE i \in 1..Len(pendingLocalCandidates)
    <3>1. /\ r < pendingLocalCandidates[i].n
          /\ pendingLocalCandidates[i].n <= gathered
          /\ pendingLocalCandidates[i].n \in Nat
          /\ \A j \in 1..n : Carried(toVox[j]) < pendingLocalCandidates[i].n
      BY <2>1, OutgoingTypes DEF LineInv, n, r
    <3>2. rr < pendingLocalCandidates[i].n
      BY <1>2, <2>2, <3>1
    <3> QED
      BY <2>3, <3>1, <3>2
  <2>7. \A h \in 1..gathered :
           \/ h <= rr
           \/ \E i \in 1..nn : Carried(toVox'[i]) = h
           \/ \E i \in 1..Len(pendingLocalCandidates) :
                 pendingLocalCandidates[i].n = h
    <3> TAKE h \in 1..gathered
    <3>1. h \in Nat /\ h # 0
      BY OutgoingTypes
    <3>2. ASSUME NEW i \in 1..n, Carried(toVox[i]) = h
          PROVE  h <= rr \/ \E j \in 1..nn : Carried(toVox'[j]) = h
      <4>1. CASE i = 1
        BY <1>2, <2>2, <3>1, <3>2, <4>1
      <4>2. CASE i # 1
        <5>1. i - 1 \in 1..nn /\ (i - 1) + 1 = i
          BY <1>2, <4>2
        <5> QED
          BY <2>3, <3>2, <5>1
      <4> QED
        BY <4>1, <4>2
    <3>3. h <= r => h <= rr
      BY <2>2, <3>1
    <3> QED
      BY <2>1, <3>2, <3>3 DEF LineInv, n, r
  <2>8. /\ rr <= gathered
        /\ \A i \in 1..rr : received'[i][1].n = i
    <3>1. r <= gathered /\ \A i \in 1..r : received[i][1].n = i
      BY <2>1 DEF LineInv, r
    <3>2. \A i \in 1..(r + 1) : i \in 1..r \/ i = r + 1
      BY <2>2
    <3> QED
      BY <2>2, <3>1, <3>2
  <2> QED
    BY <1>1, <1>3, <2>1, <2>4, <2>5, <2>6, <2>7, <2>8 DEF LineInv, rr
<1> QED
  BY <1>1, <1>9, <1>10, <1>11 DEF OutgoingInv

(* Lemma: the line of the browser's candidates has no gap and no inversion. *)
LEMMA LineIsInOrder ==
    ASSUME TypeOK, OutgoingInv
    PROVE  OutgoingCandidates
<1> SUFFICES ASSUME status # "closed" PROVE LocalCandidatesInOrder
  BY DEF OutgoingCandidates, OutgoingInv, LocalCandidatesInOrder
<1> DEFINE r == Len(received)
           n == Len(toVox)
           k == Len(pendingLocalCandidates)
           A == [i \in 1..r |-> received[i][1].n]
           B == [i \in 1..n |-> Carried(toVox[i])]
           C == [i \in 1..k |-> pendingLocalCandidates[i].n]
           line == A \o B \o C
           places == {i \in 1..Len(line) : line[i] # 0}
<1>1. LineInv
  BY DEF OutgoingInv
<1>2. r \in Nat /\ n \in Nat /\ k \in Nat /\ gathered \in Nat
  BY OutgoingTypes
<1>3. A \in Seq(Nat) /\ B \in Seq(Nat) /\ C \in Seq(Nat)
      /\ Len(A) = r /\ Len(B) = n /\ Len(C) = k
  BY <1>2, OutgoingTypes
<1>4. /\ \A i \in 1..r : A[i] = i
      /\ \A i \in 1..n : B[i] = Carried(toVox[i]) /\ B[i] \in Nat
      /\ \A i \in 1..k : C[i] = pendingLocalCandidates[i].n /\ C[i] \in Nat \ {0}
  BY <1>1, OutgoingTypes DEF LineInv
<1>5. /\ r <= gathered
      /\ \A i \in 1..n : B[i] # 0 => r < B[i] /\ B[i] <= gathered
      /\ \A i, j \in 1..n : i < j /\ B[i] # 0 /\ B[j] # 0 => B[i] < B[j]
      /\ \A i \in 1..k : r < C[i] /\ C[i] <= gathered
      /\ \A i \in 1..k, j \in 1..n : B[j] < C[i]
      /\ \A i, j \in 1..k : i < j => C[i] < C[j]
      /\ \A h \in 1..gathered : \/ h <= r
                                \/ \E i \in 1..n : B[i] = h
                                \/ \E i \in 1..k : C[i] = h
  BY <1>1, <1>4 DEF LineInv
<1> HIDE DEF r, n, k, A, B, C
<1>6. /\ Len(line) = r + n + k
      /\ \A i \in 1..r : line[i] = A[i]
      /\ \A i \in 1..n : line[r + i] = B[i]
      /\ \A i \in 1..k : line[r + n + i] = C[i]
  <2> DEFINE AB == A \o B
  <2>1. /\ AB \in Seq(Nat) /\ Len(AB) = r + n
        /\ \A i \in 1..r : AB[i] = A[i]
        /\ \A i \in 1..n : AB[r + i] = B[i]
    <3>0. A \in Seq(Nat) /\ B \in Seq(Nat)
      BY <1>3
    <3>1. A \o B \in Seq(Nat) /\ Len(A \o B) = Len(A) + Len(B)
      BY <3>0
    <3>2. \A i \in 1..Len(A) : (A \o B)[i] = A[i]
      BY <3>0
    <3>3. \A i \in 1..Len(B) : (A \o B)[Len(A) + i] = B[i]
      BY <3>0
    <3> QED
      BY <1>3, <3>1, <3>2, <3>3
  <2> HIDE DEF AB
  <2>2. /\ Len(AB \o C) = r + n + k
        /\ \A i \in 1..(r + n) : (AB \o C)[i] = AB[i]
        /\ \A i \in 1..k : (AB \o C)[r + n + i] = C[i]
    <3>0. AB \in Seq(Nat) /\ C \in Seq(Nat)
      BY <1>3, <2>1
    <3>1. Len(AB \o C) = Len(AB) + Len(C)
      BY <3>0
    <3>2. \A i \in 1..Len(AB) : (AB \o C)[i] = AB[i]
      BY <3>0
    <3>3. \A i \in 1..Len(C) : (AB \o C)[Len(AB) + i] = C[i]
      BY <3>0
    <3> QED
      BY <1>3, <2>1, <3>1, <3>2, <3>3
  <2>3. /\ \A i \in 1..r : i \in 1..(r + n)
        /\ \A i \in 1..n : r + i \in 1..(r + n)
    BY <1>2
  <2> QED
    BY <2>1, <2>2, <2>3 DEF AB
<1> HIDE DEF line
<1>7. ASSUME NEW i \in 1..Len(line)
      PROVE  \/ i \in 1..r /\ line[i] = i
             \/ i - r \in 1..n /\ line[i] = B[i - r]
             \/ i - r - n \in 1..k /\ line[i] = C[i - r - n]
  <2>1. \/ i \in 1..r
        \/ i - r \in 1..n /\ r + (i - r) = i
        \/ i - r - n \in 1..k /\ r + n + (i - r - n) = i
    <3>1. i \in 1..(r + n + k)
      BY <1>6
    <3> HIDE DEF places
    <3> QED
      BY <1>2, <3>1
  <2> QED
    BY <1>4, <1>6, <2>1
<1>8. ASSUME NEW i \in places
      PROVE  line[i] \in 1..gathered
  BY <1>2, <1>4, <1>5, <1>7
<1>9. ASSUME NEW h \in 1..gathered
      PROVE  \E i \in places : line[i] = h
  <2>1. h # 0 /\ h \in Nat
    BY <1>2
  <2>2. CASE h <= r
    BY <1>2, <1>4, <1>6, <2>1, <2>2
  <2>3. ASSUME NEW i \in 1..n, B[i] = h
        PROVE  r + i \in places /\ line[r + i] = h
    BY <1>2, <1>6, <2>1, <2>3
  <2>4. ASSUME NEW i \in 1..k, C[i] = h
        PROVE  r + n + i \in places /\ line[r + n + i] = h
    BY <1>2, <1>6, <2>1, <2>4
  <2> QED
    BY <1>5, <2>2, <2>3, <2>4
<1>10. {line[i] : i \in places} = 1..gathered
  BY <1>8, <1>9
<1>11. ASSUME NEW i \in places, NEW j \in places, i < j
       PROVE  line[i] < line[j]
  <2>1. i \in 1..Len(line) /\ j \in 1..Len(line) /\ line[i] # 0 /\ line[j] # 0
        /\ i \in Nat /\ j \in Nat
    BY <1>6, <1>2
  <2>2. CASE i \in 1..r /\ line[i] = i
    <3>1. CASE j \in 1..r /\ line[j] = j
      BY <1>11, <2>2, <3>1
    <3>2. CASE j - r \in 1..n /\ line[j] = B[j - r]
      BY <1>2, <1>4, <1>5, <2>1, <2>2, <3>2
    <3>3. CASE j - r - n \in 1..k /\ line[j] = C[j - r - n]
      BY <1>2, <1>4, <1>5, <2>1, <2>2, <3>3
    <3> QED
      BY <1>7, <2>1, <3>1, <3>2, <3>3
  <2>3. CASE i - r \in 1..n /\ line[i] = B[i - r]
    <3>1. CASE j \in 1..r
      BY <1>2, <1>11, <2>1, <2>3, <3>1
    <3>2. CASE j - r \in 1..n /\ line[j] = B[j - r]
      <4>1. i - r < j - r
        BY <1>2, <1>11, <2>1
      <4> QED
        BY <1>5, <2>1, <2>3, <3>2, <4>1
    <3>3. CASE j - r - n \in 1..k /\ line[j] = C[j - r - n]
      BY <1>5, <2>3, <3>3
    <3> QED
      BY <1>7, <2>1, <3>1, <3>2, <3>3
  <2>4. CASE i - r - n \in 1..k /\ line[i] = C[i - r - n]
    <3>1. j - r - n \in 1..k /\ line[j] = C[j - r - n] /\ i - r - n < j - r - n
      <4>1. ~(j \in 1..r) /\ ~(j - r \in 1..n) /\ i - r - n < j - r - n
        BY <1>2, <1>11, <2>1, <2>4
      <4> QED
        BY <1>7, <2>1, <4>1
    <3> QED
      BY <1>5, <2>4, <3>1
  <2> QED
    BY <1>7, <2>1, <2>2, <2>3, <2>4
<1> QED
  BY <1>10, <1>11 DEF LocalCandidatesInOrder, line, A, B, C, r, n, k

(* Lemma: the browser's candidates stay in line in every step.             *)
LEMMA OutgoingStep ==
    ASSUME TypeInv, OutgoingInv, [Next]_vars
    PROVE  OutgoingInv'
<1> USE DEF clientVars, peerVars, voxVars
<1>1. CASE Negotiate
  <2>1. status # "closed" /\ pendingLocalCandidates = <<>>
    BY <1>1 DEF Negotiate, TypeInv, StageInv
  <2> QED
    BY <1>1, <2>1, OutgoingFrame DEF Negotiate, NegotiateBegins
<1>2. CASE Close \/ OfferRefused \/ OfferTimesOut
  BY <1>2, OutgoingFrame DEF Close, OfferRefused, OfferTimesOut, CloseCall
<1>3. CASE CreateOffer \/ AnswerArrives \/ ConnectResolves
  <2>1. status # "closed"
    BY <1>3 DEF CreateOffer, AnswerArrives, ConnectResolves, TypeInv, StageInv
  <2> QED
    BY <1>3, <2>1, OutgoingFrame DEF CreateOffer, AnswerArrives, ConnectResolves
<1>4. CASE SetRemoteDescription \/ FlushServerCandidates
  <2>1. status # "closed" /\ pendingLocalCandidates = <<>>
    BY <1>4 DEF SetRemoteDescription, FlushServerCandidates, TypeInv, StageInv
  <2> QED
    BY <1>4, <2>1, OutgoingFrame
       DEF SetRemoteDescription, FlushServerCandidates, NegotiateEnds
<1>5. CASE ServerCandidate
  BY <1>5, OutgoingFrame DEF ServerCandidate, Receives
<1>6. CASE VoxAnswers \/ VoxTrickles \/ UNCHANGED vars
  BY <1>6, OutgoingFrame DEF VoxAnswers, VoxTrickles, vars
<1> QED
  BY <1>1, <1>2, <1>3, <1>4, <1>5, <1>6, OutgoingLocal, OutgoingOffer, OutgoingArrives
     DEF Next, PeerStep

(* Theorem: Vox gets the browser's candidates complete, in the order they  *)
(* were gathered, each after the offer it is labelled for and before the   *)
(* next one: buffering in onicecandidate, #flushLocalCandidates after the  *)
(* offer and the generation of the signaling client never get out of step. *)
THEOREM CandidatesReachVox == Spec => []OutgoingCandidates
<1>1. Init => OutgoingInv
  BY DEF Init, OutgoingInv, LabelInv, Before, LabelledForOffer, LineInv
<1>2. TypeInv /\ OutgoingInv /\ [Next]_vars => OutgoingInv'
  BY OutgoingStep
<1>3. TypeInv /\ OutgoingInv => OutgoingCandidates
  BY LineIsInOrder DEF TypeInv
<1> QED
  BY <1>1, <1>2, <1>3, NegotiationTypes, PTL DEF Spec

-----------------------------------------------------------------------------
(* Candidates of Vox.                                                      *)

(* Lemma: types of what is in line, for the arithmetic.                    *)
LEMMA IncomingTypes ==
    ASSUME TypeOK
    PROVE  /\ Len(toBrowser) \in Nat /\ Len(applied) \in Nat
           /\ Len(flushing) \in Nat /\ Len(pendingServerCandidates) \in Nat
           /\ voxSent \in Nat /\ negotiationGeneration \in Nat
           /\ \A i \in 1..Len(toBrowser) :
                 toBrowser[i] \in ToBrowser /\ Carried(toBrowser[i]) \in Nat
           /\ \A i \in 1..Len(applied) :
                 applied[i][1] \in VoxCandidates /\ applied[i][2] \in Nat
           /\ \A i \in 1..Len(flushing) : flushing[i] \in VoxCandidates
           /\ \A i \in 1..Len(pendingServerCandidates) :
                 pendingServerCandidates[i] \in VoxCandidates
           /\ Taken \subseteq VoxCandidates
           /\ \A c \in VoxCandidates : c.n \in Nat \ {0} /\ c.generation \in Nat
<1>1. \A i \in 1..Len(toBrowser) : toBrowser[i] \in ToBrowser
  BY DEF TypeOK
<1>2. \A i \in 1..Len(applied) : applied[i][1] \in VoxCandidates /\ applied[i][2] \in Nat
  BY DEF TypeOK
<1>3. \A i \in 1..Len(flushing) : flushing[i] \in VoxCandidates
  BY DEF TypeOK
<1>4. \A i \in 1..Len(pendingServerCandidates) :
         pendingServerCandidates[i] \in VoxCandidates
  BY DEF TypeOK
<1>5. Taken \subseteq VoxCandidates
  BY <1>2 DEF Taken, TypeOK
<1>6. /\ Len(toBrowser) \in Nat /\ Len(applied) \in Nat
      /\ Len(flushing) \in Nat /\ Len(pendingServerCandidates) \in Nat
      /\ voxSent \in Nat /\ negotiationGeneration \in Nat
  BY DEF TypeOK
<1>7. \A c \in VoxCandidates : c.n \in Nat \ {0} /\ c.generation \in Nat
  BY ToBrowserShape DEF Generations
<1> QED
  BY <1>1, <1>2, <1>3, <1>4, <1>5, <1>6, <1>7, ToBrowserShape

(* Lemma: the browser takes nothing new.                                   *)
LEMMA WireFrame ==
    ASSUME WireInv, AheadInv, UNCHANGED <<toBrowser, voxSent>>, Taken' \subseteq Taken
    PROVE  WireInv' /\ AheadInv'
<1>1. WireInv'
  BY DEF WireInv
<1>2. AheadInv'
  BY DEF AheadInv
<1> QED
  BY <1>1, <1>2

(* Lemma: the browser takes the next message, and its candidate if it has  *)
(* one.                                                                    *)
LEMMA WireReceives ==
    ASSUME TypeOK, WireInv, AheadInv, toBrowser # <<>>, toBrowser' = Tail(toBrowser),
           UNCHANGED voxSent,
           \A c \in Taken' : \/ c \in Taken
                             \/ /\ Carried(Head(toBrowser)) # 0
                                /\ c = Head(toBrowser).candidate
    PROVE  WireInv' /\ AheadInv'
<1> DEFINE n == Len(toBrowser)
<1>1. n \in Nat \ {0} /\ Head(toBrowser) = toBrowser[1] /\ 1 \in 1..n
  BY DEF TypeOK
<1>2. /\ Len(toBrowser') = n - 1
      /\ \A i \in 1..(n - 1) : toBrowser'[i] = toBrowser[i + 1]
  BY <1>1 DEF TypeOK
<1>3. \A i \in 1..(n - 1) : i + 1 \in 1..n /\ 1 < i + 1
  BY <1>1
<1>4. \A i, j \in 1..(n - 1) : i < j => i + 1 < j + 1
  BY <1>1
<1>5. Carried(Head(toBrowser)) # 0 =>
         /\ Head(toBrowser).candidate.n = Carried(toBrowser[1])
         /\ \A j \in 1..n : 1 < j /\ Carried(toBrowser[j]) # 0 =>
               Carried(toBrowser[1]) < Carried(toBrowser[j])
         /\ Carried(toBrowser[1]) <= voxSent
  <2>1. toBrowser[1] \in ToBrowser
    BY <1>1, IncomingTypes
  <2>2. Carried(toBrowser[1]) # 0 =>
           toBrowser[1].candidate.n = Carried(toBrowser[1])
    BY <2>1, ToBrowserShape
  <2> QED
    BY <1>1, <2>2 DEF WireInv
<1> HIDE DEF n
<1>6. WireInv'
  BY <1>2, <1>3, <1>4 DEF WireInv, n
<1>7. AheadInv'
  BY <1>1, <1>2, <1>3, <1>5 DEF AheadInv, n
<1> QED
  BY <1>6, <1>7

(* Lemma: Vox sends an answer, a refusal or its next candidate.            *)
LEMMA WireSends ==
    ASSUME TypeOK, WireInv, AheadInv, UNCHANGED <<early, applied>>,
           NEW m \in ToBrowser, toBrowser' = Append(toBrowser, m),
           \/ Carried(m) = 0 /\ UNCHANGED voxSent
           \/ /\ voxSent' = voxSent + 1 /\ Carried(m) = voxSent + 1
              /\ m.candidate.generation = m.generation
    PROVE  WireInv' /\ AheadInv'
<1> DEFINE n == Len(toBrowser)
<1>1. n \in Nat /\ Len(toBrowser') = n + 1 /\ toBrowser'[n + 1] = m
      /\ \A i \in 1..n : toBrowser'[i] = toBrowser[i]
  BY DEF TypeOK
<1>2. \A i \in 1..(n + 1) : i \in 1..n \/ i = n + 1
  BY <1>1
<1>3. /\ voxSent <= voxSent' /\ voxSent \in Nat /\ voxSent' \in Nat
      /\ Carried(m) \in Nat /\ Carried(m) <= voxSent'
      /\ Carried(m) # 0 => voxSent < Carried(m)
  BY IncomingTypes, ToBrowserShape
<1>4. Taken' = Taken
  BY DEF Taken
<1>5. \A i \in 1..n : Carried(toBrowser[i]) \in Nat /\ Carried(toBrowser[i]) <= voxSent
  BY IncomingTypes DEF WireInv
<1>6. \A c \in Taken : c.n \in Nat /\ c.n <= voxSent
  BY IncomingTypes DEF AheadInv
<1> HIDE DEF n
<1>7. WireInv'
  <2>1. \A i \in 1..(n + 1) : Carried(toBrowser'[i]) # 0 =>
           toBrowser'[i].candidate.generation = toBrowser'[i].generation
    BY <1>1, <1>2 DEF WireInv, n
  <2>2. \A i \in 1..(n + 1) : Carried(toBrowser'[i]) <= voxSent'
    BY <1>1, <1>2, <1>3, <1>5
  <2>3. \A i, j \in 1..(n + 1) :
           i < j /\ Carried(toBrowser'[i]) # 0 /\ Carried(toBrowser'[j]) # 0 =>
              Carried(toBrowser'[i]) < Carried(toBrowser'[j])
    <3> TAKE i, j \in 1..(n + 1)
    <3> HAVE i < j /\ Carried(toBrowser'[i]) # 0 /\ Carried(toBrowser'[j]) # 0
    <3>1. i \in 1..n
      BY <1>1
    <3>2. CASE j \in 1..n
      BY <1>1, <3>1, <3>2 DEF WireInv, n
    <3>3. CASE j = n + 1
      BY <1>1, <1>3, <1>5, <3>1, <3>3
    <3> QED
      BY <1>2, <3>2, <3>3
  <2> QED
    BY <1>1, <2>1, <2>2, <2>3 DEF WireInv
<1>8. AheadInv'
  <2> SUFFICES ASSUME NEW c \in Taken
               PROVE  /\ c.n <= voxSent'
                      /\ \A j \in 1..(n + 1) : Carried(toBrowser'[j]) # 0 =>
                            c.n < Carried(toBrowser'[j])
    BY <1>1, <1>4 DEF AheadInv
  <2>1. c.n <= voxSent'
    BY <1>3, <1>6
  <2>2. \A j \in 1..n : Carried(toBrowser'[j]) # 0 => c.n < Carried(toBrowser'[j])
    BY <1>1 DEF AheadInv, n
  <2>3. Carried(m) # 0 => c.n < Carried(m)
    BY <1>3, <1>6
  <2> QED
    BY <1>1, <1>2, <2>1, <2>2, <2>3
<1> QED
  BY <1>7, <1>8

(* Lemma: what Vox sends keeps its order in every step.                    *)
LEMMA WireStep ==
    ASSUME TypeInv, IncomingInv, [Next]_vars
    PROVE  WireInv' /\ AheadInv'
<1> USE DEF TypeInv, clientVars, peerVars, voxVars
<1>1. WireInv /\ AheadInv
  BY DEF IncomingInv
<1>2. CASE \/ Negotiate \/ Close \/ CreateOffer \/ ExchangeOffer \/ LocalCandidate
           \/ OfferTimesOut \/ ConnectResolves \/ VoxReceives \/ UNCHANGED vars
  <2>1. UNCHANGED <<toBrowser, voxSent, early, applied>>
    BY <1>2 DEF Negotiate, Close, CloseCall, CreateOffer, ExchangeOffer,
                LocalCandidate, OfferTimesOut, ConnectResolves, VoxReceives, vars
  <2> QED
    BY <1>1, <2>1, WireFrame DEF Taken
<1>3. CASE AnswerArrives \/ OfferRefused
  <2>1. /\ toBrowser # <<>> /\ toBrowser' = Tail(toBrowser)
        /\ UNCHANGED <<voxSent, early, applied>>
    BY <1>3 DEF AnswerArrives, OfferRefused, Receives, CloseCall
  <2>2. Taken' = Taken
    BY <2>1 DEF Taken
  <2> QED
    BY <1>1, <2>1, <2>2, WireReceives
<1>4. ASSUME NEW c \in Taken, AddIceCandidate(c), UNCHANGED <<toBrowser, voxSent, early>>
      PROVE  WireInv' /\ AheadInv'
  <2>1. /\ Len(applied) \in Nat /\ Len(applied') = Len(applied) + 1
        /\ applied'[Len(applied) + 1] = <<c, remoteDescription'>>
        /\ \A i \in 1..Len(applied) : applied'[i] = applied[i]
    BY <1>4 DEF AddIceCandidate, TypeOK
  <2>2. ASSUME NEW i \in 1..Len(applied')
        PROVE  applied'[i][1] \in Taken
    <3>1. i \in 1..Len(applied) \/ i = Len(applied) + 1
      BY <2>1
    <3> QED
      BY <1>4, <2>1, <3>1 DEF Taken
  <2>3. Taken' \subseteq Taken
    BY <1>4, <2>2 DEF Taken
  <2> QED
    BY <1>1, <1>4, <2>3, WireFrame
<1>5. CASE SetRemoteDescription
  <2>1. CASE UNCHANGED applied
    BY <1>1, <1>5, <2>1, WireFrame DEF SetRemoteDescription, Taken
  <2>2. CASE /\ pendingServerCandidates # <<>>
             /\ AddIceCandidate(Head(pendingServerCandidates))
    <3>1. /\ 1 \in 1..Len(pendingServerCandidates)
          /\ Head(pendingServerCandidates) = pendingServerCandidates[1]
      BY <2>2 DEF TypeOK
    <3>2. EarlyInv
      BY <1>5 DEF SetRemoteDescription, StageInv, IncomingInv
    <3>3. Head(pendingServerCandidates) \in Taken
      BY <3>1, <3>2 DEF EarlyInv, Taken
    <3> QED
      BY <1>4, <1>5, <2>2, <3>3 DEF SetRemoteDescription
  <2> QED
    BY <1>5, <2>1, <2>2 DEF SetRemoteDescription
<1>6. CASE FlushServerCandidates
  <2>1. CASE UNCHANGED applied
    BY <1>1, <1>6, <2>1, WireFrame DEF FlushServerCandidates, Taken
  <2>2. CASE flushing # <<>> /\ AddIceCandidate(Head(flushing))
    <3>1. 1 \in 1..Len(flushing) /\ Head(flushing) = flushing[1]
      BY <2>2 DEF TypeOK
    <3>2. EarlyInv
      BY <1>6 DEF FlushServerCandidates, StageInv, IncomingInv
    <3>3. Head(flushing) \in Taken
      BY <3>1, <3>2 DEF EarlyInv, Taken
    <3> QED
      BY <1>4, <1>6, <2>2, <3>3 DEF FlushServerCandidates
  <2> QED
    BY <1>6, <2>1, <2>2 DEF FlushServerCandidates
<1>7. CASE ServerCandidate
  <2> DEFINE m == Head(toBrowser)
  <2>1. /\ toBrowser # <<>> /\ toBrowser' = Tail(toBrowser) /\ UNCHANGED voxSent
        /\ m.type = "rtc.ice_candidate"
        /\ \/ UNCHANGED <<early, applied>>
           \/ early' = early \cup {m.candidate} /\ UNCHANGED applied
           \/ AddIceCandidate(m.candidate) /\ UNCHANGED early
    BY <1>7 DEF ServerCandidate, Receives
  <2>2. m \in ToBrowser
    BY <2>1 DEF TypeOK
  <2>3. Carried(m) # 0
    BY <2>1, <2>2, ToBrowserShape
  <2> HIDE DEF m
  <2>4. Taken' \subseteq Taken \cup {m.candidate}
    <3>1. CASE UNCHANGED applied
      BY <2>1, <3>1 DEF Taken, AddIceCandidate
    <3>2. CASE AddIceCandidate(m.candidate) /\ UNCHANGED early
      <4>1. /\ Len(applied) \in Nat /\ Len(applied') = Len(applied) + 1
            /\ applied'[Len(applied) + 1] = <<m.candidate, remoteDescription'>>
            /\ \A i \in 1..Len(applied) : applied'[i] = applied[i]
        BY <3>2 DEF AddIceCandidate, TypeOK
      <4>2. ASSUME NEW i \in 1..Len(applied')
            PROVE  applied'[i][1] \in Taken \cup {m.candidate}
        <5>1. i \in 1..Len(applied) \/ i = Len(applied) + 1
          BY <4>1
        <5> QED
          BY <4>1, <5>1 DEF Taken
      <4> QED
        BY <3>2, <4>2 DEF Taken
    <3> QED
      BY <2>1, <3>1, <3>2
  <2> QED
    BY <1>1, <2>1, <2>3, <2>4, WireReceives DEF m
<1>8. CASE VoxAnswers
  <2>1. voxGeneration \in Generations
    BY <1>8 DEF VoxAnswers, StageInv, TypeOK, Generations
  <2>2. PICK m \in {Answer(voxGeneration), Refusal(voxGeneration)} :
           toBrowser' = Append(toBrowser, m)
    BY <1>8 DEF VoxAnswers
  <2>3. m \in ToBrowser /\ Carried(m) = 0
    BY <2>1, ToBrowserShape
  <2>4. UNCHANGED <<early, applied, voxSent>>
    BY <1>8 DEF VoxAnswers
  <2> QED
    BY <1>1, <2>2, <2>3, <2>4, WireSends
<1>9. CASE VoxTrickles
  <2> DEFINE c == [n |-> voxSent', generation |-> voxGeneration]
             m == Trickle(c, voxGeneration)
  <2>1. /\ voxSent' = voxSent + 1 /\ voxSent' \in 1..MaxVoxCandidates
        /\ voxGeneration \in Generations
    BY <1>9 DEF VoxTrickles, TypeOK, Generations
  <2>2. c \in VoxCandidates /\ c.n = voxSent + 1 /\ c.generation = voxGeneration
    BY <2>1 DEF VoxCandidates, Candidates
  <2>3. toBrowser' = Append(toBrowser, m) /\ UNCHANGED <<early, applied>>
    BY <1>9 DEF VoxTrickles
  <2> HIDE DEF c
  <2>4. m \in ToBrowser /\ Carried(m) = voxSent + 1
        /\ m.candidate.generation = m.generation
    BY <2>1, <2>2, ToBrowserShape
  <2> HIDE DEF m
  <2> QED
    BY <1>1, <2>1, <2>3, <2>4, WireSends
<1> QED
  BY <1>2, <1>3, <1>5, <1>6, <1>7, <1>8, <1>9 DEF Next, PeerStep

(* Lemma: what a peer that is given one more candidate has.                *)
LEMMA AppliedGrows ==
    ASSUME TypeOK, NEW c, AddIceCandidate(c)
    PROVE  /\ Len(applied) \in Nat /\ Len(applied') = Len(applied) + 1
           /\ applied'[Len(applied) + 1][1] = c
           /\ applied'[Len(applied) + 1][2] = remoteDescription'
           /\ \A i \in 1..Len(applied) : applied'[i] = applied[i]
           /\ \A i \in 1..Len(applied') : i \in 1..Len(applied) \/ i = Len(applied) + 1
<1>1. /\ Len(applied) \in Nat /\ Len(applied') = Len(applied) + 1
      /\ applied'[Len(applied) + 1] = <<c, remoteDescription'>>
      /\ \A i \in 1..Len(applied) : applied'[i] = applied[i]
  BY DEF AddIceCandidate, TypeOK
<1>2. \A i \in 1..Len(applied') : i \in 1..Len(applied) \/ i = Len(applied) + 1
  BY <1>1
<1> QED
  BY <1>1, <1>2

(* Lemma: a buffer that is not empty has a first candidate and a rest.     *)
LEMMA BufferSplits ==
    ASSUME NEW s \in Seq(VoxCandidates), s # <<>>
    PROVE  /\ Len(s) \in Nat \ {0} /\ 1 \in 1..Len(s) /\ Head(s) = s[1]
           /\ Len(Tail(s)) = Len(s) - 1
           /\ \A i \in 1..(Len(s) - 1) :
                 Tail(s)[i] = s[i + 1] /\ i + 1 \in 1..Len(s) /\ 1 < i + 1
           /\ \A i, j \in 1..(Len(s) - 1) : i < j => i + 1 < j + 1
<1>1. Len(s) \in Nat \ {0} /\ Head(s) = s[1] /\ Len(Tail(s)) = Len(s) - 1
  OBVIOUS
<1>2. \A i \in 1..(Len(s) - 1) : Tail(s)[i] = s[i + 1]
  OBVIOUS
<1>3. \A i \in 1..(Len(s) - 1) : i + 1 \in 1..Len(s) /\ 1 < i + 1
  BY <1>1
<1>4. \A i, j \in 1..(Len(s) - 1) : i < j => i + 1 < j + 1
  BY <1>1
<1> QED
  BY <1>1, <1>2, <1>3, <1>4

(* Lemma: a candidate of an old enough negotiation may be applied.         *)
LEMMA AppliedInTime ==
    ASSUME TypeOK, NeverAppliedEarly, NEW c, AddIceCandidate(c),
           c.generation <= remoteDescription'
    PROVE  NeverAppliedEarly'
BY AppliedGrows DEF NeverAppliedEarly

(* Lemma: in no step does the browser come to hold a candidate of a        *)
(* negotiation that is not its own yet, or apply one early.                *)
LEMMA GenerationStep ==
    ASSUME TypeInv, IncomingInv, [Next]_vars
    PROVE  GenerationInv'
<1> DEFINE ps == pendingServerCandidates
<1> USE DEF TypeInv, clientVars, peerVars, voxVars
<1>1. GenerationInv /\ WireInv /\ NeverAppliedEarly
  BY DEF IncomingInv, GenerationInv
<1>2. CASE \/ Negotiate \/ CreateOffer \/ LocalCandidate \/ AnswerArrives
           \/ ConnectResolves \/ VoxReceives \/ VoxAnswers \/ VoxTrickles
           \/ UNCHANGED vars
  <2>1. UNCHANGED <<negotiationGeneration, pendingServerCandidates, flushing, applied>>
    BY <1>2 DEF Negotiate, CreateOffer, LocalCandidate, AnswerArrives,
                ConnectResolves, VoxReceives, VoxAnswers, VoxTrickles, vars
  <2> QED
    BY <1>1, <2>1 DEF GenerationInv, NeverAppliedEarly
<1>3. CASE Close \/ OfferRefused \/ OfferTimesOut
  <2>1. /\ ps' = <<>> /\ flushing' = <<>> /\ UNCHANGED applied
    BY <1>3 DEF Close, OfferRefused, OfferTimesOut, CloseCall
  <2> QED
    BY <1>1, <2>1 DEF GenerationInv, NeverAppliedEarly
<1>4. CASE ExchangeOffer
  <2>1. /\ negotiationGeneration' = negotiationGeneration + 1
        /\ UNCHANGED <<pendingServerCandidates, flushing, applied>>
    BY <1>4 DEF ExchangeOffer
  <2>2. NeverAppliedEarly'
    BY <1>1, <2>1 DEF NeverAppliedEarly
  <2>3. /\ \A i \in 1..Len(ps) : ps[i].generation <= negotiationGeneration + 1
        /\ \A i \in 1..Len(flushing) : flushing[i].generation <= negotiationGeneration + 1
    BY <1>1, IncomingTypes DEF GenerationInv
  <2> QED
    BY <2>1, <2>2, <2>3 DEF GenerationInv
<1>5. CASE SetRemoteDescription
  <2>1. ps' = <<>> /\ remoteDescription' = negotiationGeneration
        /\ UNCHANGED negotiationGeneration
    BY <1>5 DEF SetRemoteDescription
  <2>2. CASE UNCHANGED <<flushing, applied>>
    BY <1>1, <2>1, <2>2 DEF GenerationInv, NeverAppliedEarly
  <2>3. CASE ps # <<>> /\ AddIceCandidate(Head(ps)) /\ flushing' = Tail(ps)
    <3>1. ps \in Seq(VoxCandidates)
      BY DEF TypeOK
    <3>2. Head(ps).generation <= remoteDescription'
      BY <1>1, <2>1, <2>3, <3>1, BufferSplits DEF GenerationInv
    <3>3. NeverAppliedEarly'
      BY <1>1, <2>3, <3>2, AppliedInTime
    <3>4. \A i \in 1..Len(flushing') : flushing'[i].generation <= negotiationGeneration
      BY <1>1, <2>3, <3>1, BufferSplits DEF GenerationInv
    <3> QED
      BY <2>1, <3>3, <3>4 DEF GenerationInv
  <2> QED
    BY <1>5, <2>2, <2>3 DEF SetRemoteDescription
<1>6. CASE FlushServerCandidates
  <2>1. /\ UNCHANGED <<negotiationGeneration, pendingServerCandidates, remoteDescription>>
        /\ remoteDescription = negotiationGeneration
    BY <1>6 DEF FlushServerCandidates, StageInv
  <2>2. CASE UNCHANGED <<flushing, applied>>
    BY <1>1, <2>1, <2>2 DEF GenerationInv, NeverAppliedEarly
  <2>3. CASE flushing # <<>> /\ AddIceCandidate(Head(flushing))
             /\ flushing' = Tail(flushing)
    <3>1. flushing \in Seq(VoxCandidates)
      BY DEF TypeOK
    <3>2. Head(flushing).generation <= remoteDescription'
      BY <1>1, <2>1, <2>3, <3>1, BufferSplits DEF GenerationInv
    <3>3. NeverAppliedEarly'
      BY <1>1, <2>3, <3>2, AppliedInTime
    <3>4. \A i \in 1..Len(flushing') : flushing'[i].generation <= negotiationGeneration
      BY <1>1, <2>3, <3>1, BufferSplits DEF GenerationInv
    <3> QED
      BY <1>1, <2>1, <3>3, <3>4 DEF GenerationInv
  <2> QED
    BY <1>6, <2>2, <2>3 DEF FlushServerCandidates
<1>7. CASE ServerCandidate
  <2> DEFINE m == Head(toBrowser)
  <2>1. /\ status # "closed" /\ toBrowser # <<>> /\ m.type = "rtc.ice_candidate"
        /\ UNCHANGED <<negotiationGeneration, remoteDescription, flushing>>
        /\ \/ UNCHANGED <<pendingServerCandidates, applied>>
           \/ /\ m.generation = negotiationGeneration
              /\ ps' = Append(ps, m.candidate) /\ UNCHANGED applied
           \/ /\ m.generation = negotiationGeneration /\ ~awaitingRemoteDescription
              /\ AddIceCandidate(m.candidate) /\ UNCHANGED pendingServerCandidates
    BY <1>7 DEF ServerCandidate, Receives, CurrentGeneration, HoldBack,
                BufferServerCandidate
  <2>2. 1 \in 1..Len(toBrowser) /\ m = toBrowser[1] /\ m \in ToBrowser
    BY <2>1 DEF TypeOK
  <2>3. m.candidate.generation = m.generation
    BY <1>1, <2>1, <2>2, ToBrowserShape DEF WireInv
  <2> HIDE DEF m
  <2>4. CASE UNCHANGED <<pendingServerCandidates, applied>>
    BY <1>1, <2>1, <2>4 DEF GenerationInv, NeverAppliedEarly
  <2>5. CASE /\ m.generation = negotiationGeneration
             /\ ps' = Append(ps, m.candidate) /\ UNCHANGED applied
    <3>1. /\ Len(ps) \in Nat /\ Len(ps') = Len(ps) + 1 /\ ps'[Len(ps) + 1] = m.candidate
          /\ \A i \in 1..Len(ps) : ps'[i] = ps[i]
      BY <2>5 DEF TypeOK
    <3>2. \A i \in 1..Len(ps') : i \in 1..Len(ps) \/ i = Len(ps) + 1
      BY <3>1
    <3>3. m.candidate.generation <= negotiationGeneration
      BY <2>3, <2>5, IncomingTypes
    <3>4. \A i \in 1..Len(ps') : ps'[i].generation <= negotiationGeneration
      BY <1>1, <3>1, <3>2, <3>3 DEF GenerationInv
    <3>5. NeverAppliedEarly'
      BY <1>1, <2>5 DEF NeverAppliedEarly
    <3> QED
      BY <1>1, <2>1, <3>4, <3>5 DEF GenerationInv
  <2>6. CASE /\ m.generation = negotiationGeneration /\ ~awaitingRemoteDescription
             /\ AddIceCandidate(m.candidate) /\ UNCHANGED pendingServerCandidates
    <3>1. m.candidate.generation <= remoteDescription'
      BY <2>1, <2>3, <2>6, IncomingTypes DEF StageInv
    <3>2. NeverAppliedEarly'
      BY <1>1, <2>6, <3>1, AppliedInTime
    <3> QED
      BY <1>1, <2>1, <2>6, <3>2 DEF GenerationInv
  <2> QED
    BY <2>1, <2>4, <2>5, <2>6
<1> QED
  BY <1>2, <1>3, <1>4, <1>5, <1>6, <1>7 DEF Next, PeerStep

(* Lemma: the buffer is taken: its first candidate is applied, the others  *)
(* wait in the flush.                                                      *)
LEMMA EarlyTaken ==
    ASSUME TypeInv, EarlyInv, flushing = <<>>, pendingServerCandidates # <<>>,
           AddIceCandidate(Head(pendingServerCandidates)),
           flushing' = Tail(pendingServerCandidates),
           pendingServerCandidates' = <<>>, UNCHANGED early
    PROVE  EarlyInv'
<1> DEFINE ps == pendingServerCandidates
           a == Len(applied)
           k == Len(ps)
<1>1. ps \in Seq(VoxCandidates)
  BY DEF TypeInv, TypeOK
<1>2. /\ k \in Nat \ {0} /\ 1 \in 1..k /\ Head(ps) = ps[1]
      /\ Len(flushing') = k - 1
      /\ \A i \in 1..(k - 1) : flushing'[i] = ps[i + 1] /\ i + 1 \in 1..k /\ 1 < i + 1
      /\ \A i, j \in 1..(k - 1) : i < j => i + 1 < j + 1
  BY <1>1, BufferSplits
<1>3. /\ a \in Nat /\ Len(applied') = a + 1 /\ applied'[a + 1][1] = ps[1]
      /\ \A i \in 1..a : applied'[i] = applied[i]
      /\ \A i \in 1..Len(applied') : i \in 1..a \/ i = a + 1
  BY <1>2, AppliedGrows DEF TypeInv
<1>4. Len(ps') = 0 /\ Len(flushing) = 0
  OBVIOUS
<1> HIDE DEF ps, a, k
<1>5. \A i \in 1..Len(flushing') : flushing'[i] \in early
  BY <1>2 DEF EarlyInv, ps, k
<1>6. ASSUME NEW c \in early
      PROVE  \/ \E i \in 1..Len(applied') : applied'[i][1] = c
             \/ \E i \in 1..Len(flushing') : flushing'[i] = c
  <2>1. CASE \E i \in 1..a : applied[i][1] = c
    <3>1. \A i \in 1..a : i \in 1..(a + 1)
      BY <1>3
    <3> QED
      BY <1>3, <2>1, <3>1
  <2>2. ASSUME NEW i \in 1..k, ps[i] = c
        PROVE  \/ \E j \in 1..Len(applied') : applied'[j][1] = c
               \/ \E j \in 1..Len(flushing') : flushing'[j] = c
    <3>1. CASE i = 1
      <4>1. a + 1 \in 1..(a + 1)
        BY <1>3
      <4> QED
        BY <1>3, <2>2, <3>1, <4>1
    <3>2. CASE i # 1
      <4>1. i - 1 \in 1..(k - 1) /\ (i - 1) + 1 = i
        BY <1>2, <3>2
      <4> QED
        BY <1>2, <2>2, <4>1
    <3> QED
      BY <3>1, <3>2
  <2>3. ~ \E i \in 1..Len(flushing) : flushing[i] = c
    BY <1>4
  <2> QED
    BY <2>1, <2>2, <2>3 DEF EarlyInv, ps, a, k
<1>7. /\ \A i \in 1..a, j \in 1..k : applied[i][1] \in early => applied[i][1].n < ps[j].n
      /\ \A i, j \in 1..k : i < j => ps[i].n < ps[j].n
      /\ \A i, j \in 1..a :
            i < j /\ applied[i][1] \in early /\ applied[j][1] \in early =>
               applied[i][1].n < applied[j][1].n
  BY DEF EarlyInv, ps, a, k
<1>8. ASSUME NEW i \in 1..Len(applied'), NEW j \in 1..Len(applied'), i < j,
             applied'[i][1] \in early, applied'[j][1] \in early
      PROVE  applied'[i][1].n < applied'[j][1].n
  <2>1. i \in 1..a
    BY <1>3, <1>8
  <2> QED
    BY <1>2, <1>3, <1>7, <1>8, <2>1
<1>9. \A i, j \in 1..Len(flushing') : i < j => flushing'[i].n < flushing'[j].n
  BY <1>2, <1>7
<1>10. \A i \in 1..Len(applied'), j \in 1..Len(flushing') :
          applied'[i][1] \in early => applied'[i][1].n < flushing'[j].n
  BY <1>2, <1>3, <1>7
<1>11. \A i \in 1..Len(ps') : FALSE
  BY <1>4
<1> QED
  BY <1>5, <1>6, <1>8, <1>9, <1>10, <1>11 DEF EarlyInv, ps

(* Lemma: the flush goes on with its next candidate.                       *)
LEMMA EarlyFlushed ==
    ASSUME TypeInv, EarlyInv, flushing # <<>>, AddIceCandidate(Head(flushing)),
           flushing' = Tail(flushing), UNCHANGED <<pendingServerCandidates, early>>
    PROVE  EarlyInv'
<1> DEFINE ps == pendingServerCandidates
           a == Len(applied)
           k == Len(flushing)
<1>1. flushing \in Seq(VoxCandidates)
  BY DEF TypeInv, TypeOK
<1>2. /\ k \in Nat \ {0} /\ 1 \in 1..k /\ Head(flushing) = flushing[1]
      /\ Len(flushing') = k - 1
      /\ \A i \in 1..(k - 1) :
            flushing'[i] = flushing[i + 1] /\ i + 1 \in 1..k /\ 1 < i + 1
      /\ \A i, j \in 1..(k - 1) : i < j => i + 1 < j + 1
  BY <1>1, BufferSplits
<1>3. /\ a \in Nat /\ Len(applied') = a + 1 /\ applied'[a + 1][1] = flushing[1]
      /\ \A i \in 1..a : applied'[i] = applied[i]
      /\ \A i \in 1..Len(applied') : i \in 1..a \/ i = a + 1
  BY <1>2, AppliedGrows DEF TypeInv
<1> HIDE DEF ps, a, k
<1>4. \A i \in 1..Len(flushing') : flushing'[i] \in early
  BY <1>2 DEF EarlyInv, k
<1>5. ASSUME NEW c \in early
      PROVE  \/ \E i \in 1..Len(applied') : applied'[i][1] = c
             \/ \E i \in 1..Len(flushing') : flushing'[i] = c
             \/ \E i \in 1..Len(ps) : ps[i] = c
  <2>1. CASE \E i \in 1..a : applied[i][1] = c
    <3>1. \A i \in 1..a : i \in 1..(a + 1)
      BY <1>3
    <3> QED
      BY <1>3, <2>1, <3>1
  <2>2. ASSUME NEW i \in 1..k, flushing[i] = c
        PROVE  \/ \E j \in 1..Len(applied') : applied'[j][1] = c
               \/ \E j \in 1..Len(flushing') : flushing'[j] = c
    <3>1. CASE i = 1
      <4>1. a + 1 \in 1..(a + 1)
        BY <1>3
      <4> QED
        BY <1>3, <2>2, <3>1, <4>1
    <3>2. CASE i # 1
      <4>1. i - 1 \in 1..(k - 1) /\ (i - 1) + 1 = i
        BY <1>2, <3>2
      <4> QED
        BY <1>2, <2>2, <4>1
    <3> QED
      BY <3>1, <3>2
  <2> QED
    BY <2>1, <2>2 DEF EarlyInv, ps, a, k
<1>6. /\ \A i \in 1..a, j \in 1..k :
            applied[i][1] \in early => applied[i][1].n < flushing[j].n
      /\ \A i \in 1..a, j \in 1..Len(ps) :
            applied[i][1] \in early => applied[i][1].n < ps[j].n
      /\ \A i \in 1..k, j \in 1..Len(ps) : flushing[i].n < ps[j].n
      /\ \A i, j \in 1..k : i < j => flushing[i].n < flushing[j].n
      /\ \A i, j \in 1..a :
            i < j /\ applied[i][1] \in early /\ applied[j][1] \in early =>
               applied[i][1].n < applied[j][1].n
  BY DEF EarlyInv, ps, a, k
<1>7. ASSUME NEW i \in 1..Len(applied'), NEW j \in 1..Len(applied'), i < j,
             applied'[i][1] \in early, applied'[j][1] \in early
      PROVE  applied'[i][1].n < applied'[j][1].n
  <2>1. i \in 1..a
    BY <1>3, <1>7
  <2> QED
    BY <1>2, <1>3, <1>6, <1>7, <2>1
<1>8. \A i, j \in 1..Len(flushing') : i < j => flushing'[i].n < flushing'[j].n
  BY <1>2, <1>6
<1>9. \A i \in 1..Len(applied'), j \in 1..Len(flushing') :
         applied'[i][1] \in early => applied'[i][1].n < flushing'[j].n
  BY <1>2, <1>3, <1>6
<1>10. /\ \A i \in 1..Len(applied'), j \in 1..Len(ps) :
             applied'[i][1] \in early => applied'[i][1].n < ps[j].n
       /\ \A i \in 1..Len(flushing'), j \in 1..Len(ps) : flushing'[i].n < ps[j].n
  BY <1>2, <1>3, <1>6
<1> QED
  BY <1>4, <1>5, <1>7, <1>8, <1>9, <1>10 DEF EarlyInv, ps

(* Lemma: a candidate is held back behind all others.                      *)
LEMMA EarlyHeldBack ==
    ASSUME TypeInv, EarlyInv, NEW c \in VoxCandidates,
           \A d \in Taken : d.n < c.n,
           pendingServerCandidates' = Append(pendingServerCandidates, c),
           early' = early \cup {c}, UNCHANGED <<applied, flushing>>
    PROVE  EarlyInv'
<1> DEFINE ps == pendingServerCandidates
           k == Len(ps)
<1>1. /\ k \in Nat /\ Len(ps') = k + 1 /\ ps'[k + 1] = c
      /\ \A i \in 1..k : ps'[i] = ps[i]
  BY DEF TypeInv, TypeOK
<1>2. \A i \in 1..Len(ps') : i \in 1..k \/ i = k + 1
  BY <1>1
<1>3. k + 1 \in 1..Len(ps') /\ \A i \in 1..k : i \in 1..Len(ps')
  BY <1>1
<1>4. \A i \in 1..Len(applied) : applied[i][1] \in Taken
  BY DEF Taken
<1>5. \A d \in early : d \in Taken
  BY DEF Taken
<1>6. \A i \in 1..Len(applied) : applied[i][1].n < c.n /\ applied[i][1] # c
  BY <1>4, IncomingTypes DEF TypeInv
<1>7. \A d \in early : d.n < c.n
  BY <1>5
<1> HIDE DEF ps, k
<1>8. /\ \A i \in 1..Len(flushing) : flushing[i] \in early'
      /\ \A i \in 1..Len(ps') : ps'[i] \in early'
  BY <1>1, <1>2 DEF EarlyInv, ps, k
<1>9. ASSUME NEW d \in early'
      PROVE  \/ \E i \in 1..Len(applied) : applied[i][1] = d
             \/ \E i \in 1..Len(flushing) : flushing[i] = d
             \/ \E i \in 1..Len(ps') : ps'[i] = d
  <2>1. CASE d = c
    BY <1>1, <1>3, <2>1
  <2>2. CASE d \in early
    BY <1>1, <1>3, <2>2 DEF EarlyInv, ps, k
  <2> QED
    BY <2>1, <2>2
<1>10. \A i \in 1..Len(applied) : applied[i][1] \in early' => applied[i][1] \in early
  BY <1>6
<1>11. ASSUME NEW i \in 1..Len(ps'), NEW j \in 1..Len(ps'), i < j
       PROVE  ps'[i].n < ps'[j].n
  <2>1. i \in 1..k
    BY <1>1, <1>11
  <2>2. ps[i] \in early
    BY <2>1 DEF EarlyInv, ps, k
  <2>3. CASE j \in 1..k
    BY <1>1, <1>11, <2>1, <2>3 DEF EarlyInv, ps, k
  <2>4. CASE j = k + 1
    BY <1>1, <1>7, <2>1, <2>2, <2>4
  <2> QED
    BY <1>2, <2>3, <2>4
<1>12. \A i \in 1..Len(applied), j \in 1..Len(ps') :
          applied[i][1] \in early => applied[i][1].n < ps'[j].n
  BY <1>1, <1>2, <1>6 DEF EarlyInv, ps, k
<1>13. \A i \in 1..Len(flushing), j \in 1..Len(ps') : flushing[i].n < ps'[j].n
  BY <1>1, <1>2, <1>7 DEF EarlyInv, ps, k
<1> QED
  BY <1>8, <1>9, <1>10, <1>11, <1>12, <1>13 DEF EarlyInv, ps

(* Lemma: a candidate is applied at once, past the ones that are still in  *)
(* the flush: it is not one of the early ones.                             *)
LEMMA EarlyPassed ==
    ASSUME TypeInv, EarlyInv, NEW c \in VoxCandidates,
           \A d \in Taken : d.n < c.n, AddIceCandidate(c),
           UNCHANGED <<pendingServerCandidates, flushing, early>>
    PROVE  EarlyInv'
<1> DEFINE a == Len(applied)
<1>1. /\ a \in Nat /\ Len(applied') = a + 1 /\ applied'[a + 1][1] = c
      /\ \A i \in 1..a : applied'[i] = applied[i]
      /\ \A i \in 1..Len(applied') : i \in 1..a \/ i = a + 1
  BY AppliedGrows DEF TypeInv
<1>2. c \notin early
  BY IncomingTypes DEF TypeInv, Taken
<1>3. \A i \in 1..a : i \in 1..Len(applied')
  BY <1>1
<1>4. \A i \in 1..Len(applied') : applied'[i][1] \in early =>
         i \in 1..a /\ applied'[i] = applied[i]
  BY <1>1, <1>2
<1> HIDE DEF a
<1>5. \A d \in early :
         \/ \E i \in 1..Len(applied') : applied'[i][1] = d
         \/ \E i \in 1..Len(flushing) : flushing[i] = d
         \/ \E i \in 1..Len(pendingServerCandidates) : pendingServerCandidates[i] = d
  BY <1>1, <1>3 DEF EarlyInv, a
<1>6. \A i, j \in 1..Len(applied') :
         i < j /\ applied'[i][1] \in early /\ applied'[j][1] \in early =>
            applied'[i][1].n < applied'[j][1].n
  BY <1>4 DEF EarlyInv, a
<1>7. /\ \A i \in 1..Len(applied'), j \in 1..Len(flushing) :
            applied'[i][1] \in early => applied'[i][1].n < flushing[j].n
      /\ \A i \in 1..Len(applied'), j \in 1..Len(pendingServerCandidates) :
            applied'[i][1] \in early => applied'[i][1].n < pendingServerCandidates[j].n
  BY <1>4 DEF EarlyInv, a
<1> QED
  BY <1>5, <1>6, <1>7 DEF EarlyInv

(* Lemma: the early candidates stay in line in every step of a live call.  *)
LEMMA EarlyStep ==
    ASSUME TypeInv, IncomingInv, [Next]_vars, status' # "closed"
    PROVE  EarlyInv'
<1> USE DEF clientVars, peerVars, voxVars
<1>1. CASE \/ Negotiate \/ CreateOffer \/ ExchangeOffer \/ LocalCandidate
           \/ AnswerArrives \/ ConnectResolves
           \/ VoxReceives \/ VoxAnswers \/ VoxTrickles \/ UNCHANGED vars
  <2>1. /\ UNCHANGED <<pendingServerCandidates, flushing, applied, early>>
        /\ status # "closed"
    BY <1>1 DEF Negotiate, CreateOffer, ExchangeOffer, LocalCandidate, AnswerArrives,
                Receives, ConnectResolves, VoxReceives, VoxAnswers, VoxTrickles, vars
  <2> QED
    BY <2>1 DEF IncomingInv, EarlyInv
<1>2. CASE Close \/ OfferRefused \/ OfferTimesOut
  BY <1>2 DEF Close, OfferRefused, OfferTimesOut, CloseCall
<1>3. CASE SetRemoteDescription
  <2>1. /\ status # "closed" /\ flushing = <<>>
        /\ pendingServerCandidates' = <<>> /\ UNCHANGED early
    BY <1>3 DEF SetRemoteDescription, TypeInv, StageInv
  <2>2. CASE pendingServerCandidates = <<>> /\ UNCHANGED <<flushing, applied>>
    BY <2>1, <2>2 DEF IncomingInv, EarlyInv
  <2>3. CASE /\ pendingServerCandidates # <<>>
             /\ AddIceCandidate(Head(pendingServerCandidates))
             /\ flushing' = Tail(pendingServerCandidates)
    BY <2>1, <2>3, EarlyTaken DEF IncomingInv
  <2> QED
    BY <1>3, <2>2, <2>3 DEF SetRemoteDescription
<1>4. CASE FlushServerCandidates
  <2>1. status # "closed" /\ UNCHANGED <<pendingServerCandidates, early>>
    BY <1>4 DEF FlushServerCandidates
  <2>2. CASE UNCHANGED <<flushing, applied>>
    BY <2>1, <2>2 DEF IncomingInv, EarlyInv
  <2>3. CASE /\ flushing # <<>> /\ AddIceCandidate(Head(flushing))
             /\ flushing' = Tail(flushing)
    BY <2>1, <2>3, EarlyFlushed DEF IncomingInv
  <2> QED
    BY <1>4, <2>2, <2>3 DEF FlushServerCandidates
<1>5. CASE ServerCandidate
  <2> DEFINE m == Head(toBrowser)
  <2>1. /\ status # "closed" /\ toBrowser # <<>> /\ m.type = "rtc.ice_candidate"
        /\ UNCHANGED flushing
        /\ \/ UNCHANGED <<pendingServerCandidates, applied, early>>
           \/ /\ pendingServerCandidates' = Append(pendingServerCandidates, m.candidate)
              /\ early' = early \cup {m.candidate} /\ UNCHANGED applied
           \/ /\ AddIceCandidate(m.candidate)
              /\ UNCHANGED <<pendingServerCandidates, early>>
    BY <1>5 DEF ServerCandidate, Receives, BufferServerCandidate
  <2>2. 1 \in 1..Len(toBrowser) /\ m = toBrowser[1] /\ m \in ToBrowser
    BY <2>1 DEF TypeInv, TypeOK
  <2>3. m.candidate \in VoxCandidates /\ Carried(m) = m.candidate.n /\ Carried(m) # 0
    BY <2>1, <2>2, ToBrowserShape
  <2>4. \A d \in Taken : d.n < m.candidate.n
    BY <2>2, <2>3 DEF IncomingInv, AheadInv
  <2>5. EarlyInv
    BY <2>1 DEF IncomingInv
  <2> HIDE DEF m
  <2>6. CASE UNCHANGED <<pendingServerCandidates, applied, early>>
    BY <2>1, <2>5, <2>6 DEF EarlyInv
  <2>7. CASE /\ pendingServerCandidates' = Append(pendingServerCandidates, m.candidate)
             /\ early' = early \cup {m.candidate} /\ UNCHANGED applied
    BY <2>1, <2>3, <2>4, <2>5, <2>7, EarlyHeldBack
  <2>8. CASE /\ AddIceCandidate(m.candidate)
             /\ UNCHANGED <<pendingServerCandidates, early>>
    BY <2>1, <2>3, <2>4, <2>5, <2>8, EarlyPassed
  <2> QED
    BY <2>1, <2>6, <2>7, <2>8
<1> QED
  BY <1>1, <1>2, <1>3, <1>4, <1>5 DEF Next, PeerStep

(* Lemma: the early candidates are waiting or applied, once and in order.  *)
LEMMA EarlyLineIsInOrder ==
    ASSUME TypeOK, IncomingInv
    PROVE  IncomingCandidates
<1> SUFFICES ASSUME status # "closed" PROVE EarlyCandidatesInOrder
  BY DEF IncomingCandidates, IncomingInv, GenerationInv, EarlyCandidatesInOrder
<1> DEFINE a == Len(applied)
           n == Len(flushing)
           k == Len(pendingServerCandidates)
           A == [i \in 1..a |-> applied[i][1]]
           B == flushing
           C == pendingServerCandidates
           line == A \o B \o C
           places == {i \in 1..Len(line) : i <= a => line[i] \in early}
<1>1. EarlyInv
  BY DEF IncomingInv
<1>2. a \in Nat /\ n \in Nat /\ k \in Nat
  BY IncomingTypes
<1>3. A \in Seq(VoxCandidates) /\ Len(A) = a
  BY <1>2, IncomingTypes
<1>4. B \in Seq(VoxCandidates) /\ C \in Seq(VoxCandidates) /\ Len(B) = n /\ Len(C) = k
  BY DEF TypeOK
<1>5. \A i \in 1..a : A[i] = applied[i][1]
  OBVIOUS
<1> HIDE DEF A
<1>6. /\ \A i \in 1..n : B[i] \in early
      /\ \A i \in 1..k : C[i] \in early
      /\ \A c \in early : \/ \E i \in 1..a : A[i] = c
                          \/ \E i \in 1..n : B[i] = c
                          \/ \E i \in 1..k : C[i] = c
      /\ \A i, j \in 1..a : i < j /\ A[i] \in early /\ A[j] \in early => A[i].n < A[j].n
      /\ \A i, j \in 1..n : i < j => B[i].n < B[j].n
      /\ \A i, j \in 1..k : i < j => C[i].n < C[j].n
      /\ \A i \in 1..a, j \in 1..n : A[i] \in early => A[i].n < B[j].n
      /\ \A i \in 1..a, j \in 1..k : A[i] \in early => A[i].n < C[j].n
      /\ \A i \in 1..n, j \in 1..k : B[i].n < C[j].n
  <2>1. /\ \A i \in 1..n : B[i] \in early
        /\ \A i \in 1..k : C[i] \in early
        /\ \A i, j \in 1..n : i < j => B[i].n < B[j].n
        /\ \A i, j \in 1..k : i < j => C[i].n < C[j].n
        /\ \A i \in 1..n, j \in 1..k : B[i].n < C[j].n
    BY <1>1 DEF EarlyInv
  <2>2. \A c \in early : \/ \E i \in 1..a : A[i] = c
                         \/ \E i \in 1..n : B[i] = c
                         \/ \E i \in 1..k : C[i] = c
    <3> TAKE c \in early
    <3>1. \/ \E i \in 1..a : applied[i][1] = c
          \/ \E i \in 1..n : B[i] = c
          \/ \E i \in 1..k : C[i] = c
      BY <1>1 DEF EarlyInv
    <3>2. CASE \E i \in 1..a : applied[i][1] = c
      BY <1>5, <3>2, Zenon
    <3> QED
      BY <3>1, <3>2
  <2>3. \A i, j \in 1..a : i < j /\ A[i] \in early /\ A[j] \in early => A[i].n < A[j].n
    BY <1>1, <1>5 DEF EarlyInv
  <2>4. /\ \A i \in 1..a, j \in 1..n : A[i] \in early => A[i].n < B[j].n
        /\ \A i \in 1..a, j \in 1..k : A[i] \in early => A[i].n < C[j].n
    BY <1>1, <1>5 DEF EarlyInv
  <2> QED
    BY <2>1, <2>2, <2>3, <2>4
<1> HIDE DEF a, n, k, B, C
<1>7. /\ Len(line) = a + n + k
      /\ \A i \in 1..a : line[i] = A[i]
      /\ \A i \in 1..n : line[a + i] = B[i]
      /\ \A i \in 1..k : line[a + n + i] = C[i]
  <2> DEFINE AB == A \o B
  <2>1. /\ AB \in Seq(VoxCandidates) /\ Len(AB) = a + n
        /\ \A i \in 1..a : AB[i] = A[i]
        /\ \A i \in 1..n : AB[a + i] = B[i]
    <3>0. A \in Seq(VoxCandidates) /\ B \in Seq(VoxCandidates)
      BY <1>3, <1>4
    <3>1. A \o B \in Seq(VoxCandidates) /\ Len(A \o B) = Len(A) + Len(B)
      BY <3>0
    <3>2. \A i \in 1..Len(A) : (A \o B)[i] = A[i]
      BY <3>0
    <3>3. \A i \in 1..Len(B) : (A \o B)[Len(A) + i] = B[i]
      BY <3>0
    <3> QED
      BY <1>3, <1>4, <3>1, <3>2, <3>3
  <2> HIDE DEF AB
  <2>2. /\ Len(AB \o C) = a + n + k
        /\ \A i \in 1..(a + n) : (AB \o C)[i] = AB[i]
        /\ \A i \in 1..k : (AB \o C)[a + n + i] = C[i]
    <3>0. AB \in Seq(VoxCandidates) /\ C \in Seq(VoxCandidates)
      BY <1>4, <2>1
    <3>1. Len(AB \o C) = Len(AB) + Len(C)
      BY <3>0
    <3>2. \A i \in 1..Len(AB) : (AB \o C)[i] = AB[i]
      BY <3>0
    <3>3. \A i \in 1..Len(C) : (AB \o C)[Len(AB) + i] = C[i]
      BY <3>0
    <3> QED
      BY <1>4, <2>1, <3>1, <3>2, <3>3
  <2>3. /\ \A i \in 1..a : i \in 1..(a + n)
        /\ \A i \in 1..n : a + i \in 1..(a + n)
    BY <1>2
  <2> QED
    BY <2>1, <2>2, <2>3 DEF AB
<1> HIDE DEF line
<1>8. ASSUME NEW i \in 1..Len(line)
      PROVE  \/ i \in 1..a /\ line[i] = A[i]
             \/ i - a \in 1..n /\ line[i] = B[i - a] /\ ~(i <= a)
             \/ i - a - n \in 1..k /\ line[i] = C[i - a - n] /\ ~(i <= a)
  <2>1. \/ i \in 1..a
        \/ i - a \in 1..n /\ a + (i - a) = i /\ ~(i <= a)
        \/ i - a - n \in 1..k /\ a + n + (i - a - n) = i /\ ~(i <= a)
    <3>1. i \in 1..(a + n + k)
      BY <1>7
    <3> HIDE DEF places
    <3> QED
      BY <1>2, <3>1
  <2> QED
    BY <1>7, <2>1
<1>9. ASSUME NEW i \in places
      PROVE  i \in 1..Len(line) /\ i \in Nat /\ line[i] \in early
  <2>1. i \in 1..Len(line) /\ (i <= a => line[i] \in early)
    OBVIOUS
  <2> HIDE DEF places
  <2>2. i \in Nat
    BY <1>2, <1>7, <2>1
  <2>3. i \in 1..a => i <= a
    BY <1>2
  <2> QED
    BY <1>6, <1>8, <2>1, <2>2, <2>3
<1>10. ASSUME NEW c \in early
       PROVE  \E i \in places : line[i] = c
  <2>1. ASSUME NEW i \in 1..a, A[i] = c
        PROVE  i \in places /\ line[i] = c
    BY <1>2, <1>7, <2>1
  <2>2. ASSUME NEW i \in 1..n, B[i] = c
        PROVE  a + i \in places /\ line[a + i] = c
    BY <1>2, <1>7, <2>2
  <2>3. ASSUME NEW i \in 1..k, C[i] = c
        PROVE  a + n + i \in places /\ line[a + n + i] = c
    BY <1>2, <1>7, <2>3
  <2> QED
    BY <1>6, <2>1, <2>2, <2>3
<1>11. {line[i] : i \in places} = early
  BY <1>9, <1>10
<1>12. ASSUME NEW i \in places, NEW j \in places, i < j
       PROVE  line[i].n < line[j].n
  <2>1. i \in 1..Len(line) /\ j \in 1..Len(line) /\ i \in Nat /\ j \in Nat
        /\ line[i] \in early /\ line[j] \in early
    BY <1>9
  <2> HIDE DEF places
  <2>2. CASE i \in 1..a /\ line[i] = A[i]
    BY <1>6, <1>8, <1>12, <2>1, <2>2
  <2>3. CASE i - a \in 1..n /\ line[i] = B[i - a]
    <3>1. ~(j \in 1..a) /\ i - a < j - a
      BY <1>2, <1>12, <2>1, <2>3
    <3> QED
      BY <1>6, <1>8, <2>1, <2>3, <3>1
  <2>4. CASE i - a - n \in 1..k /\ line[i] = C[i - a - n]
    <3>1. ~(j \in 1..a) /\ ~(j - a \in 1..n) /\ i - a - n < j - a - n
      BY <1>2, <1>12, <2>1, <2>4
    <3>2. j - a - n \in 1..k /\ line[j] = C[j - a - n]
      BY <1>8, <2>1, <3>1
    <3> QED
      BY <1>6, <2>4, <3>1, <3>2
  <2> QED
    BY <1>8, <2>1, <2>2, <2>3, <2>4
<1> QED
  BY <1>11, <1>12 DEF EarlyCandidatesInOrder, line, A, B, C, a

(* Theorem: the peer is never given a candidate of a negotiation whose     *)
(* answer it does not have, and the candidates that came before their      *)
(* answer are waiting or applied, each once and in order, whatever arrives *)
(* while #flushServerCandidates runs.                                      *)
THEOREM CandidatesReachPeer == Spec => []IncomingCandidates
<1>1. Init => IncomingInv
  BY DEF Init, IncomingInv, GenerationInv, NeverAppliedEarly, WireInv, AheadInv,
         Taken, EarlyInv
<1>2. TypeInv /\ IncomingInv /\ [Next]_vars => IncomingInv'
  BY WireStep, GenerationStep, EarlyStep DEF IncomingInv
<1>3. TypeInv /\ IncomingInv => IncomingCandidates
  BY EarlyLineIsInOrder DEF TypeInv
<1> QED
  BY <1>1, <1>2, <1>3, NegotiationTypes, PTL DEF Spec
===============================================================================
