-------------------------- MODULE RustGatewayProofs --------------------------
(***************************************************************************)
(* Proofs about RustGateway for every finite set of connections and every  *)
(* set of closers and request ids.                                         *)
(***************************************************************************)
EXTENDS RustGateway, FiniteSetTheorems, SequenceTheorems, TLAPS

(* The phases in which ActiveGuard counts a task.                          *)
Counted == {"creating", "created", "subscribed", "hook", "serving", "cleanup",
            "closedHook", "dropping"}

Serving == {c \in Conns : phase[c] \in Counted}

(* GatewayState.active is the number of the tasks between fetch_add and    *)
(* fetch_sub.                                                              *)
CountInv == active = Cardinality(Serving)

(* A close() that has read the count, or is about to, has its Notified     *)
(* enabled.                                                                *)
WakeInv ==
    /\ NoLostWakeup
    /\ \A k \in Closers : closer[k] \in {"load", "wait"} => k \in registered

(* The session of a task, by where the task is.                            *)
SessionOf(c) ==
    /\ phase[c] \in {"idle", "refused", "upgrading", "creating"} =>
          session[c] = "none"
    /\ phase[c] \in {"created", "subscribed", "hook", "serving", "cleanup"} =>
          session[c] = "joined"
    /\ phase[c] = "closedHook" => session[c] = "left"
    /\ phase[c] \in {"dropping", "notifying", "done"} => session[c] # "joined"
    /\ closeRuns[c] = (IF session[c] = "left" THEN 1 ELSE 0)

(* From the subscription to the end of the loop a task holds its receiver, *)
(* and from the look at the value on the receiver knows of the signal.     *)
SignalOf(c) ==
    /\ phase[c] \in {"subscribed", "hook", "serving"} => c \in receivers
    /\ signal /\ phase[c] \in {"hook", "serving"} => c \in unseen

(* The phases up to the one in which a browser's offer can be answered.    *)
Open == {"idle", "refused", "upgrading", "creating", "created", "subscribed",
         "hook", "serving"}

(* Before its loop a task has no offer pending.                            *)
FreshOf(c) == phase[c] \in Open \ {"serving"} => pending_offer_id[c] = NoOffer

(* What can be between Vox and the browser: an offer at Vox, or its reply  *)
(* and the end of the session in the queue.  An offer that is made after   *)
(* Vox closed the session is never answered.                               *)
SlotOf(c) ==
    \/ /\ events[c] = <<>>
       /\ \/ voxClosed[c]
          \/ pending_offer_id[c] = NoOffer /\ atVox[c] = <<>>
          \/ pending_offer_id[c] # NoOffer /\ atVox[c] = <<pending_offer_id[c]>>
    \/ events[c] = <<ClosedEvent>> /\ voxClosed[c]
    \/ /\ events[c] = <<ReplyEvent(pending_offer_id[c])>>
       /\ pending_offer_id[c] # NoOffer
       /\ ~voxClosed[c] /\ atVox[c] = <<>>
    \/ /\ events[c] = <<ReplyEvent(pending_offer_id[c]), ClosedEvent>>
       /\ pending_offer_id[c] # NoOffer
       /\ voxClosed[c]

(* The request ids the gateway knows were sent, and an offer that was      *)
(* refused is neither pending nor answered.                                *)
ReplyOf(c) ==
    /\ pending_offer_id[c] \in (sent[c] \ errors[c]) \cup {NoOffer}
    /\ errors[c] \subseteq sent[c]
    /\ \A r \in replies[c] : r[1] = r[2] /\ r[1] \in sent[c] \ errors[c]

(* What the task remembers of the commands is what Vox was told.           *)
CommandOf(c) ==
    /\ generated_offer[c] = voxGenerated[c]
    /\ <<TRUE, "absent">> \notin candidatesAtVox[c]
    /\ browserAskedClose[c] => rtc_close_requested[c]
    /\ rtcCloses[c] <= 1
    /\ phase[c] \in Open /\ rtcCloses[c] = 1 => browserAskedClose[c]
    /\ phase[c] = "cleanup" /\ rtcCloses[c] = 1 => rtc_close_requested[c]

(* The steps of the task of a connection, and what happens to it.          *)
TaskStep(c) == Setup(c) \/ Select(c) \/ Teardown(c) \/ Outside(c)

-----------------------------------------------------------------------------
(* The type invariant.  Only the count needs more than the types.          *)

(* Lemma: the steps of a task up to its loop keep the types.               *)
LEMMA SetupTypes ==
    ASSUME TypeOK, NEW c \in Conns, Setup(c)
    PROVE  TypeOK'
<1> USE DEF TypeOK, Phases, Moves, taskVars, eventVars, watchVars, drainVars, offerVars
<1>1. CASE Upgrade(c)
  BY <1>1 DEF Upgrade
<1>2. CASE ServeStarts(c)
  BY <1>2 DEF ServeStarts
<1>3. CASE CreateFails(c)
  BY <1>3 DEF CreateFails
<1>4. CASE CreateSucceeds(c)
  BY <1>4 DEF CreateSucceeds
<1>5. CASE Subscribes(c)
  BY <1>5 DEF Subscribes
<1>6. CASE BorrowsShutdown(c)
  BY <1>6 DEF BorrowsShutdown
<1>7. CASE SetupFails(c)
  BY <1>7 DEF SetupFails
<1>8. CASE SetupSucceeds(c)
  BY <1>8 DEF SetupSucceeds
<1> QED
  BY <1>1, <1>2, <1>3, <1>4, <1>5, <1>6, <1>7, <1>8 DEF Setup

(* Lemma: an offer of the browser keeps the types.                         *)
LEMMA OfferTypes ==
    ASSUME TypeOK, NEW c \in Conns, NEW id \in OfferIds, NEW g \in Generations,
           HandleOffer(c, id, g)
    PROVE  TypeOK'
<1> USE DEF watchVars, drainVars, eventVars
<1>1. sent' \in [Conns -> SUBSET OfferIds]
  BY DEF TypeOK, HandleOffer
<1>2. CASE ForwardOffer(c, id, g)
  <2>1. atVox[c] \in Seq(OfferIds)
    BY DEF TypeOK
  <2>2. Append(atVox[c], id) \in Seq(OfferIds)
    BY <2>1
  <2>3. atVox' \in [Conns -> Seq(OfferIds)]
    BY <1>2, <2>2 DEF ForwardOffer, TypeOK
  <2> QED
    BY <1>1, <1>2, <2>3 DEF TypeOK, HandleOffer, ForwardOffer
<1>3. CASE RejectOffer(c, id)
  <2>1. /\ phase' = phase \/ phase' = [phase EXCEPT ![c] = "cleanup"]
        /\ errors' = errors \/ errors' = [errors EXCEPT ![c] = errors[c] \cup {id}]
    BY <1>3 DEF RejectOffer, Moves
  <2>2. phase' \in [Conns -> Phases]
    BY <2>1 DEF TypeOK, Phases
  <2>3. errors' \in [Conns -> SUBSET OfferIds]
    <3>1. /\ errors \in [Conns -> SUBSET OfferIds]
          /\ errors[c] \cup {id} \in SUBSET OfferIds
      BY DEF TypeOK
    <3> QED
      BY <2>1, <3>1
  <2> QED
    BY <1>1, <1>3, <2>2, <2>3 DEF TypeOK, HandleOffer, RejectOffer
<1> QED
  BY <1>2, <1>3 DEF HandleOffer

(* Lemma: a branch of the select! loop keeps the types.                    *)
LEMMA SelectTypes ==
    ASSUME TypeOK, NEW c \in Conns, Select(c)
    PROVE  TypeOK'
<1> USE DEF Phases, Moves, taskVars, eventVars, watchVars, drainVars, offerVars
<1>1. CASE SeesShutdown(c) \/ SeesBrowserGone(c)
  BY <1>1 DEF SeesShutdown, SeesBrowserGone, TypeOK
<1>2. CASE ForwardReply(c)
  <2>1. events[c] \in Seq(SessionEvents)
    BY DEF TypeOK
  <2>2. Tail(events[c]) \in Seq(SessionEvents) /\ Head(events[c]) \in SessionEvents
    BY <1>2, <2>1 DEF ForwardReply
  <2>3. Head(events[c])[2] \in OfferIds
    BY <1>2, <2>2 DEF ForwardReply, SessionEvents, ReplyEvent
  <2>4. phase' = phase \/ phase' = [phase EXCEPT ![c] = "cleanup"]
    BY <1>2 DEF ForwardReply, Moves
  <2>5. phase' \in [Conns -> Phases]
    BY <2>4 DEF TypeOK, Phases
  <2>6. <<Head(events[c])[2], pending_offer_id[c]>>
          \in OfferIds \X (OfferIds \cup {NoOffer})
    BY <2>3 DEF TypeOK
  <2>7. replies' \in [Conns -> SUBSET (OfferIds \X (OfferIds \cup {NoOffer}))]
    <3>1. \/ replies' = replies
          \/ replies' = [replies EXCEPT ![c] =
                replies[c] \cup {<<Head(events[c])[2], pending_offer_id[c]>>}]
      BY <1>2 DEF ForwardReply
    <3>2. /\ replies \in [Conns -> SUBSET (OfferIds \X (OfferIds \cup {NoOffer}))]
          /\ replies[c] \cup {<<Head(events[c])[2], pending_offer_id[c]>>}
               \in SUBSET (OfferIds \X (OfferIds \cup {NoOffer}))
      BY <2>6 DEF TypeOK
    <3> QED
      BY <3>1, <3>2
  <2> QED
    BY <1>2, <2>2, <2>5, <2>7 DEF ForwardReply, TypeOK
<1>3. CASE ForwardClosed(c)
  <2>1. events[c] \in Seq(SessionEvents)
    BY DEF TypeOK
  <2>2. Tail(events[c]) \in Seq(SessionEvents)
    BY <1>3, <2>1 DEF ForwardClosed
  <2> QED
    BY <1>3, <2>2 DEF ForwardClosed, TypeOK
<1>4. CASE \E id \in OfferIds, g \in Generations : HandleOffer(c, id, g)
  BY <1>4, OfferTypes
<1>5. CASE \E g \in Generations : HandleCandidate(c, g)
  BY <1>5 DEF HandleCandidate, TypeOK
<1>6. CASE HandleRtcClose(c)
  BY <1>6 DEF HandleRtcClose, TypeOK
<1> QED
  BY <1>1, <1>2, <1>3, <1>4, <1>5, <1>6 DEF Select

(* Lemma: the end of a task keeps the types: what is counted is not zero.  *)
LEMMA TeardownTypes ==
    ASSUME TypeOK, NEW c \in Conns, Teardown(c),
           phase[c] = "dropping" => active \in Nat \ {0}
    PROVE  TypeOK'
<1> USE DEF Phases, Moves, taskVars, eventVars, watchVars, drainVars, offerVars
<1>1. CASE CleanupLeaves(c)
  BY <1>1 DEF CleanupLeaves, TypeOK
<1>2. CASE CleanupEnds(c)
  BY <1>2 DEF CleanupEnds, TypeOK
<1>3. CASE GuardDrops(c)
  BY <1>3 DEF GuardDrops, TypeOK
<1>4. CASE GuardNotifies(c)
  BY <1>4 DEF GuardNotifies, TypeOK
<1> QED
  BY <1>1, <1>2, <1>3, <1>4 DEF Teardown

(* Lemma: browser and Vox keep the types.                                  *)
LEMMA OutsideTypes ==
    ASSUME TypeOK, NEW c \in Conns, Outside(c)
    PROVE  TypeOK'
<1> USE DEF taskVars, eventVars, watchVars, drainVars, offerVars
<1>1. events[c] \in Seq(SessionEvents) /\ atVox[c] \in Seq(OfferIds)
  BY DEF TypeOK
<1>2. CASE BrowserLeaves(c)
  BY <1>2 DEF BrowserLeaves, TypeOK
<1>3. CASE VoxReplies(c)
  <2>1. Head(atVox[c]) \in OfferIds /\ Tail(atVox[c]) \in Seq(OfferIds)
    BY <1>1, <1>3 DEF VoxReplies
  <2>2. ReplyEvent(Head(atVox[c])) \in SessionEvents
    BY <2>1 DEF SessionEvents
  <2>3. Append(events[c], ReplyEvent(Head(atVox[c]))) \in Seq(SessionEvents)
    BY <1>1, <2>2
  <2> QED
    BY <1>3, <2>1, <2>3 DEF VoxReplies, TypeOK
<1>4. CASE VoxCloses(c)
  <2>1. ClosedEvent \in SessionEvents
    BY DEF SessionEvents
  <2>2. Append(events[c], ClosedEvent) \in Seq(SessionEvents)
    BY <1>1, <2>1
  <2> QED
    BY <1>1, <1>4, <2>2 DEF VoxCloses, TypeOK
<1> QED
  BY <1>2, <1>3, <1>4 DEF Outside

(* Lemma: a step of close() keeps the types.                               *)
LEMMA CloserTypes ==
    ASSUME TypeOK, NEW k \in Closers, CloserSwaps(k) \/ CloserStep(k)
    PROVE  TypeOK'
<1> USE DEF TypeOK, taskVars, eventVars, watchVars, drainVars, offerVars
<1>1. CASE CloserSwaps(k)
  BY <1>1 DEF CloserSwaps
<1>2. CASE CloserSends(k)
  BY <1>2 DEF CloserSends
<1>3. CASE CloserRegisters(k)
  BY <1>3 DEF CloserRegisters
<1>4. CASE CloserLoads(k)
  BY <1>4 DEF CloserLoads
<1>5. CASE CloserWakes(k)
  BY <1>5 DEF CloserWakes
<1> QED
  BY <1>1, <1>2, <1>3, <1>4, <1>5 DEF CloserStep

-----------------------------------------------------------------------------
(* Lemma: only fetch_add and fetch_sub change who is counted, or the       *)
(* count.                                                                  *)
LEMMA OnlyTheGuardCounts ==
    ASSUME TypeOK, [Next]_vars
    PROVE  \/ \E c \in Conns : ServeStarts(c) \/ GuardDrops(c)
           \/ active' = active /\ Serving' = Serving
<1> USE DEF Moves, taskVars, eventVars, watchVars, drainVars, offerVars, Serving
<1>1. CASE UNCHANGED vars
  BY <1>1 DEF vars
<1>2. ASSUME NEW c \in Conns, Setup(c), ~ServeStarts(c)
      PROVE  active' = active /\ Serving' = Serving
  BY <1>2 DEF Setup, Upgrade, CreateFails, CreateSucceeds, Subscribes,
              BorrowsShutdown, SetupFails, SetupSucceeds, TypeOK, Counted
<1>3. ASSUME NEW c \in Conns, Select(c)
      PROVE  active' = active /\ Serving' = Serving
  <2>1. CASE SeesShutdown(c) \/ SeesBrowserGone(c) \/ ForwardClosed(c)
    BY <2>1 DEF SeesShutdown, SeesBrowserGone, ForwardClosed, TypeOK, Counted
  <2>2. CASE ForwardReply(c)
    <3>1. /\ phase[c] = "serving" /\ active' = active
          /\ phase' = phase \/ phase' = [phase EXCEPT ![c] = "cleanup"]
      BY <2>2 DEF ForwardReply
    <3> QED
      BY <3>1 DEF TypeOK, Counted
  <2>3. ASSUME NEW id \in OfferIds, NEW g \in Generations, HandleOffer(c, id, g)
        PROVE  active' = active /\ Serving' = Serving
    <3>1. /\ phase[c] = "serving" /\ active' = active
          /\ phase' = phase \/ phase' = [phase EXCEPT ![c] = "cleanup"]
      BY <2>3 DEF HandleOffer, ForwardOffer, RejectOffer, Receives
    <3> QED
      BY <3>1 DEF TypeOK, Counted
  <2>4. CASE HandleRtcClose(c) \/ \E g \in Generations : HandleCandidate(c, g)
    BY <2>4 DEF HandleRtcClose, HandleCandidate
  <2> QED
    BY <1>3, <2>1, <2>2, <2>3, <2>4 DEF Select
<1>4. ASSUME NEW c \in Conns, Teardown(c), ~GuardDrops(c)
      PROVE  active' = active /\ Serving' = Serving
  BY <1>4 DEF Teardown, CleanupLeaves, CleanupEnds, GuardNotifies, TypeOK,
              Counted
<1>5. ASSUME NEW c \in Conns, Outside(c)
      PROVE  active' = active /\ Serving' = Serving
  BY <1>5 DEF Outside, BrowserLeaves, VoxReplies, VoxCloses
<1>6. ASSUME NEW k \in Closers, CloserSwaps(k) \/ CloserStep(k)
      PROVE  active' = active /\ Serving' = Serving
  BY <1>6 DEF CloserSwaps, CloserStep, CloserSends, CloserRegisters,
              CloserLoads, CloserWakes
<1> QED
  BY <1>1, <1>2, <1>3, <1>4, <1>5, <1>6 DEF Next

(* Lemma: the tasks that are counted are finitely many.                    *)
LEMMA ServingIsFinite == IsFiniteSet(Serving) /\ Cardinality(Serving) \in Nat
<1>1. Serving \in SUBSET Conns /\ IsFiniteSet(Conns)
  BY RustConstantsAssumption DEF Serving
<1> QED
  BY <1>1, FS_Subset, FS_CardinalityType

(* Every variable keeps its type, and the count is exact: it never goes    *)
(* below zero, although tasks come and go concurrently.                    *)
THEOREM CountIsExact == Spec => [](TypeOK /\ CountInv)
<1>1. Init => TypeOK /\ CountInv
  <2> SUFFICES ASSUME Init PROVE TypeOK /\ CountInv
    OBVIOUS
  <2>1. TypeOK
    <3>1. /\ events \in [Conns -> Seq(SessionEvents)]
          /\ atVox \in [Conns -> Seq(OfferIds)]
      BY DEF Init
    <3> QED
      BY <3>1 DEF Init, TypeOK, Phases
  <2>2. Serving = {}
    BY DEF Init, Serving, Counted
  <2> QED
    BY <2>1, <2>2, FS_EmptySet DEF Init, CountInv
<1>2. ASSUME TypeOK, CountInv, [Next]_vars
      PROVE  TypeOK' /\ CountInv'
  <2>1. ASSUME NEW c \in Conns, phase[c] = "dropping"
        PROVE  active \in Nat \ {0}
    <3>1. c \in Serving
      BY <2>1 DEF Serving, Counted
    <3>2. Cardinality(Serving) # 0
      BY <3>1, ServingIsFinite, FS_EmptySet
    <3> QED
      BY <1>2, <3>2, ServingIsFinite DEF CountInv
  <2>2. TypeOK'
    <3>1. CASE UNCHANGED vars
      BY <1>2, <3>1 DEF vars, taskVars, watchVars, drainVars, eventVars,
                        offerVars, TypeOK
    <3>2. CASE Next
      BY <1>2, <2>1, <3>2, SetupTypes, SelectTypes, TeardownTypes,
         OutsideTypes, CloserTypes DEF Next
    <3> QED
      BY <1>2, <3>1, <3>2
  <2>3. CountInv'
    <3>1. ASSUME NEW c \in Conns, ServeStarts(c)
          PROVE  CountInv'
      <4>1. Serving' = Serving \cup {c} /\ c \notin Serving
        BY <1>2, <3>1 DEF ServeStarts, Moves, Serving, Counted, TypeOK
      <4>2. Cardinality(Serving') = Cardinality(Serving) + 1
        BY <4>1, ServingIsFinite, FS_AddElement
      <4> QED
        BY <1>2, <3>1, <4>2 DEF ServeStarts, CountInv
    <3>2. ASSUME NEW c \in Conns, GuardDrops(c)
          PROVE  CountInv'
      <4>1. Serving' = Serving \ {c} /\ c \in Serving
        BY <1>2, <3>2 DEF GuardDrops, Moves, Serving, Counted, TypeOK
      <4>2. Cardinality(Serving') = Cardinality(Serving) - 1
        BY <4>1, ServingIsFinite, FS_RemoveElement
      <4> QED
        BY <1>2, <3>2, <4>2 DEF GuardDrops, CountInv
    <3> QED
      BY <1>2, <3>1, <3>2, OnlyTheGuardCounts DEF CountInv
  <2> QED
    BY <2>2, <2>3
<1> QED
  BY <1>1, <1>2, PTL DEF Spec

-----------------------------------------------------------------------------
(* Nothing of connection d changes, but for a signal that reaches it.      *)
SameTask(d) ==
    /\ phase'[d] = phase[d] /\ browser'[d] = browser[d]
    /\ session'[d] = session[d] /\ closeRuns'[d] = closeRuns[d]
    /\ rtcCloses'[d] = rtcCloses[d]
    /\ rtc_close_requested'[d] = rtc_close_requested[d]
    /\ pending_offer_id'[d] = pending_offer_id[d]
    /\ generated_offer'[d] = generated_offer[d]
    /\ browserAskedClose'[d] = browserAskedClose[d]
    /\ events'[d] = events[d] /\ voxClosed'[d] = voxClosed[d]
    /\ sent'[d] = sent[d] /\ atVox'[d] = atVox[d]
    /\ voxGenerated'[d] = voxGenerated[d]
    /\ candidatesAtVox'[d] = candidatesAtVox[d]
    /\ replies'[d] = replies[d] /\ errors'[d] = errors[d]
    /\ d \in receivers' <=> d \in receivers

(* Lemma: a task's step leaves the other tasks and the signal alone, and   *)
(* of a close() it can only wake it.                                       *)
LEMMA TaskFrame ==
    ASSUME TypeOK, NEW c \in Conns, TaskStep(c)
    PROVE  /\ UNCHANGED <<shutting_down, signal, closer, registered>>
           /\ \A d \in Conns \ {c} : SameTask(d) /\ (d \in unseen' <=> d \in unseen)
           /\ woken' = woken \/ GuardNotifies(c)
           /\ active' = active \/ ServeStarts(c) \/ GuardDrops(c)
           /\ phase[c] = "notifying" => phase' = phase \/ GuardNotifies(c)
<1> USE DEF TypeOK, Moves, SameTask, taskVars, eventVars, watchVars, drainVars,
            offerVars
<1>1. CASE Upgrade(c) \/ ServeStarts(c) \/ CreateFails(c) \/ CreateSucceeds(c)
  BY <1>1 DEF Upgrade, ServeStarts, CreateFails, CreateSucceeds
<1>2. CASE Subscribes(c) \/ BorrowsShutdown(c) \/ SetupFails(c)
           \/ SetupSucceeds(c)
  BY <1>2 DEF Subscribes, BorrowsShutdown, SetupFails, SetupSucceeds
<1>3. CASE SeesShutdown(c) \/ SeesBrowserGone(c)
  BY <1>3 DEF SeesShutdown, SeesBrowserGone
<1>4. CASE ForwardReply(c)
  BY <1>4 DEF ForwardReply
<1>5. CASE ForwardClosed(c)
  BY <1>5 DEF ForwardClosed
<1>6. ASSUME NEW id \in OfferIds, NEW g \in Generations, HandleOffer(c, id, g)
      PROVE  /\ UNCHANGED <<shutting_down, signal, closer, registered, woken,
                             active>>
             /\ phase[c] # "notifying"
             /\ \A d \in Conns \ {c} :
                   SameTask(d) /\ (d \in unseen' <=> d \in unseen)
  <2>1. CASE ForwardOffer(c, id, g)
    BY <1>6, <2>1 DEF HandleOffer, ForwardOffer, Receives
  <2>2. CASE RejectOffer(c, id)
    BY <1>6, <2>2 DEF HandleOffer, RejectOffer, Receives
  <2> QED
    BY <1>6, <2>1, <2>2 DEF HandleOffer
<1>7. CASE HandleRtcClose(c) \/ \E g \in Generations : HandleCandidate(c, g)
  BY <1>7 DEF HandleRtcClose, HandleCandidate, Receives
<1>8. CASE Teardown(c)
  BY <1>8 DEF Teardown, CleanupLeaves, CleanupEnds, GuardDrops, GuardNotifies
<1>9. CASE Outside(c)
  BY <1>9 DEF Outside, BrowserLeaves, VoxReplies, VoxCloses
<1> QED
  BY <1>1, <1>2, <1>3, <1>4, <1>5, <1>6, <1>7, <1>8, <1>9
  DEF TaskStep, Setup, Select

(* Lemma: a step of close() changes nothing of a task but the signal.      *)
LEMMA CloserFrame ==
    ASSUME NEW k \in Closers, CloserSwaps(k) \/ CloserStep(k)
    PROVE  UNCHANGED <<taskVars, browser, receivers, active, eventVars,
                       offerVars>>
BY DEF CloserSwaps, CloserStep, CloserSends, CloserRegisters, CloserLoads,
       CloserWakes, watchVars, drainVars

-----------------------------------------------------------------------------
(* However the tasks and the calls of close() interleave, a close() that   *)
(* waits for a count of zero is woken.                                     *)
THEOREM WakeupIsNotLost == Spec => []NoLostWakeup
<1>1. Init => WakeInv
  BY DEF Init, WakeInv, NoLostWakeup
<1>2. ASSUME TypeOK, CountInv, WakeInv, [Next]_vars, TypeOK'
      PROVE  WakeInv'
  <2>1. CASE UNCHANGED vars
    BY <1>2, <2>1 DEF vars, taskVars, drainVars, WakeInv, NoLostWakeup
  <2>2. ASSUME NEW c \in Conns, TaskStep(c)
        PROVE  WakeInv'
    <3>1. /\ UNCHANGED <<closer, registered>>
          /\ woken' = woken \/ GuardNotifies(c)
          /\ active' = active \/ ServeStarts(c) \/ GuardDrops(c)
          /\ phase[c] = "notifying" => phase' = phase \/ GuardNotifies(c)
          /\ \A d \in Conns \ {c} : phase'[d] = phase[d]
      BY <1>2, <2>2, TaskFrame DEF SameTask
    <3>2. CASE GuardNotifies(c)
      BY <1>2, <3>1, <3>2 DEF GuardNotifies, WakeInv, NoLostWakeup
    <3>3. CASE GuardDrops(c)
      <4>1. active' = 0 => phase'[c] = "notifying"
        BY <1>2, <3>3 DEF GuardDrops, Moves, TypeOK
      <4> QED
        BY <1>2, <3>1, <3>3, <4>1 DEF GuardDrops, WakeInv, NoLostWakeup,
                                       drainVars
    <3>4. CASE ServeStarts(c)
      BY <1>2, <3>1, <3>4 DEF ServeStarts, WakeInv, NoLostWakeup, TypeOK
    <3>5. CASE ~GuardNotifies(c) /\ ~GuardDrops(c) /\ ~ServeStarts(c)
      BY <1>2, <3>1, <3>5 DEF WakeInv, NoLostWakeup
    <3> QED
      BY <3>2, <3>3, <3>4, <3>5
  <2>3. ASSUME NEW k \in Closers, CloserSwaps(k) \/ CloserStep(k)
        PROVE  WakeInv'
    <3>1. phase' = phase /\ active' = active
      BY <2>3, CloserFrame DEF taskVars
    <3>2. CASE CloserSwaps(k) \/ CloserSends(k) \/ CloserWakes(k)
      <4>1. /\ registered' = registered /\ woken' = woken
            /\ \E p \in {"send", "register"} : closer' = [closer EXCEPT ![k] = p]
        BY <3>2 DEF CloserSwaps, CloserSends, CloserWakes
      <4> QED
        BY <1>2, <3>1, <4>1 DEF WakeInv, NoLostWakeup, TypeOK
    <3>3. CASE CloserRegisters(k)
      BY <1>2, <3>1, <3>3 DEF CloserRegisters, WakeInv, NoLostWakeup, TypeOK
    <3>4. CASE CloserLoads(k)
      BY <1>2, <3>1, <3>4 DEF CloserLoads, WakeInv, NoLostWakeup, TypeOK
    <3> QED
      BY <2>3, <3>2, <3>3, <3>4 DEF CloserStep
  <2> QED
    BY <1>2, <2>1, <2>2, <2>3 DEF Next, TaskStep
<1>3. WakeInv => NoLostWakeup
  BY DEF WakeInv
<1> QED
  BY <1>1, <1>2, <1>3, CountIsExact, PTL DEF Spec

-----------------------------------------------------------------------------
SessionInv == \A c \in Conns : SessionOf(c)
SignalInv == \A c \in Conns : SignalOf(c)

(* Lemma: a task's own steps keep session and signal in line with where it *)
(* is.                                                                     *)
LEMMA TaskKeepsSession ==
    ASSUME TypeOK, NEW c \in Conns, TaskStep(c), SessionOf(c), SignalOf(c)
    PROVE  SessionOf(c)' /\ SignalOf(c)'
<1> USE DEF TypeOK, Moves, SessionOf, SignalOf, taskVars, eventVars, watchVars,
            drainVars, offerVars
<1>1. CASE Upgrade(c) \/ ServeStarts(c)
  BY <1>1 DEF Upgrade, ServeStarts
<1>2. CASE CreateFails(c) \/ CreateSucceeds(c)
  BY <1>2 DEF CreateFails, CreateSucceeds
<1>3. CASE Subscribes(c) \/ BorrowsShutdown(c)
  BY <1>3 DEF Subscribes, BorrowsShutdown
<1>4. CASE SetupFails(c) \/ SetupSucceeds(c)
  BY <1>4 DEF SetupFails, SetupSucceeds
<1>5. CASE SeesShutdown(c) \/ SeesBrowserGone(c) \/ ForwardClosed(c)
  BY <1>5 DEF SeesShutdown, SeesBrowserGone, ForwardClosed
<1>6. CASE ForwardReply(c)
           \/ \E id \in OfferIds, g \in Generations : HandleOffer(c, id, g)
  <2>1. /\ UNCHANGED <<session, closeRuns, signal, receivers, unseen>>
        /\ phase[c] = "serving"
        /\ phase' = phase \/ phase' = [phase EXCEPT ![c] = "cleanup"]
    BY <1>6 DEF ForwardReply, HandleOffer, Receives, ForwardOffer, RejectOffer
  <2> QED
    BY <2>1
<1>7. CASE HandleRtcClose(c) \/ \E g \in Generations : HandleCandidate(c, g)
  BY <1>7 DEF HandleRtcClose, HandleCandidate
<1>8. CASE CleanupLeaves(c)
  BY <1>8 DEF CleanupLeaves
<1>9. CASE CleanupEnds(c) \/ GuardDrops(c) \/ GuardNotifies(c)
  BY <1>9 DEF CleanupEnds, GuardDrops, GuardNotifies
<1>10. CASE Outside(c)
  BY <1>10 DEF Outside, BrowserLeaves, VoxReplies, VoxCloses
<1> QED
  BY <1>1, <1>2, <1>3, <1>4, <1>5, <1>6, <1>7, <1>8, <1>9, <1>10
  DEF TaskStep, Setup, Select, Teardown

(* Where a task is tells what became of its session, and that it knows of  *)
(* the signal.                                                             *)
THEOREM TasksAreInLine == Spec => [](SessionInv /\ SignalInv)
<1>1. Init => SessionInv /\ SignalInv
  BY DEF Init, SessionInv, SignalInv, SessionOf, SignalOf
<1>2. ASSUME TypeOK, SessionInv, SignalInv, [Next]_vars
      PROVE  SessionInv' /\ SignalInv'
  <2>1. CASE UNCHANGED vars
    BY <1>2, <2>1 DEF vars, taskVars, watchVars, SessionInv, SignalInv,
                      SessionOf, SignalOf
  <2>2. ASSUME NEW c \in Conns, TaskStep(c), NEW d \in Conns
        PROVE  SessionOf(d)' /\ SignalOf(d)'
    <3>1. CASE d = c
      BY <1>2, <2>2, <3>1, TaskKeepsSession DEF SessionInv, SignalInv
    <3>2. CASE d # c
      <4>1. /\ SameTask(d) /\ (d \in unseen' <=> d \in unseen)
            /\ signal' = signal
        BY <1>2, <2>2, <3>2, TaskFrame
      <4>2. SessionOf(d) /\ SignalOf(d)
        BY <1>2 DEF SessionInv, SignalInv
      <4> QED
        BY <4>1, <4>2 DEF SameTask, SessionOf, SignalOf
    <3> QED
      BY <3>1, <3>2
  <2>3. ASSUME NEW k \in Closers, CloserSwaps(k) \/ CloserStep(k)
        PROVE  SessionInv' /\ SignalInv'
    <3>1. UNCHANGED <<phase, session, closeRuns, receivers>>
      BY <2>3, CloserFrame DEF taskVars
    <3>2. UNCHANGED <<signal, unseen>> \/ unseen' = receivers
      BY <2>3 DEF CloserSwaps, CloserStep, CloserSends, CloserRegisters,
                  CloserLoads, CloserWakes, watchVars
    <3> QED
      BY <1>2, <3>1, <3>2 DEF SessionInv, SignalInv, SessionOf, SignalOf
  <2> QED
    BY <1>2, <2>1, <2>2, <2>3 DEF Next, TaskStep, SessionInv, SignalInv
<1> QED
  BY <1>1, <1>2, CountIsExact, PTL DEF Spec

(* However its task ends, a session is cleaned up exactly once.            *)
THEOREM CleanupHappensOnce == Spec => []CleanedUpOnce
<1>1. SessionInv => CleanedUpOnce
  BY DEF SessionInv, SessionOf, CleanedUpOnce
<1> QED
  BY <1>1, TasksAreInLine, PTL

(* A task in its hook or its loop has seen the signal, or is going to.     *)
THEOREM SignalReachesTasks == Spec => []SignalNotMissed
<1>1. SignalInv => SignalNotMissed
  BY DEF SignalInv, SignalOf, SignalNotMissed
<1> QED
  BY <1>1, TasksAreInLine, PTL

(* When close() goes on to disconnect the client, no task that had begun   *)
(* is left, and no session.                                                *)
LEMMA DisconnectAfterDrain == Spec => DrainedAtDisconnect
<1> DEFINE Drained ==
      \A k \in Closers : \A c \in Conns :
          closer[k] # "disconnected" /\ closer'[k] = "disconnected" =>
             phase[c] \in {"idle", "refused", "upgrading", "notifying", "done"}
             /\ session[c] # "joined"
<1>1. ASSUME TypeOK, CountInv, SessionInv, [Next]_vars
      PROVE  [Drained]_vars
  <2>1. SUFFICES ASSUME NEW k \in Closers, NEW c \in Conns, Next,
                        closer[k] # "disconnected",
                        closer'[k] = "disconnected"
                 PROVE  phase[c] \in {"idle", "refused", "upgrading",
                                      "notifying", "done"}
                        /\ session[c] # "joined"
    BY <1>1
  <2>2. closer' # closer
    BY <2>1
  <2>3. PICK j \in Closers : CloserSwaps(j) \/ CloserStep(j)
    BY <1>1, <2>1, <2>2, TaskFrame DEF Next, TaskStep
  <2>4. active = 0
    BY <1>1, <2>1, <2>3 DEF TypeOK, CloserSwaps, CloserStep, CloserSends,
                            CloserRegisters, CloserLoads, CloserWakes
  <2>5. c \notin Serving
    BY <1>1, <2>4, ServingIsFinite, FS_EmptySet DEF CountInv
  <2> QED
    BY <1>1, <2>5 DEF Serving, Counted, SessionInv, SessionOf, TypeOK, Phases
<1> QED
  BY <1>1, CountIsExact, TasksAreInLine, PTL DEF Spec, DrainedAtDisconnect

-----------------------------------------------------------------------------
(* The shutdown keeps its contract.                                        *)

(* A close() is on its way only once the gateway refuses upgrades.         *)
ShutInv == \A k \in Closers : closer[k] # "idle" => shutting_down

LEMMA ShutIsKnown == Spec => []ShutInv
<1>1. Init => ShutInv
  BY DEF Init, ShutInv
<1>2. ASSUME TypeOK, ShutInv, [Next]_vars PROVE ShutInv'
  <2>1. CASE UNCHANGED vars
    BY <1>2, <2>1 DEF vars, watchVars, drainVars, ShutInv
  <2>2. ASSUME NEW c \in Conns, TaskStep(c) PROVE ShutInv'
    BY <1>2, <2>2, TaskFrame DEF ShutInv
  <2>3. ASSUME NEW k \in Closers, CloserSwaps(k) \/ CloserStep(k)
        PROVE  ShutInv'
    BY <1>2, <2>3 DEF ShutInv, TypeOK, CloserSwaps, CloserStep, CloserSends,
                      CloserRegisters, CloserLoads, CloserWakes, watchVars
  <2> QED
    BY <1>2, <2>1, <2>2, <2>3 DEF Next, TaskStep
<1> QED
  BY <1>1, <1>2, CountIsExact, PTL DEF Spec

(* The connections in the contract's terms.                                *)
Admitted == {c \in Conns : phase[c] \notin {"idle", "refused"}}
Opened   == {c \in Conns : session[c] # "none"}
Closed   == {c \in Conns : session[c] = "left" /\ phase[c] # "closedHook"}

Stage == IF \E k \in Closers : closer[k] = "disconnected" THEN "disconnected"
         ELSE IF shutting_down THEN "draining" ELSE "serving"

(* A task never takes back what the contract saw of it, and is admitted    *)
(* before the shutdown only.                                               *)
LEMMA TaskLasts ==
    ASSUME TypeOK, NEW c \in Conns, TaskStep(c), SessionOf(c)
    PROVE  /\ c \in Admitted => c \in Admitted'
           /\ c \in Admitted' => c \in Admitted \/ ~shutting_down
           /\ c \in Opened => c \in Opened'
           /\ c \in Closed => c \in Closed'
<1> USE DEF TypeOK, Moves, SessionOf, Admitted, Opened, Closed, taskVars
<1>1. CASE Upgrade(c) \/ ServeStarts(c)
  BY <1>1 DEF Upgrade, ServeStarts
<1>2. CASE CreateFails(c) \/ CreateSucceeds(c)
  BY <1>2 DEF CreateFails, CreateSucceeds
<1>3. CASE Subscribes(c) \/ BorrowsShutdown(c)
  BY <1>3 DEF Subscribes, BorrowsShutdown
<1>4. CASE SetupFails(c) \/ SetupSucceeds(c)
  BY <1>4 DEF SetupFails, SetupSucceeds
<1>5. CASE SeesShutdown(c) \/ SeesBrowserGone(c) \/ ForwardClosed(c)
  BY <1>5 DEF SeesShutdown, SeesBrowserGone, ForwardClosed
<1>6. CASE ForwardReply(c)
           \/ \E id \in OfferIds, g \in Generations : HandleOffer(c, id, g)
  <2>1. /\ session' = session /\ phase[c] = "serving"
        /\ phase' = phase \/ phase' = [phase EXCEPT ![c] = "cleanup"]
    BY <1>6 DEF ForwardReply, HandleOffer, Receives, ForwardOffer, RejectOffer
  <2> QED
    BY <2>1
<1>7. CASE HandleRtcClose(c) \/ \E g \in Generations : HandleCandidate(c, g)
  BY <1>7 DEF HandleRtcClose, HandleCandidate
<1>8. CASE CleanupLeaves(c)
  BY <1>8 DEF CleanupLeaves
<1>9. CASE CleanupEnds(c) \/ GuardDrops(c) \/ GuardNotifies(c)
  BY <1>9 DEF CleanupEnds, GuardDrops, GuardNotifies
<1>10. CASE Outside(c)
  BY <1>10 DEF Outside, BrowserLeaves, VoxReplies, VoxCloses
<1> QED
  BY <1>1, <1>2, <1>3, <1>4, <1>5, <1>6, <1>7, <1>8, <1>9, <1>10
  DEF TaskStep, Setup, Select, Teardown

(* A step of a task is progress of the contract.                           *)
LEMMA TaskDrains ==
    ASSUME TypeOK, SessionInv, SessionInv', ShutInv, NEW c \in Conns,
           TaskStep(c)
    PROVE  Drain!Progress
<1>1. /\ UNCHANGED <<shutting_down, closer>>
      /\ \A d \in Conns \ {c} : phase'[d] = phase[d] /\ session'[d] = session[d]
  BY TaskFrame DEF SameTask
<1>2. /\ c \in Admitted => c \in Admitted'
      /\ c \in Admitted' => c \in Admitted \/ ~shutting_down
      /\ c \in Opened => c \in Opened'
      /\ c \in Closed => c \in Closed'
  BY TaskLasts DEF SessionInv
<1>3. /\ Admitted \subseteq Admitted'
      /\ shutting_down => Admitted' = Admitted
      /\ Opened \subseteq Opened' /\ Closed \subseteq Closed'
  BY <1>1, <1>2 DEF Admitted, Opened, Closed
<1>4. Closed' \subseteq Opened' /\ Opened' \subseteq Admitted'
  BY DEF Closed, Opened, Admitted, SessionInv, SessionOf
<1>5. Admitted' \subseteq Conns
  BY DEF Admitted
<1>6. Stage' = Stage
  BY <1>1 DEF Stage
<1>7. Stage # "serving" => shutting_down
  BY DEF Stage, ShutInv
<1> QED
  BY <1>3, <1>4, <1>5, <1>6, <1>7
  DEF Drain!Progress, Admitted, Opened, Closed, Stage

(* A step of close() announces the shutdown, disconnects, or shows nothing.*)
LEMMA CloserDrains ==
    ASSUME TypeOK, CountInv, SessionInv, ShutInv, NEW k \in Closers,
           CloserSwaps(k) \/ CloserStep(k)
    PROVE  Drain!Next \/ UNCHANGED Drain!drainVars
<1>1. phase' = phase /\ session' = session
  BY CloserFrame DEF taskVars
<1>2. Admitted' = Admitted /\ Opened' = Opened /\ Closed' = Closed
  BY <1>1 DEF Admitted, Opened, Closed
<1>3. Closed \subseteq Opened /\ Opened \subseteq Admitted
      /\ Admitted \subseteq Conns
  BY DEF Closed, Opened, Admitted, SessionInv, SessionOf
<1>4. CASE Stage' = Stage
  BY <1>2, <1>4 DEF Drain!drainVars, Admitted, Opened, Closed, Stage
<1>5. CASE Stage = "serving" /\ Stage' = "draining"
  <2>1. Drain!Progress
    BY <1>2, <1>3, <1>5 DEF Drain!Progress, Admitted, Opened, Closed, Stage
  <2> QED
    BY <2>1 DEF Drain!Next
<1>6. CASE CloserLoads(k) /\ active = 0 /\ Stage' # Stage
  <2>1. Serving = {}
    BY <1>6, ServingIsFinite, FS_EmptySet DEF CountInv
  <2>2. Opened = Closed
    <3>1. ASSUME NEW c \in Conns
          PROVE  session[c] \in {"none", "left"} /\ phase[c] # "closedHook"
      <4>1. phase[c] \in Phases \ Counted
        BY <2>1 DEF Serving, TypeOK
      <4>2. SessionOf(c) /\ session[c] \in {"none", "joined", "left"}
        BY DEF SessionInv, TypeOK
      <4> QED
        BY <4>1, <4>2 DEF Phases, Counted, SessionOf
    <3> QED
      BY <3>1 DEF Opened, Closed
  <2>3. shutting_down /\ closer'[k] = "disconnected"
    BY <1>6 DEF CloserLoads, ShutInv, TypeOK
  <2>4. Stage' = "disconnected"
    BY <2>3 DEF Stage
  <2>5. Stage = "draining"
    BY <1>6, <2>3, <2>4 DEF Stage
  <2>6. Drain!Disconnect
    BY <1>2, <2>2, <2>4, <2>5
    DEF Drain!Disconnect, Admitted, Opened, Closed, Stage
  <2> QED
    BY <2>6 DEF Drain!Next
<1>7. \/ Stage' = Stage
      \/ Stage = "serving" /\ Stage' = "draining"
      \/ CloserLoads(k) /\ active = 0
  <2>1. CASE CloserSwaps(k)
    <3>1. /\ closer[k] = "idle" /\ shutting_down'
          /\ \E p \in {"register", "send"} : closer' = [closer EXCEPT ![k] = p]
      BY <2>1 DEF CloserSwaps
    <3>2. (\E j \in Closers : closer'[j] = "disconnected")
             <=> \E j \in Closers : closer[j] = "disconnected"
      BY <3>1 DEF TypeOK
    <3> QED
      BY <3>1, <3>2 DEF Stage, TypeOK
  <2>2. CASE CloserStep(k) /\ ~(CloserLoads(k) /\ active = 0)
    <3>1. /\ closer[k] # "disconnected" /\ shutting_down' = shutting_down
          /\ \E p \in {"register", "load", "wait"} :
                closer' = [closer EXCEPT ![k] = p]
      BY <2>2 DEF CloserStep, CloserSends, CloserRegisters, CloserLoads,
                  CloserWakes, watchVars
    <3>2. (\E j \in Closers : closer'[j] = "disconnected")
             <=> \E j \in Closers : closer[j] = "disconnected"
      BY <3>1 DEF TypeOK
    <3> QED
      BY <3>1, <3>2 DEF Stage
  <2> QED
    BY <2>1, <2>2
<1> QED
  BY <1>4, <1>5, <1>6, <1>7

(* THE SHUTDOWN THEOREM: for any number of tasks and calls of close(), the *)
(* gateway keeps the contract of a shutdown: no upgrade is admitted after  *)
(* close(), the client is disconnected when every session opened so far    *)
(* has been left and its hook has returned, and no session opens twice.    *)
THEOREM ShutdownKeepsContract == Spec => DrainsAsPromised
<1>1. Init => Drain!Init
  BY DEF Init, Drain!Init
<1>2. ASSUME TypeOK, CountInv, SessionInv, SessionInv', ShutInv, [Next]_vars
      PROVE  [Drain!Next]_(Drain!drainVars)
  <2> SUFFICES Drain!Next \/ UNCHANGED Drain!drainVars
    BY DEF Drain!drainVars
  <2>1. CASE UNCHANGED vars
    BY <2>1 DEF vars, taskVars, watchVars, drainVars, Drain!drainVars
  <2>2. ASSUME NEW c \in Conns, TaskStep(c) PROVE Drain!Next
    BY <1>2, <2>2, TaskDrains DEF Drain!Next
  <2>3. ASSUME NEW k \in Closers, CloserSwaps(k) \/ CloserStep(k)
        PROVE  Drain!Next \/ UNCHANGED Drain!drainVars
    BY <1>2, <2>3, CloserDrains
  <2> QED
    BY <1>2, <2>1, <2>2, <2>3 DEF Next, TaskStep
<1> QED
  BY <1>1, <1>2, CountIsExact, TasksAreInLine, ShutIsKnown,
     DisconnectAfterDrain, PTL DEF Spec, Drain!Spec, DrainsAsPromised

-----------------------------------------------------------------------------
CommandInv == \A c \in Conns : CommandOf(c)

(* Lemma: a task's own steps keep its memory of the commands exact.        *)
LEMMA TaskKeepsCommands ==
    ASSUME TypeOK, NEW c \in Conns, TaskStep(c), CommandOf(c)
    PROVE  CommandOf(c)'
<1> USE DEF TypeOK, Moves, CommandOf, Open, taskVars, eventVars, watchVars,
            drainVars, offerVars
<1>1. CASE Setup(c)
  BY <1>1 DEF Setup, Upgrade, ServeStarts, CreateFails, CreateSucceeds,
              Subscribes, BorrowsShutdown, SetupFails, SetupSucceeds
<1>2. CASE SeesShutdown(c) \/ SeesBrowserGone(c) \/ ForwardClosed(c)
  BY <1>2 DEF SeesShutdown, SeesBrowserGone, ForwardClosed
<1>3. CASE ForwardReply(c)
  <2>1. /\ UNCHANGED <<generated_offer, voxGenerated, candidatesAtVox,
                       browserAskedClose, rtc_close_requested, rtcCloses>>
        /\ phase[c] = "serving"
        /\ phase' = phase \/ phase' = [phase EXCEPT ![c] = "cleanup"]
    BY <1>3 DEF ForwardReply
  <2> QED
    BY <2>1
<1>4. ASSUME NEW id \in OfferIds, NEW g \in Generations, HandleOffer(c, id, g)
      PROVE  CommandOf(c)'
  <2>1. /\ UNCHANGED <<candidatesAtVox, browserAskedClose,
                       rtc_close_requested, rtcCloses>>
        /\ phase[c] = "serving"
        /\ phase' = phase \/ phase' = [phase EXCEPT ![c] = "cleanup"]
    BY <1>4 DEF HandleOffer, Receives, ForwardOffer, RejectOffer
  <2>2. generated_offer'[c] = voxGenerated'[c]
    BY <1>4 DEF HandleOffer, ForwardOffer, RejectOffer
  <2> QED
    BY <2>1, <2>2
<1>5. CASE HandleRtcClose(c)
  BY <1>5 DEF HandleRtcClose, Receives
<1>6. ASSUME NEW g \in Generations, HandleCandidate(c, g)
      PROVE  CommandOf(c)'
  <2>1. <<TRUE, "absent">> # <<voxGenerated[c], g>>
    BY <1>6 DEF HandleCandidate
  <2>2. candidatesAtVox'[c] = candidatesAtVox[c] \cup {<<voxGenerated[c], g>>}
    BY <1>6 DEF HandleCandidate
  <2>3. UNCHANGED <<phase, generated_offer, voxGenerated, browserAskedClose,
                    rtc_close_requested, rtcCloses>>
    BY <1>6 DEF HandleCandidate
  <2> QED
    BY <2>1, <2>2, <2>3
<1>7. CASE CleanupLeaves(c)
  BY <1>7 DEF CleanupLeaves
<1>8. CASE CleanupEnds(c) \/ GuardDrops(c) \/ GuardNotifies(c)
  BY <1>8 DEF CleanupEnds, GuardDrops, GuardNotifies
<1>9. CASE Outside(c)
  BY <1>9 DEF Outside, BrowserLeaves, VoxReplies, VoxCloses
<1> QED
  BY <1>1, <1>2, <1>3, <1>4, <1>5, <1>6, <1>7, <1>8, <1>9
  DEF TaskStep, Select, Teardown

(* Vox is never told rtc.close twice, nor a candidate without the          *)
(* generation of its offer.                                                *)
THEOREM CommandsAreInOrder == Spec => []CommandsToVox
<1>1. Init => CommandInv
  BY DEF Init, CommandInv, CommandOf
<1>2. ASSUME TypeOK, CommandInv, [Next]_vars
      PROVE  CommandInv'
  <2>1. CASE UNCHANGED vars
    BY <1>2, <2>1 DEF vars, taskVars, offerVars, CommandInv, CommandOf
  <2>2. ASSUME NEW c \in Conns, TaskStep(c), NEW d \in Conns
        PROVE  CommandOf(d)'
    <3>1. CASE d = c
      BY <1>2, <2>2, <3>1, TaskKeepsCommands DEF CommandInv
    <3>2. CASE d # c
      <4>1. SameTask(d) /\ CommandOf(d)
        BY <1>2, <2>2, <3>2, TaskFrame DEF CommandInv
      <4> QED
        BY <4>1 DEF SameTask, CommandOf
    <3> QED
      BY <3>1, <3>2
  <2>3. ASSUME NEW k \in Closers, CloserSwaps(k) \/ CloserStep(k)
        PROVE  CommandInv'
    <3>1. UNCHANGED <<taskVars, offerVars>>
      BY <2>3, CloserFrame
    <3> QED
      BY <1>2, <3>1 DEF taskVars, offerVars, CommandInv, CommandOf
  <2> QED
    BY <1>2, <2>1, <2>2, <2>3 DEF Next, TaskStep, CommandInv
<1>3. CommandInv => CommandsToVox
  BY DEF CommandInv, CommandOf, CommandsToVox, GeneratedCandidatesOnly,
         NoDuplicateRtcClose
<1> QED
  BY <1>1, <1>2, <1>3, CountIsExact, PTL DEF Spec

-----------------------------------------------------------------------------
(* An offer and its reply can be told apart from everything else while the *)
(* offer can be answered.                                                  *)
OfferInv ==
    \A c \in Conns : ReplyOf(c) /\ FreshOf(c) /\ (phase[c] \in Open => SlotOf(c))

(* Lemma: an offer is forwarded into an empty slot, or refused under an id *)
(* that is new.                                                            *)
LEMMA OfferKeepsSlot ==
    ASSUME TypeOK, NEW c \in Conns, NEW id \in OfferIds, NEW g \in Generations,
           HandleOffer(c, id, g), ReplyOf(c), SlotOf(c)
    PROVE  ReplyOf(c)' /\ SlotOf(c)'
<1>1. /\ id \notin sent[c] /\ id # NoOffer /\ pending_offer_id[c] # id
      /\ sent'[c] = sent[c] \cup {id}
      /\ UNCHANGED <<events, voxClosed, replies>>
  BY RustConstantsAssumption DEF HandleOffer, ReplyOf, TypeOK, eventVars
<1>2. CASE ForwardOffer(c, id, g) /\ OfferSlotFree(c)
  <2>1. /\ pending_offer_id[c] = NoOffer /\ pending_offer_id'[c] = id
        /\ atVox'[c] = Append(atVox[c], id) /\ errors' = errors
    BY <1>2 DEF ForwardOffer, OfferSlotFree, TypeOK
  <2>2. ReplyOf(c)'
    BY <1>1, <2>1 DEF ReplyOf
  <2>3. atVox[c] = <<>> => atVox'[c] = <<id>>
    BY <2>1
  <2>4. SlotOf(c)'
    BY <1>1, <2>1, <2>3 DEF SlotOf
  <2> QED
    BY <2>2, <2>4
<1>3. CASE RejectOffer(c, id)
  <2>1. /\ pending_offer_id'[c] = pending_offer_id[c] /\ atVox' = atVox
        /\ errors'[c] = errors[c] \/ errors'[c] = errors[c] \cup {id}
    BY <1>1, <1>3 DEF RejectOffer, TypeOK
  <2>2. ReplyOf(c)'
    BY <1>1, <2>1 DEF ReplyOf
  <2>3. SlotOf(c)'
    BY <1>1, <2>1 DEF SlotOf
  <2> QED
    BY <2>2, <2>3
<1> QED
  BY <1>2, <1>3 DEF HandleOffer

(* Lemma: a second event goes behind the first.                            *)
LEMMA AppendSecond ==
    ASSUME NEW a, NEW b
    PROVE  Append(<<a>>, b) = <<a, b>>
<1>1. /\ <<a>> \in Seq({a, b}) /\ Len(<<a>>) = 1
      /\ <<a, b>> \in Seq({a, b}) /\ Len(<<a, b>>) = 2
  OBVIOUS
<1>2. /\ Append(<<a>>, b) \in Seq({a, b}) /\ Len(Append(<<a>>, b)) = 2
      /\ Append(<<a>>, b)[1] = a /\ Append(<<a>>, b)[2] = b
  BY <1>1
<1>3. \A i \in 1..2 : Append(<<a>>, b)[i] = <<a, b>>[i]
  BY <1>2
<1> QED
  BY <1>1, <1>2, <1>3, SeqEqual

(* Lemma: the queue keeps its order from Vox to the browser.               *)
LEMMA TaskKeepsOffers ==
    ASSUME TypeOK, NEW c \in Conns, TaskStep(c), ReplyOf(c), FreshOf(c),
           phase[c] \in Open => SlotOf(c)
    PROVE  ReplyOf(c)' /\ FreshOf(c)' /\ (phase'[c] \in Open => SlotOf(c)')
<1> USE DEF Moves, taskVars, eventVars, watchVars, drainVars, offerVars
<1>1. CASE Setup(c)
  <2>1. UNCHANGED <<eventVars, offerVars>> /\ phase[c] \in Open \ {"serving"}
    BY <1>1 DEF Setup, Upgrade, ServeStarts, CreateFails, CreateSucceeds,
                Subscribes, BorrowsShutdown, SetupFails, SetupSucceeds, Open
  <2> QED
    BY <2>1 DEF ReplyOf, FreshOf, SlotOf
<1>2. CASE SeesShutdown(c) \/ SeesBrowserGone(c) \/ ForwardClosed(c)
  <2>1. UNCHANGED offerVars /\ phase'[c] \notin Open
    BY <1>2 DEF SeesShutdown, SeesBrowserGone, ForwardClosed, Open, TypeOK
  <2> QED
    BY <2>1 DEF ReplyOf, FreshOf
<1>3. CASE ForwardReply(c)
  <2>1. /\ events'[c] = Tail(events[c]) /\ pending_offer_id'[c] = NoOffer
        /\ UNCHANGED <<sent, errors, voxClosed, atVox>>
        /\ events[c] # <<>> /\ Head(events[c]) # ClosedEvent
        /\ \/ replies' = replies
           \/ replies'[c] = replies[c]
                \cup {<<Head(events[c])[2], pending_offer_id[c]>>}
    BY <1>3 DEF ForwardReply, TypeOK
  <2>2. SlotOf(c)
    BY <1>3 DEF ForwardReply, Open
  <2>3. /\ Head(events[c]) = ReplyEvent(pending_offer_id[c])
        /\ pending_offer_id[c] # NoOffer
        /\ \/ Tail(events[c]) = <<>> /\ ~voxClosed[c] /\ atVox[c] = <<>>
           \/ Tail(events[c]) = <<ClosedEvent>> /\ voxClosed[c]
    <3>1. CASE events[c] = <<ReplyEvent(pending_offer_id[c])>>
      BY <2>1, <2>2, <3>1 DEF SlotOf, ReplyEvent, ClosedEvent
    <3>2. CASE events[c] = <<ReplyEvent(pending_offer_id[c]), ClosedEvent>>
      BY <2>1, <2>2, <3>2 DEF SlotOf, ReplyEvent, ClosedEvent
    <3>3. events[c] # <<ClosedEvent>>
      BY <2>1
    <3> QED
      BY <2>1, <2>2, <3>1, <3>2, <3>3 DEF SlotOf
  <2>4. Head(events[c])[2] = pending_offer_id[c]
    BY <2>3 DEF ReplyEvent
  <2>5. ReplyOf(c)'
    BY <2>1, <2>3, <2>4 DEF ReplyOf
  <2>6. SlotOf(c)'
    BY <2>1, <2>3 DEF SlotOf
  <2> QED
    BY <2>1, <2>5, <2>6 DEF FreshOf
<1>4. CASE \E id \in OfferIds, g \in Generations : HandleOffer(c, id, g)
  <2>1. SlotOf(c)
    BY <1>4 DEF HandleOffer, Receives, Open
  <2>2. phase' = phase \/ phase' = [phase EXCEPT ![c] = "cleanup"]
    BY <1>4 DEF HandleOffer, ForwardOffer, RejectOffer
  <2>3. FreshOf(c)'
    BY <1>4, <2>2 DEF HandleOffer, Receives, FreshOf, Open, TypeOK
  <2> QED
    BY <1>4, <2>1, <2>3, OfferKeepsSlot
<1>5. CASE HandleRtcClose(c) \/ \E g \in Generations : HandleCandidate(c, g)
  <2>1. UNCHANGED <<phase, eventVars, pending_offer_id, sent, atVox, replies,
                    errors>>
    BY <1>5 DEF HandleRtcClose, HandleCandidate
  <2> QED
    BY <2>1 DEF ReplyOf, FreshOf, SlotOf
<1>6. CASE Teardown(c)
  <2>1. UNCHANGED <<eventVars, offerVars>> /\ phase'[c] \notin Open
    BY <1>6 DEF Teardown, CleanupLeaves, CleanupEnds, GuardDrops,
                GuardNotifies, Open, TypeOK
  <2> QED
    BY <2>1 DEF ReplyOf, FreshOf
<1>7. CASE BrowserLeaves(c)
  BY <1>7 DEF BrowserLeaves, ReplyOf, FreshOf, SlotOf
<1>8. CASE VoxReplies(c)
  <2>1. /\ UNCHANGED <<phase, pending_offer_id, sent, replies, errors, voxClosed>>
        /\ atVox'[c] = Tail(atVox[c]) /\ ~voxClosed[c] /\ atVox[c] # <<>>
        /\ events'[c] = Append(events[c], ReplyEvent(Head(atVox[c])))
    BY <1>8 DEF VoxReplies, TypeOK
  <2>2. ASSUME phase[c] \in Open
        PROVE  SlotOf(c)'
    <3>1. /\ pending_offer_id[c] # NoOffer /\ events[c] = <<>>
          /\ atVox[c] = <<pending_offer_id[c]>>
      BY <2>1, <2>2 DEF SlotOf
    <3>2. /\ atVox'[c] = <<>>
          /\ events'[c] = <<ReplyEvent(pending_offer_id[c])>>
      BY <2>1, <3>1
    <3> QED
      BY <2>1, <3>1, <3>2 DEF SlotOf
  <2> QED
    BY <2>1, <2>2 DEF ReplyOf, FreshOf
<1>9. CASE VoxCloses(c)
  <2>1. /\ UNCHANGED <<phase, pending_offer_id, sent, replies, errors, atVox>>
        /\ ~voxClosed[c] /\ voxClosed'[c]
        /\ \/ events'[c] = events[c] /\ phase[c] = "created"
           \/ events'[c] = Append(events[c], ClosedEvent)
    BY <1>9 DEF VoxCloses, TypeOK
  <2>2. ASSUME phase[c] \in Open
        PROVE  SlotOf(c)'
    <3>1. CASE events'[c] = events[c] /\ phase[c] = "created"
      <4>1. events[c] = <<>>
        BY <2>1, <2>2, <3>1 DEF SlotOf, FreshOf, Open
      <4> QED
        BY <2>1, <3>1, <4>1 DEF SlotOf
    <3>2. CASE events'[c] = Append(events[c], ClosedEvent)
      <4>1. CASE events[c] = <<>>
        BY <2>1, <3>2, <4>1 DEF SlotOf
      <4>2. CASE /\ events[c] = <<ReplyEvent(pending_offer_id[c])>>
                 /\ pending_offer_id[c] # NoOffer
        <5>1. events'[c] = <<ReplyEvent(pending_offer_id[c]), ClosedEvent>>
          BY <3>2, <4>2, AppendSecond
        <5> QED
          BY <2>1, <4>2, <5>1 DEF SlotOf
      <4> QED
        BY <2>1, <2>2, <4>1, <4>2 DEF SlotOf
    <3> QED
      BY <2>1, <3>1, <3>2
  <2> QED
    BY <2>1, <2>2 DEF ReplyOf, FreshOf
<1> QED
  BY <1>1, <1>2, <1>3, <1>4, <1>5, <1>6, <1>7, <1>8, <1>9
  DEF TaskStep, Select, Outside

(* What is between Vox and the browser is at most one offer or its reply.  *)
THEOREM OffersAreTracked == Spec => []OfferInv
<1>1. Init => OfferInv
  BY DEF Init, OfferInv, ReplyOf, FreshOf, SlotOf
<1>2. ASSUME TypeOK, OfferInv, [Next]_vars
      PROVE  OfferInv'
  <2>1. CASE UNCHANGED vars
    BY <1>2, <2>1 DEF vars, taskVars, eventVars, offerVars, OfferInv, ReplyOf,
                      FreshOf, SlotOf
  <2>2. ASSUME NEW c \in Conns, TaskStep(c), NEW d \in Conns
        PROVE  ReplyOf(d)' /\ FreshOf(d)' /\ (phase'[d] \in Open => SlotOf(d)')
    <3>1. CASE d = c
      BY <1>2, <2>2, <3>1, TaskKeepsOffers DEF OfferInv
    <3>2. CASE d # c
      <4>1. SameTask(d)
        BY <1>2, <2>2, <3>2, TaskFrame
      <4>2. ReplyOf(d) /\ FreshOf(d) /\ (phase[d] \in Open => SlotOf(d))
        BY <1>2 DEF OfferInv
      <4> QED
        BY <4>1, <4>2 DEF SameTask, ReplyOf, FreshOf, SlotOf
    <3> QED
      BY <3>1, <3>2
  <2>3. ASSUME NEW k \in Closers, CloserSwaps(k) \/ CloserStep(k)
        PROVE  OfferInv'
    <3>1. UNCHANGED <<taskVars, eventVars, offerVars>>
      BY <2>3, CloserFrame
    <3> QED
      BY <1>2, <3>1 DEF taskVars, eventVars, offerVars, OfferInv, ReplyOf,
                        FreshOf, SlotOf
  <2> QED
    BY <1>2, <2>1, <2>2, <2>3 DEF Next, TaskStep, OfferInv
<1> QED
  BY <1>1, <1>2, CountIsExact, PTL DEF Spec

(* A reply goes out under the id of the offer it answers, although Vox's   *)
(* events carry none, and never for an offer that was refused.             *)
THEOREM RepliesAreCorrelated == Spec => []RepliesMatchOffers
<1>1. OfferInv => RepliesMatchOffers
  BY DEF OfferInv, ReplyOf, RepliesMatchOffers
<1> QED
  BY <1>1, OffersAreTracked, PTL

(* The pending offer is the one Vox still has, or whose reply is queued.   *)
THEOREM SlotIsExact == Spec => []OfferSlotMatchesVox
<1>1. OfferInv => OfferSlotMatchesVox
  <2> SUFFICES ASSUME OfferInv, NEW c \in Conns, phase[c] = "serving",
                      ~voxClosed[c]
               PROVE  atVox[c] \o [i \in 1..Len(events[c]) |-> events[c][i][2]] =
                         IF pending_offer_id[c] = NoOffer THEN <<>>
                         ELSE <<pending_offer_id[c]>>
    BY DEF OfferSlotMatchesVox
  <2>1. SlotOf(c)
    BY DEF OfferInv, Open
  <2>2. CASE events[c] = <<>>
    BY <2>1, <2>2 DEF SlotOf
  <2>3. CASE events[c] = <<ReplyEvent(pending_offer_id[c])>>
    <3>1. pending_offer_id[c] # NoOffer /\ atVox[c] = <<>>
      BY <2>1, <2>3 DEF SlotOf
    <3>2. /\ Len(events[c]) = 1
          /\ events[c][1][2] = pending_offer_id[c]
      BY <2>3 DEF ReplyEvent
    <3>3. [i \in 1..Len(events[c]) |-> events[c][i][2]] = <<pending_offer_id[c]>>
      BY <3>2
    <3> QED
      BY <3>1, <3>3
  <2> QED
    BY <2>1, <2>2, <2>3 DEF SlotOf
<1> QED
  BY <1>1, OffersAreTracked, PTL

=============================================================================
