--------------------------- MODULE TsGatewayProofs ---------------------------
(***************************************************************************)
(* Proofs about TsGateway for every set of connections and request ids.    *)
(***************************************************************************)
EXTENDS TsGateway, TLAPS

-----------------------------------------------------------------------------
(* The type invariant.  CloseBody and RequestCloseAll are the only parts   *)
(* that several actions share.                                             *)

(* The synchronous part of #close keeps the types.                         *)
LEMMA CloseBodyTypes ==
    ASSUME TypeOK, NEW T, NEW tell, CloseBody(T, tell)
    PROVE  /\ session' \in [Conns -> {"none", "joined", "left"}]
           /\ closePromise' \in [Conns -> {"none", "running", "settled"}]
           /\ rtcCloseRequested' \in [Conns -> BOOLEAN]
           /\ rtcCloses' \in [Conns -> Nat]
           /\ closeRuns' \in [Conns -> Nat]
<1>1. PICK told \in SUBSET tell :
          rtcCloses' = [c \in Conns |-> IF c \in told THEN rtcCloses[c] + 1
                                        ELSE rtcCloses[c]]
  BY DEF CloseBody
<1>2. \A c \in Conns : rtcCloses[c] \in Nat /\ closeRuns[c] \in Nat
                        /\ rtcCloseRequested[c] \in BOOLEAN
                        /\ session[c] \in {"none", "joined", "left"}
                        /\ closePromise[c] \in {"none", "running", "settled"}
  BY DEF TypeOK
<1>3. QED  BY <1>1, <1>2 DEF CloseBody

(* So does #close when nothing else is on the stack.                       *)
LEMMA CloseSessionTypes ==
    ASSUME TypeOK, NEW c \in Conns, CloseSession(c)
    PROVE  /\ session' \in [Conns -> {"none", "joined", "left"}]
           /\ closePromise' \in [Conns -> {"none", "running", "settled"}]
           /\ rtcCloseRequested' \in [Conns -> BOOLEAN]
           /\ rtcCloses' \in [Conns -> Nat]
           /\ closeRuns' \in [Conns -> Nat]
           /\ stack' \in SUBSET Conns
           /\ nested' = nested
<1>1. CloseBody(Unclosed({c}), NotAsked(Unclosed({c})))
  BY DEF CloseSession
<1>2. stack' \in SUBSET Conns /\ nested' = nested
  BY DEF CloseSession, Unclosed
<1>3. QED  BY <1>1, <1>2, CloseBodyTypes

(* And closeActive, which closes every active session.                     *)
LEMMA RequestCloseAllTypes ==
    ASSUME TypeOK, NEW S, RequestCloseAll(S)
    PROVE  /\ session' \in [Conns -> {"none", "joined", "left"}]
           /\ closePromise' \in [Conns -> {"none", "running", "settled"}]
           /\ rtcCloseRequested' \in [Conns -> BOOLEAN]
           /\ rtcCloses' \in [Conns -> Nat]
           /\ closeRuns' \in [Conns -> Nat]
           /\ snapshot' \in SUBSET Conns
           /\ awaited' \in SUBSET Conns
           /\ pendingClose' \in [Conns -> BOOLEAN]
<1> DEFINE due  == {c \in Active : ~setupPending[c]}
           runs == Unclosed(due) \cup (due \cap S)
<1>1. CloseBody(runs, NotAsked(runs))
  BY DEF RequestCloseAll
<1>2. snapshot' \in SUBSET Conns /\ awaited' \in SUBSET Conns
  BY DEF RequestCloseAll, Active
<1>3. pendingClose' \in [Conns -> BOOLEAN]
  BY DEF RequestCloseAll, Active, TypeOK
<1>4. QED  BY <1>1, <1>2, <1>3, CloseBodyTypes

(* ws.close() on any set of sockets keeps the type of ws.                  *)
LEMMA WsCloseTypes ==
    ASSUME TypeOK, NEW S
    PROVE  WsClose(S) \in [Conns -> {"none", "open", "closing", "closed"}]
BY DEF TypeOK, WsClose

(* Every step keeps the types.                                             *)
LEMMA TypeStep == TypeOK /\ [Next]_vars => TypeOK'
<1> SUFFICES ASSUME TypeOK, [Next]_vars PROVE TypeOK'
  OBVIOUS
<1> USE DEF sessionVars, socketVars, closerVars, offerVars, hookVars
<1>1. ASSUME NEW c \in Conns, Upgrade(c) PROVE TypeOK'
  BY <1>1 DEF Upgrade, TypeOK
<1>2. ASSUME NEW c \in Conns, CreateFails(c) PROVE TypeOK'
  BY <1>2, WsCloseTypes DEF CreateFails, TypeOK
<1>3. ASSUME NEW c \in Conns, CreateAborts(c) PROVE TypeOK'
  BY <1>3, CloseSessionTypes DEF CreateAborts, TypeOK
<1>4. ASSUME NEW c \in Conns, CreateSucceeds(c) PROVE TypeOK'
  BY <1>4 DEF CreateSucceeds, TypeOK
<1>5. ASSUME NEW c \in Conns, HookThrows(c) PROVE TypeOK'
  BY <1>5, CloseSessionTypes DEF HookThrows, TypeOK
<1>6. ASSUME NEW c \in Conns, HookReturns(c) PROVE TypeOK'
  BY <1>6, CloseSessionTypes DEF HookReturns, TypeOK
<1>7. ASSUME NEW c \in Conns, OpenFinishes(c) PROVE TypeOK'
  BY <1>7, WsCloseTypes DEF OpenFinishes, TypeOK
<1>8. ASSUME NEW c \in Conns, CloseSettles(c) PROVE TypeOK'
  BY <1>8, WsCloseTypes DEF CloseSettles, TypeOK
<1>9. ASSUME NEW c \in Conns, BrowserLeaves(c) PROVE TypeOK'
  BY <1>9 DEF BrowserLeaves, TypeOK
<1>10. ASSUME NEW c \in Conns, PeerVanishes(c) PROVE TypeOK'
  BY <1>10 DEF PeerVanishes, TypeOK
<1>11. ASSUME NEW c \in Conns, WsCloses(c) PROVE TypeOK'
  <2>1. /\ ws' = [ws EXCEPT ![c] = "closed"]
        /\ UNCHANGED <<phase, attached, setupPending, closeWsOnSettle, ready,
                       voxClosed, peer, awaitingPong, closerVars, offerVars>>
    BY <1>11 DEF WsCloses
  <2>2. CASE CloseSession(c) /\ UNCHANGED pendingClose
    BY <2>1, <2>2, CloseSessionTypes DEF TypeOK
  <2>3. CASE /\ pendingClose' \in {pendingClose,
                                   [pendingClose EXCEPT ![c] = TRUE]}
             /\ UNCHANGED <<session, closePromise, rtcCloseRequested, rtcCloses,
                            closeRuns, hookVars>>
    <3>1. pendingClose' \in [Conns -> BOOLEAN]
      BY <2>3 DEF TypeOK
    <3>2. QED  BY <2>1, <2>3, <3>1 DEF TypeOK
  <2>4. QED  BY <1>11, <2>2, <2>3 DEF WsCloses, RequestClose
<1>12. ASSUME NEW c \in Conns, KeepAliveTick(c) PROVE TypeOK'
  BY <1>12 DEF KeepAliveTick, TypeOK
<1>13. ASSUME NEW c \in Conns, Pong(c) PROVE TypeOK'
  BY <1>13 DEF Pong, TypeOK
<1>14. ASSUME NEW c \in Conns, NEW id \in OfferIds, NEW g \in Generations,
              HandleOffer(c, id, g)
       PROVE TypeOK'
  <2>1. CASE ForwardOffer(c, id, g)
    <3>1. atVox \in [Conns -> Seq(OfferIds)]
      BY DEF TypeOK
    <3>2. \/ atVox' = [atVox EXCEPT ![c] = Append(atVox[c], id)]
          \/ atVox' = atVox
      BY <2>1 DEF ForwardOffer
    <3>3. Append(atVox[c], id) \in Seq(OfferIds)
      BY <3>1
    <3>4. atVox' \in [Conns -> Seq(OfferIds)]
      BY <3>1, <3>2, <3>3
    <3>5. QED
      BY <1>14, <2>1, <3>4, ZenonT(60) DEF HandleOffer, ForwardOffer, TypeOK
  <2>2. CASE RejectOffer(c, id)
    BY <1>14, <2>2 DEF HandleOffer, RejectOffer, TypeOK
  <2>3. QED  BY <1>14, <2>1, <2>2 DEF HandleOffer
<1>15. ASSUME NEW c \in Conns, NEW g \in Generations, HandleCandidate(c, g)
       PROVE TypeOK'
  BY <1>15 DEF HandleCandidate, TypeOK
<1>16. ASSUME NEW c \in Conns, HandleRtcClose(c) PROVE TypeOK'
  BY <1>16 DEF HandleRtcClose, TypeOK
<1>17. ASSUME NEW c \in Conns, ForwardReply(c) PROVE TypeOK'
  <2>1. atVox[c] \in Seq(OfferIds) /\ atVox[c] # <<>>
    BY <1>17 DEF ForwardReply, TypeOK
  <2>2. Tail(atVox[c]) \in Seq(OfferIds) /\ Head(atVox[c]) \in OfferIds
    BY <2>1
  <2>3. atVox' \in [Conns -> Seq(OfferIds)]
    BY <1>17, <2>2 DEF ForwardReply, TypeOK
  <2>4. replies' \in [Conns -> SUBSET (OfferIds \X (OfferIds \cup {NoOffer}))]
    BY <1>17, <2>2 DEF ForwardReply, TypeOK
  <2>5. QED  BY <1>17, <2>3, <2>4 DEF ForwardReply, TypeOK
<1>18. ASSUME NEW c \in Conns, ForwardClosed(c) PROVE TypeOK'
  <2>1. CASE setupPending[c]
    <3>1. ws' \in [Conns -> {"none", "open", "closing", "closed"}]
      BY <1>18, <2>1, WsCloseTypes DEF ForwardClosed
    <3>2. /\ voxClosed' = [voxClosed EXCEPT ![c] = TRUE]
          /\ pendingClose' = [pendingClose EXCEPT ![c] = TRUE]
          /\ rtcCloseRequested' = [rtcCloseRequested EXCEPT ![c] = TRUE]
          /\ UNCHANGED <<session, closePromise, rtcCloses, closeRuns,
                         closeWsOnSettle, hookVars, phase, attached,
                         setupPending, ready, peer, awaitingPong, closerVars,
                         offerVars>>
      BY <1>18, <2>1 DEF ForwardClosed
    <3>3. QED  BY <3>1, <3>2 DEF TypeOK
  <2>2. CASE ~setupPending[c]
    <3>1. CloseBody({c}, {}) /\ stack' \in SUBSET Conns
      BY <1>18, <2>2 DEF ForwardClosed
    <3>2. /\ voxClosed' = [voxClosed EXCEPT ![c] = TRUE]
          /\ closeWsOnSettle' = [closeWsOnSettle EXCEPT ![c] = TRUE]
          /\ UNCHANGED <<nested, pendingClose, ws, phase, attached,
                         setupPending, ready, peer, awaitingPong, closerVars,
                         offerVars>>
      BY <1>18, <2>2 DEF ForwardClosed
    <3>3. QED  BY <3>1, <3>2, CloseBodyTypes DEF TypeOK
  <2>3. QED  BY <2>1, <2>2
<1>19. CASE GatewayClose
  BY <1>19, RequestCloseAllTypes DEF GatewayClose, TypeOK
<1>20. CASE HookReenters
  BY <1>20, RequestCloseAllTypes DEF HookReenters, TypeOK
<1>21. CASE CloserAwaitsOpening
  BY <1>21, WsCloseTypes DEF CloserAwaitsOpening, Opening, TypeOK
<1>22. CASE CloserClosesAgain
  BY <1>22, RequestCloseAllTypes DEF CloserClosesAgain, TypeOK
<1>23. CASE CloserDisconnects
  BY <1>23, WsCloseTypes DEF CloserDisconnects, TypeOK
<1>24. ASSUME NEW c \in Conns, NestedSettles(c) PROVE TypeOK'
  BY <1>24 DEF NestedSettles, TypeOK
<1>25. CASE UNCHANGED vars
  BY <1>25 DEF vars, TypeOK
<1>26. QED
  BY <1>1, <1>2, <1>3, <1>4, <1>5, <1>6, <1>7, <1>8, <1>9, <1>10, <1>11,
     <1>12, <1>13, <1>14, <1>15, <1>16, <1>17, <1>18, <1>19, <1>20, <1>21,
     <1>22, <1>23, <1>24, <1>25
     DEF Next, Open, Socket, Signaling, Closer

(* The initial state has the types.                                        *)
LEMMA InitTypes == Init => TypeOK
<1> SUFFICES ASSUME Init PROVE TypeOK
  OBVIOUS
<1>1. atVox \in [Conns -> Seq(OfferIds)]
  BY DEF Init
<1>2. /\ candidatesAtVox \in [Conns -> SUBSET (BOOLEAN \X Generations)]
      /\ replies \in [Conns -> SUBSET (OfferIds \X (OfferIds \cup {NoOffer}))]
      /\ errors \in [Conns -> SUBSET OfferIds]
      /\ sent \in [Conns -> SUBSET OfferIds]
  BY DEF Init
<1>3. QED  BY <1>1, <1>2 DEF Init, TypeOK

(* Every variable of the gateway keeps its type in every behaviour.        *)
THEOREM TypeCorrect == Spec => []TypeOK
BY InitTypes, TypeStep, PTL DEF Spec

-----------------------------------------------------------------------------
(* The inductive invariant behind the lifecycle properties.  Its first     *)
(* half relates the state of one connection, its second half the progress  *)
(* of close() to all of them.                                              *)

(* setupPending is exactly the time of the onSessionCreated hook, a        *)
(* session exists only once #open got there, and leaving the channel and   *)
(* assigning closePromise happen together.  #close runs a second time only *)
(* for a session that is being left.                                       *)
SetupInv ==
    \A c \in Conns :
        /\ setupPending[c] <=> phase[c] = "hook"
        /\ phase[c] = "hook" => session[c] = "joined" /\ attached[c]
        /\ phase[c] \in {"idle", "rejected", "creating"} =>
              session[c] = "none" /\ ~attached[c]
        /\ closePromise[c] = "none" <=> session[c] # "left"
        /\ phase[c] = "closing" => session[c] = "left"
        /\ attached[c] => session[c] # "none"
        /\ voxClosed[c] => attached[c]
        /\ phase[c] = "hook" /\ voxClosed[c] => pendingClose[c]
        /\ nested[c] # "none" => session[c] = "left"

(* Once close() was called, only sessions whose hook is running are open;  *)
(* close() awaits every #open that has not settled, and in its second pass *)
(* every session that is left.                                             *)
CloserInv ==
    /\ shutdown <=> closer # "idle"
    /\ stack # {} => closer = "idle"
    /\ \A c \in stack : closePromise[c] = "running"
    /\ \A c \in Conns : nested[c] # "none" => shutdown
    /\ shutdown => \A c \in Conns : session[c] = "joined" => phase[c] = "hook"
    /\ closer = "opening" => Opening \subseteq awaited
    /\ closer \in {"second", "done"} => Opening = {}
    /\ closer = "second" => Active \subseteq awaited
    /\ closer = "done" => Active = {}

LifecycleInv == TypeOK /\ SetupInv /\ CloserInv

(* What #close does to the variables the invariant is about.               *)
LEMMA CloseSessionEffect ==
    ASSUME TypeOK, SetupInv, NEW c \in Conns, CloseSession(c)
    PROVE  /\ session' = [session EXCEPT ![c] = "left"]
           /\ closePromise' = [closePromise EXCEPT ![c] =
                                  IF @ = "none" THEN "running" ELSE @]
           /\ stack' \subseteq {c}
           /\ stack' # {} => closer = "idle" /\ closePromise[c] = "none"
           /\ nested' = nested
<1>1. CloseBody(Unclosed({c}), NotAsked(Unclosed({c})))
  BY DEF CloseSession
<1>2. /\ stack' \subseteq {c}
      /\ stack' # {} => closer = "idle" /\ closePromise[c] = "none"
      /\ nested' = nested
  BY DEF CloseSession, Unclosed
<1>3. session' = [session EXCEPT ![c] = "left"]
  BY <1>1 DEF CloseBody, Unclosed, TypeOK, SetupInv
<1>4. closePromise' = [closePromise EXCEPT ![c] =
                          IF @ = "none" THEN "running" ELSE @]
  BY <1>1 DEF CloseBody, Unclosed, TypeOK
<1>5. QED  BY <1>2, <1>3, <1>4

(* What closeActive does to them: every session outside its setup is left. *)
LEMMA RequestCloseAllEffect ==
    ASSUME TypeOK, SetupInv, NEW S, RequestCloseAll(S),
           \A c \in S : closePromise[c] = "running"
    PROVE  /\ session' = [c \in Conns |->
                 IF session[c] = "joined" /\ ~setupPending[c] THEN "left"
                 ELSE session[c]]
           /\ closePromise' = [c \in Conns |->
                 IF session[c] = "joined" /\ ~setupPending[c] THEN "running"
                 ELSE closePromise[c]]
           /\ awaited' = {c \in Active : ~setupPending[c]}
           /\ \A c \in Conns : pendingClose[c] => pendingClose'[c]
<1> DEFINE due  == {c \in Active : ~setupPending[c]}
           runs == Unclosed(due) \cup (due \cap S)
<1>1. CloseBody(runs, NotAsked(runs))
  BY DEF RequestCloseAll
<1>2. ASSUME NEW c \in Conns
      PROVE  /\ session[c] = "joined" /\ ~setupPending[c] => c \in runs
             /\ c \in runs => \/ session[c] = "joined" /\ ~setupPending[c]
                              \/ /\ closePromise[c] = "running"
                                 /\ session[c] = "left"
  BY <1>2 DEF Active, Released, Unclosed, TypeOK, SetupInv
<1>3. /\ session' = [c \in Conns |-> IF c \in runs THEN "left"
                                     ELSE session[c]]
      /\ closePromise' = [c \in Conns |-> IF c \in runs THEN "running"
                                          ELSE closePromise[c]]
  BY <1>1 DEF CloseBody
<1> HIDE DEF runs
<1>4. /\ awaited' = {c \in Active : ~setupPending[c]}
      /\ \A c \in Conns : pendingClose[c] => pendingClose'[c]
  BY DEF RequestCloseAll, TypeOK
<1>5. \A c \in Conns : session'[c] =
          IF session[c] = "joined" /\ ~setupPending[c] THEN "left"
          ELSE session[c]
  BY <1>2, <1>3
<1>6. \A c \in Conns : closePromise'[c] =
          IF session[c] = "joined" /\ ~setupPending[c] THEN "running"
          ELSE closePromise[c]
  BY <1>2, <1>3
<1>7. QED  BY <1>3, <1>4, <1>5, <1>6

(* closeActive keeps the first half of the invariant.                      *)
LEMMA RequestCloseAllSetup ==
    ASSUME TypeOK, SetupInv, NEW S, RequestCloseAll(S),
           \A c \in S : closePromise[c] = "running",
           UNCHANGED <<phase, attached, setupPending, voxClosed>>,
           \A c \in Conns : nested'[c] = nested[c] \/ c \in S
    PROVE  SetupInv'
<1>1. /\ \A c \in Conns : session'[c] =
             IF session[c] = "joined" /\ ~setupPending[c] THEN "left"
             ELSE session[c]
      /\ \A c \in Conns : closePromise'[c] =
             IF session[c] = "joined" /\ ~setupPending[c] THEN "running"
             ELSE closePromise[c]
      /\ \A c \in Conns : pendingClose[c] => pendingClose'[c]
  BY RequestCloseAllEffect
<1>2. SUFFICES ASSUME NEW c \in Conns
      PROVE /\ setupPending[c] <=> phase[c] = "hook"
            /\ phase[c] = "hook" => session'[c] = "joined" /\ attached[c]
            /\ phase[c] \in {"idle", "rejected", "creating"} =>
                  session'[c] = "none" /\ ~attached[c]
            /\ closePromise'[c] = "none" <=> session'[c] # "left"
            /\ phase[c] = "closing" => session'[c] = "left"
            /\ attached[c] => session'[c] # "none"
            /\ voxClosed[c] => attached[c]
            /\ phase[c] = "hook" /\ voxClosed[c] => pendingClose'[c]
            /\ nested'[c] # "none" => session'[c] = "left"
  BY DEF SetupInv
<1>3. session[c] \in {"none", "joined", "left"}
  BY DEF TypeOK
<1>4. QED  BY <1>1, <1>3 DEF SetupInv

(* Every step of one connection's #open, socket or signaling keeps the     *)
(* invariant.                                                              *)
LEMMA ConnStep ==
    ASSUME LifecycleInv, stack = {}, NEW c \in Conns,
           Open(c) \/ Socket(c) \/ Signaling(c)
    PROVE  SetupInv' /\ CloserInv'
<1> USE DEF sessionVars, socketVars, closerVars, offerVars, hookVars
<1> TypeOK /\ SetupInv /\ CloserInv
  BY DEF LifecycleInv
<1>1. CASE Upgrade(c)
  BY <1>1 DEF Upgrade, TypeOK, SetupInv, CloserInv, Opening, Active,
               Released
<1>2. CASE CreateFails(c)
  BY <1>2 DEF CreateFails, TypeOK, SetupInv, CloserInv, Opening, Active,
               Released
<1>3. CASE CreateAborts(c)
  <2>1. /\ phase[c] = "creating" /\ CloseSession(c)
        /\ phase' = [phase EXCEPT ![c] = "closing"]
        /\ UNCHANGED <<attached, pendingClose, setupPending, voxClosed,
                       closerVars>>
    BY <1>3 DEF CreateAborts
  <2>2. /\ session' = [session EXCEPT ![c] = "left"]
        /\ closePromise' = [closePromise EXCEPT ![c] =
                               IF @ = "none" THEN "running" ELSE @]
        /\ stack' \subseteq {c}
        /\ stack' # {} => closer = "idle" /\ closePromise[c] = "none"
        /\ nested' = nested
    BY <2>1, CloseSessionEffect
  <2>3. SetupInv'
    BY <2>1, <2>2 DEF TypeOK, SetupInv
  <2>4. CloserInv'
    BY <2>1, <2>2 DEF TypeOK, SetupInv, CloserInv, Opening, Active, Released
  <2>5. QED  BY <2>3, <2>4
<1>4. CASE CreateSucceeds(c)
  BY <1>4 DEF CreateSucceeds, TerminalReason, TypeOK, SetupInv, CloserInv,
              Opening, Active,
               Released
<1>5. CASE HookThrows(c)
  BY <1>5, CloseSessionEffect
     DEF HookThrows, TypeOK, SetupInv, CloserInv, Opening, Active,
               Released
<1>6. CASE HookReturns(c) /\ DeferredCloseReason(c)
  <2>1. CloseSession(c) /\ phase[c] = "hook"
        /\ phase' = [phase EXCEPT ![c] = "closing"]
        /\ setupPending' = [setupPending EXCEPT ![c] = FALSE]
        /\ UNCHANGED <<attached, pendingClose, voxClosed, closerVars>>
    BY <1>6 DEF HookReturns
  <2>2. QED
    BY <2>1, CloseSessionEffect, SMTT(30)
    DEF TypeOK, SetupInv, CloserInv, Opening, Active, Released
<1>7. CASE HookReturns(c) /\ ~DeferredCloseReason(c)
  BY <1>7 DEF HookReturns, DeferredCloseReason, TypeOK, SetupInv, CloserInv,
              Opening, Active,
               Released
<1>8. CASE OpenFinishes(c)
  BY <1>8 DEF OpenFinishes, TypeOK, SetupInv, CloserInv, Opening, Active,
               Released
<1>9. CASE CloseSettles(c)
  BY <1>9 DEF CloseSettles, TypeOK, SetupInv, CloserInv, Opening, Active,
               Released
<1>10. CASE WsCloses(c) /\ RequestClose(c)
  <2>1. CASE setupPending[c]
    <3>1. /\ pendingClose' = [pendingClose EXCEPT ![c] = TRUE]
          /\ UNCHANGED <<session, closePromise, hookVars, phase, setupPending,
                         attached, voxClosed, closerVars>>
      BY <1>10, <2>1 DEF WsCloses, RequestClose, SetupInv
    <3>2. QED  BY <3>1 DEF TypeOK, SetupInv, CloserInv, Opening, Active, Released
  <2>2. CASE ~setupPending[c] /\ session[c] # "none"
    <3>1. CloseSession(c)
          /\ UNCHANGED <<phase, setupPending, attached, pendingClose,
                         voxClosed, closerVars>>
      BY <1>10, <2>2 DEF WsCloses, RequestClose
    <3>2. phase[c] \in {"closing", "done"} /\ stack = {}
          /\ closePromise[c] \in {"none", "running", "settled"}
      BY <2>2 DEF SetupInv, TypeOK
    <3>3. /\ session' = [session EXCEPT ![c] = "left"]
          /\ closePromise' = [closePromise EXCEPT ![c] =
                                 IF @ = "none" THEN "running" ELSE @]
          /\ stack' \subseteq {c}
          /\ stack' # {} => closer = "idle" /\ closePromise[c] = "none"
          /\ nested' = nested
      BY <3>1, CloseSessionEffect
    <3>4. SetupInv'
      BY <3>1, <3>2, <3>3 DEF TypeOK, SetupInv
    <3>5. CloserInv'
      BY <2>2, <3>1, <3>2, <3>3 DEF TypeOK, SetupInv, CloserInv, Opening,
                                    Active, Released
    <3>6. QED  BY <3>4, <3>5
  <2>3. CASE session[c] = "none"
    BY <1>10, <2>3 DEF WsCloses, TypeOK, SetupInv, CloserInv, Opening, Active,
               Released
  <2>4. QED  BY <2>1, <2>2, <2>3
<1>11. CASE WsCloses(c) /\ ~RequestClose(c)
  BY <1>11 DEF WsCloses, TypeOK, SetupInv, CloserInv, Opening, Active,
               Released
<1>12. CASE BrowserLeaves(c) \/ PeerVanishes(c) \/ KeepAliveTick(c) \/ Pong(c)
  BY <1>12 DEF BrowserLeaves, PeerVanishes, KeepAliveTick, Pong, SetupInv,
               CloserInv, Opening, Active,
               Released
<1>13. CASE ForwardClosed(c) /\ setupPending[c]
  BY <1>13 DEF ForwardClosed, Subscribed, TypeOK, SetupInv, CloserInv,
               Opening, Active,
               Released
<1>14. CASE ForwardClosed(c) /\ ~setupPending[c]
  <2>1. /\ session' = [session EXCEPT ![c] = "left"]
        /\ closePromise' = [closePromise EXCEPT ![c] = "running"]
    BY <1>14 DEF ForwardClosed, CloseBody, TypeOK
  <2>2. stack' \subseteq {c} /\ (stack' # {} => closer = "idle")
        /\ nested' = nested
    BY <1>14 DEF ForwardClosed
  <2>3. QED
    BY <1>14, <2>1, <2>2 DEF ForwardClosed, Subscribed, TypeOK, SetupInv,
                             CloserInv, Opening, Active,
               Released
<1>15. CASE \/ \E id \in OfferIds, g \in Generations : HandleOffer(c, id, g)
            \/ \E g \in Generations : HandleCandidate(c, g)
            \/ ForwardReply(c)
  BY <1>15 DEF HandleOffer, HandleCandidate, ForwardReply, SetupInv,
               CloserInv, Opening, Active,
               Released
<1>16. CASE HandleRtcClose(c)
  BY <1>16 DEF HandleRtcClose, SetupInv, CloserInv, Opening, Active,
               Released
<1>17. CASE NestedSettles(c)
  BY <1>17 DEF NestedSettles, TypeOK, SetupInv, CloserInv, Opening, Active,
               Released
<1>18. QED
  BY <1>1, <1>2, <1>3, <1>4, <1>5, <1>6, <1>7, <1>8, <1>9, <1>10, <1>11,
     <1>12, <1>13, <1>14, <1>15, <1>16, <1>17 DEF Open, Socket, Signaling

(* Every step of close() keeps the invariant.                              *)
LEMMA CloserStep ==
    ASSUME LifecycleInv, \/ stack = {} /\ (GatewayClose \/ Closer)
                         \/ HookReenters
    PROVE  SetupInv' /\ CloserInv'
<1> USE DEF sessionVars, socketVars, closerVars, offerVars, hookVars
<1> TypeOK /\ SetupInv /\ CloserInv
  BY DEF LifecycleInv
<1>1. CASE GatewayClose /\ stack = {}
  <2>1. RequestCloseAll({}) /\ \A c \in {} : closePromise[c] = "running"
    BY <1>1 DEF GatewayClose, CloserInv
  <2>2. closer' = "first" /\ shutdown' /\ stack' = {}
        /\ UNCHANGED <<phase, attached, setupPending, voxClosed, nested>>
    BY <1>1 DEF GatewayClose
  <2>3. SetupInv'
    BY <2>1, <2>2, RequestCloseAllSetup
  <2>4. CloserInv'
    <3>1. \A c \in Conns : session'[c] = "joined" => phase'[c] = "hook"
      BY <2>1, <2>2, RequestCloseAllEffect DEF SetupInv
    <3>2. QED  BY <2>2, <3>1 DEF CloserInv
  <2>5. QED  BY <2>3, <2>4
<1>2. CASE HookReenters
  <2>1. RequestCloseAll(stack) /\ \A c \in stack : closePromise[c] = "running"
    BY <1>2 DEF HookReenters, CloserInv
  <2>2. closer' = "first" /\ shutdown' /\ stack' = {}
        /\ UNCHANGED <<phase, attached, setupPending, voxClosed>>
        /\ \A c \in Conns : nested'[c] = nested[c] \/ c \in stack
    BY <1>2 DEF HookReenters
  <2>3. SetupInv'
    BY <2>1, <2>2, RequestCloseAllSetup
  <2>4. CloserInv'
    <3>1. \A c \in Conns : session'[c] = "joined" => phase'[c] = "hook"
      BY <2>1, <2>2, RequestCloseAllEffect DEF SetupInv
    <3>2. QED  BY <2>2, <3>1 DEF CloserInv
  <2>5. QED  BY <2>3, <2>4
<1>3. CASE CloserAwaitsOpening
  BY <1>3 DEF CloserAwaitsOpening, TypeOK, SetupInv, CloserInv, Opening,
              Active, Released, Settled
<1>4. CASE CloserClosesAgain
  <2>1. RequestCloseAll({}) /\ \A c \in {} : closePromise[c] = "running"
    BY <1>4 DEF CloserClosesAgain, CloserInv
  <2>2. closer = "opening" /\ closer' = "second"
        /\ awaited \cap Opening = {} /\ UNCHANGED <<shutdown, stack>>
        /\ UNCHANGED <<phase, attached, setupPending, voxClosed, nested>>
    BY <1>4 DEF CloserClosesAgain
  <2>3. SetupInv'
    BY <2>1, <2>2, RequestCloseAllSetup
  <2>4. CloserInv'
    <3>1. Opening = {}
      BY <2>2 DEF CloserInv
    <3>2. \A c \in Conns : ~setupPending[c]
      BY <3>1 DEF Opening, SetupInv
    <3>3. /\ \A c \in Conns : session'[c] =
                IF session[c] = "joined" THEN "left" ELSE session[c]
          /\ \A c \in Conns : closePromise'[c] =
                IF session[c] = "joined" THEN "running" ELSE closePromise[c]
          /\ awaited' = Active
      BY <2>1, <3>2, RequestCloseAllEffect DEF Active, Released
    <3>4. Active' = Active /\ Opening' = {}
      BY <2>2, <3>1, <3>3 DEF Active, Released, Opening,
                              SetupInv, TypeOK
    <3>5. QED
      BY <1>4, <2>2, <3>3, <3>4 DEF CloserInv, TypeOK
  <2>5. QED  BY <2>3, <2>4
<1>5. CASE CloserDisconnects
  BY <1>5 DEF CloserDisconnects, TypeOK, SetupInv, CloserInv, Opening, Active,
              Released, Settled
<1>6. QED  BY <1>1, <1>2, <1>3, <1>4, <1>5 DEF Closer

(* Every step keeps the lifecycle invariant.                               *)
LEMMA LifecycleStep == LifecycleInv /\ [Next]_vars => LifecycleInv'
<1> SUFFICES ASSUME LifecycleInv, [Next]_vars PROVE LifecycleInv'
  OBVIOUS
<1>1. TypeOK'
  BY TypeStep DEF LifecycleInv
<1>2. CASE UNCHANGED vars
  BY <1>1, <1>2 DEF LifecycleInv, vars, sessionVars, socketVars, closerVars,
                    offerVars, hookVars, SetupInv, CloserInv, Opening, Active,
                    Released
<1>3. CASE Next
  BY <1>1, <1>3, ConnStep, CloserStep DEF LifecycleInv, Next
<1>4. QED  BY <1>2, <1>3

(* The invariant holds in every behaviour.                                 *)
LEMMA LifecycleCorrect == Spec => []LifecycleInv
<1>1. Init => SetupInv /\ CloserInv
  BY DEF Init, SetupInv, CloserInv, Opening, Active, Released
<1>2. Init => LifecycleInv
  BY <1>1, InitTypes DEF LifecycleInv
<1>3. QED  BY <1>2, LifecycleStep, PTL DEF Spec

(* close() disconnects the client only when every session was left, a run  *)
(* of its #close has settled and no #open can create another one.          *)
THEOREM DisconnectIsLast == Spec => []NothingSurvivesDisconnect
<1>1. LifecycleInv => NothingSurvivesDisconnect
  BY DEF LifecycleInv, CloserInv, NothingSurvivesDisconnect
<1>2. QED  BY <1>1, LifecycleCorrect, PTL

(* onSessionClosed never starts before onSessionCreated has ended.         *)
THEOREM HooksAreSequential == Spec => []HooksNeverOverlap
<1>1. LifecycleInv => HooksNeverOverlap
  BY DEF LifecycleInv, SetupInv, HooksNeverOverlap
<1>2. QED  BY <1>1, LifecycleCorrect, PTL

(* gateway.ready is never sent for a session that Vox closed during the    *)
(* hook, nor after close() was called.                                     *)
THEOREM ReadyIsTimely == Spec => NeverReadyTooLate
<1> DEFINE Timely == \A c \in Conns : ready'[c] # ready[c] =>
                        session[c] = "joined" /\ ~voxClosed[c] /\ ~shutdown
<1>1. LifecycleInv /\ [Next]_vars => [Timely]_vars
  <2> SUFFICES ASSUME LifecycleInv, Next PROVE Timely
    OBVIOUS
  <2> USE DEF sessionVars, socketVars, closerVars, offerVars, hookVars
  <2>1. ASSUME NEW c \in Conns, HookReturns(c), ~DeferredCloseReason(c)
        PROVE Timely
    <3>1. /\ phase[c] = "hook" /\ ~shutdown /\ ~pendingClose[c]
          /\ ready' = [ready EXCEPT ![c] = TRUE]
      BY <2>1 DEF HookReturns, DeferredCloseReason
    <3>2. session[c] = "joined" /\ ~voxClosed[c]
      BY <3>1 DEF LifecycleInv, SetupInv
    <3>3. \A d \in Conns \ {c} : ready'[d] = ready[d]
      BY <3>1 DEF LifecycleInv, TypeOK
    <3>4. QED  BY <3>1, <3>2, <3>3
  <2>2. ASSUME NEW c \in Conns, HookReturns(c), DeferredCloseReason(c)
        PROVE ready' = ready
    BY <2>2 DEF HookReturns
  <2>3. ASSUME NEW c \in Conns,
               Open(c) \/ Socket(c) \/ Signaling(c), ~HookReturns(c)
        PROVE ready' = ready
    BY <2>3 DEF Open, Socket, Signaling, CreateFails, CreateAborts,
                CreateSucceeds, HookThrows, OpenFinishes, CloseSettles,
                NestedSettles,
                Upgrade, BrowserLeaves, PeerVanishes, WsCloses, KeepAliveTick,
                Pong, HandleOffer, HandleCandidate, HandleRtcClose,
                ForwardReply, ForwardClosed
  <2>4. ASSUME GatewayClose \/ Closer \/ HookReenters
        PROVE ready' = ready
    BY <2>4 DEF GatewayClose, Closer, CloserAwaitsOpening, CloserClosesAgain,
                CloserDisconnects, HookReenters
  <2>5. QED  BY <2>1, <2>2, <2>3, <2>4 DEF Next
<1>2. QED  BY <1>1, LifecycleCorrect, PTL DEF Spec, NeverReadyTooLate

-----------------------------------------------------------------------------
(* Only hooks that call close() are ever found on the stack by it.         *)
OnceInv == stack \subseteq HookClosers /\ CleanupOnce

(* A #close of sessions that were not closed yet is their first one.       *)
LEMMA CloseBodyOnce ==
    ASSUME TypeOK, SetupInv, CleanupOnce, NEW T, NEW tell,
           CloseBody(T, tell),
           \A c \in T \ HookClosers : closePromise[c] = "none"
    PROVE  CleanupOnce'
<1> SUFFICES ASSUME NEW c \in Conns \ HookClosers
             PROVE  closeRuns'[c] = (IF session'[c] = "left" THEN 1 ELSE 0)
  BY DEF CleanupOnce
<1>1. /\ session'[c] = IF c \in T THEN "left" ELSE session[c]
      /\ closeRuns'[c] = IF c \in T THEN closeRuns[c] + 1 ELSE closeRuns[c]
  BY DEF CloseBody
<1>2. c \in T => closeRuns[c] = 0
  BY DEF SetupInv, CleanupOnce
<1>3. QED  BY <1>1, <1>2 DEF CleanupOnce

(* No step closes a session a second time, unless its hook calls close().  *)
LEMMA OnceStep ==
    ASSUME LifecycleInv, OnceInv, [Next]_vars
    PROVE  OnceInv'
<1> USE DEF sessionVars, socketVars, closerVars, offerVars, hookVars
<1> TypeOK /\ SetupInv /\ stack \subseteq HookClosers /\ CleanupOnce
  BY DEF LifecycleInv, OnceInv
<1>1. ASSUME NEW c \in Conns, CloseSession(c) PROVE OnceInv'
  <2>1. /\ CloseBody(Unclosed({c}), NotAsked(Unclosed({c})))
        /\ stack' \subseteq HookClosers
    BY <1>1 DEF CloseSession
  <2>2. \A d \in Unclosed({c}) : closePromise[d] = "none"
    BY DEF Unclosed
  <2>3. QED  BY <2>1, <2>2, CloseBodyOnce DEF OnceInv
<1>2. ASSUME NEW c \in Conns, ForwardClosed(c), ~setupPending[c] PROVE OnceInv'
  <2>1. /\ CloseBody({c}, {})
        /\ stack' \subseteq HookClosers
        /\ closePromise[c] = "none"
    BY <1>2 DEF ForwardClosed, Subscribed
  <2>2. QED  BY <2>1, CloseBodyOnce DEF OnceInv
<1>3. ASSUME NEW reentered \in SUBSET HookClosers,
             RequestCloseAll(reentered), stack' \subseteq HookClosers
      PROVE  OnceInv'
  <2> DEFINE due  == {c \in Active : ~setupPending[c]}
             runs == Unclosed(due) \cup (due \cap reentered)
  <2>1. CloseBody(runs, NotAsked(runs))
    BY <1>3 DEF RequestCloseAll
  <2>2. \A d \in runs \ HookClosers : closePromise[d] = "none"
    BY <1>3 DEF Unclosed
  <2>3. QED  BY <1>3, <2>1, <2>2, CloseBodyOnce DEF OnceInv
<1>4. ASSUME UNCHANGED <<closeRuns, stack>>,
             \A c \in Conns : session'[c] = "left" <=> session[c] = "left"
      PROVE  OnceInv'
  BY <1>4 DEF OnceInv, CleanupOnce
<1>5. ASSUME NEW c \in Conns, Open(c) PROVE OnceInv'
  <2>1. CASE CreateSucceeds(c)
    BY <1>4, <2>1 DEF CreateSucceeds, SetupInv, TypeOK
  <2>2. CASE HookReturns(c) /\ ~DeferredCloseReason(c)
    BY <1>4, <2>2 DEF HookReturns
  <2>3. CASE CreateFails(c) \/ OpenFinishes(c) \/ CloseSettles(c)
                \/ NestedSettles(c)
    BY <1>4, <2>3 DEF CreateFails, OpenFinishes, CloseSettles, NestedSettles
  <2>4. CASE CreateAborts(c) \/ HookThrows(c)
                \/ (HookReturns(c) /\ DeferredCloseReason(c))
    BY <1>1, <2>4 DEF CreateAborts, HookThrows, HookReturns
  <2>5. QED  BY <1>5, <2>1, <2>2, <2>3, <2>4 DEF Open
<1>6. ASSUME NEW c \in Conns, Socket(c) PROVE OnceInv'
  <2>1. CASE WsCloses(c) /\ CloseSession(c)
    BY <1>1, <2>1
  <2>2. CASE WsCloses(c) /\ ~CloseSession(c)
    BY <1>4, <2>2 DEF WsCloses, RequestClose
  <2>3. CASE Upgrade(c) \/ BrowserLeaves(c) \/ PeerVanishes(c)
                \/ KeepAliveTick(c) \/ Pong(c)
    BY <1>4, <2>3 DEF Upgrade, BrowserLeaves, PeerVanishes, KeepAliveTick,
                      Pong
  <2>4. QED  BY <1>6, <2>1, <2>2, <2>3 DEF Socket
<1>7. ASSUME NEW c \in Conns, Signaling(c) PROVE OnceInv'
  <2>1. CASE ForwardClosed(c) /\ setupPending[c]
    BY <1>4, <2>1 DEF ForwardClosed
  <2>2. CASE HandleRtcClose(c) \/ ForwardReply(c)
    BY <1>4, <2>2 DEF HandleRtcClose, ForwardReply
  <2>3. CASE \/ \E id \in OfferIds, g \in Generations : HandleOffer(c, id, g)
             \/ \E g \in Generations : HandleCandidate(c, g)
    BY <1>4, <2>3 DEF HandleOffer, HandleCandidate
  <2>4. QED  BY <1>2, <1>7, <2>1, <2>2, <2>3 DEF Signaling
<1>8. CASE GatewayClose
  BY <1>3, <1>8 DEF GatewayClose
<1>9. CASE Closer
  <2>1. CASE CloserAwaitsOpening \/ CloserDisconnects
    BY <1>4, <2>1 DEF CloserAwaitsOpening, CloserDisconnects
  <2>2. CASE CloserClosesAgain
    BY <1>3, <2>2 DEF CloserClosesAgain
  <2>3. QED  BY <1>9, <2>1, <2>2 DEF Closer
<1>10. CASE UNCHANGED vars
  BY <1>4, <1>10 DEF vars
<1>11. CASE HookReenters
  BY <1>3, <1>11 DEF HookReenters
<1>12. QED
  BY <1>5, <1>6, <1>7, <1>8, <1>9, <1>10, <1>11 DEF Next

(* Whoever ends a session and however often, also a close() called by the  *)
(* hook of another session, its cleanup and closed hook run exactly once,  *)
(* unless its own hook calls close() before it returns.                    *)
THEOREM CleanupRunsOnce == Spec => []CleanupOnce
<1>1. Init => OnceInv
  BY DEF Init, OnceInv, CleanupOnce
<1>2. OnceInv => CleanupOnce
  BY DEF OnceInv
<1>3. LifecycleInv /\ OnceInv /\ [Next]_vars => OnceInv'
  BY OnceStep
<1>4. QED  BY <1>1, <1>2, <1>3, LifecycleCorrect, PTL DEF Spec

-----------------------------------------------------------------------------
(* The gateway implements the contract.  Lasting says that what the        *)
(* contract sees of the sessions never goes back, Final that the last step *)
(* of close() changes nothing but its own position and that nothing        *)
(* happens to a session after it.                                          *)
Lasting ==
    /\ shutdown => shutdown'
    /\ \A c \in Conns :
          /\ session[c] # "none" => session'[c] # "none"
          /\ c \in Released => c \in Released'
          /\ ready[c] => ready'[c]
          /\ ready'[c] /\ ~ready[c] =>
                ~shutdown /\ session'[c] = "joined"

Final ==
    /\ closer = "done" => /\ closer' = "done" /\ shutdown'
                          /\ UNCHANGED <<session, ready>>
                          /\ Released' \subseteq Released
    /\ closer # "done" /\ closer' = "done" =>
          /\ shutdown /\ Active = {}
          /\ UNCHANGED <<session, closePromise, nested, ready>>

(* No step of a connection takes back what the contract saw of it, or      *)
(* changes anything once the client is disconnected.                       *)
LEMMA ConnLasts ==
    ASSUME LifecycleInv, stack = {}, NEW c \in Conns,
           Open(c) \/ Socket(c) \/ Signaling(c)
    PROVE  Lasting /\ Final
<1> USE DEF sessionVars, socketVars, closerVars, offerVars, hookVars
<1> TypeOK /\ SetupInv /\ CloserInv
  BY DEF LifecycleInv
<1>1. ASSUME CloseSession(c), UNCHANGED <<ready, closerVars>>,
             closer = "done" => session[c] = "left"
      PROVE  Lasting /\ Final
  <2>1. /\ session' = [session EXCEPT ![c] = "left"]
        /\ closePromise' = [closePromise EXCEPT ![c] =
                               IF @ = "none" THEN "running" ELSE @]
        /\ nested' = nested
    BY <1>1, CloseSessionEffect
  <2>2. Lasting
    BY <1>1, <2>1 DEF Lasting, Released, TypeOK
  <2>3. Final
    <3>1. ASSUME closer = "done"
          PROVE  session' = session /\ closePromise' = closePromise
      BY <1>1, <2>1, <3>1 DEF TypeOK, SetupInv
    <3>2. QED  BY <1>1, <2>1, <3>1 DEF Final, Released, CloserInv
  <2>4. QED  BY <2>2, <2>3
<1>2. ASSUME UNCHANGED <<session, closePromise, nested, ready, closerVars>>
      PROVE  Lasting /\ Final
  BY <1>2 DEF Lasting, Final, Released, CloserInv
<1>3. closer = "done" => /\ phase[c] \notin {"creating", "hook", "closing"}
                         /\ session[c] # "joined"
                         /\ session[c] # "none" => c \in Released
  BY DEF CloserInv, SetupInv, Opening, Active, Released, TypeOK
<1>4. CASE Open(c)
  <2>1. CASE CreateAborts(c) \/ HookThrows(c)
                \/ (HookReturns(c) /\ DeferredCloseReason(c))
    BY <1>1, <1>3, <2>1 DEF CreateAborts, HookThrows, HookReturns
  <2>2. CASE CreateFails(c) \/ OpenFinishes(c)
    BY <1>2, <2>2 DEF CreateFails, OpenFinishes
  <2>3. CASE CreateSucceeds(c)
    <3>1. /\ closer # "done"
          /\ UNCHANGED <<closePromise, nested, ready, closerVars>>
          /\ session' = [session EXCEPT ![c] = "joined"]
      BY <1>3, <2>3 DEF CreateSucceeds
    <3>2. QED  BY <3>1 DEF Lasting, Final, Released, TypeOK
  <2>4. CASE CloseSettles(c) \/ NestedSettles(c)
    <3>1. UNCHANGED <<session, ready, closerVars>> /\ session[c] # "none"
      BY <2>4 DEF CloseSettles, NestedSettles, SetupInv, TypeOK
    <3>2. Released' = Released \cup {c}
      BY <2>4 DEF CloseSettles, NestedSettles, Released, TypeOK
    <3>3. QED  BY <1>3, <3>1, <3>2 DEF Lasting, Final, CloserInv
  <2>5. CASE HookReturns(c) /\ ~DeferredCloseReason(c)
    <3>1. /\ closer # "done"
          /\ UNCHANGED <<session, closePromise, nested, closerVars>>
          /\ ready' = [ready EXCEPT ![c] = TRUE]
          /\ ~shutdown /\ session[c] = "joined"
      BY <1>3, <2>5 DEF HookReturns, DeferredCloseReason, SetupInv
    <3>2. QED  BY <3>1 DEF Lasting, Final, Released, TypeOK
  <2>6. QED  BY <1>4, <2>1, <2>2, <2>3, <2>4, <2>5 DEF Open
<1>5. CASE Socket(c)
  <2>1. CASE WsCloses(c) /\ CloseSession(c) /\ session[c] # "none"
    <3>1. UNCHANGED <<ready, closerVars>>
      BY <2>1 DEF WsCloses
    <3>2. closer = "done" => session[c] = "left"
      BY <1>3, <2>1 DEF TypeOK
    <3>3. QED  BY <1>1, <2>1, <3>1, <3>2
  <2>2. CASE WsCloses(c) /\ ~(CloseSession(c) /\ session[c] # "none")
    BY <1>2, <2>2 DEF WsCloses, RequestClose
  <2>3. CASE Upgrade(c) \/ BrowserLeaves(c) \/ PeerVanishes(c)
                \/ KeepAliveTick(c) \/ Pong(c)
    BY <1>2, <2>3 DEF Upgrade, BrowserLeaves, PeerVanishes, KeepAliveTick,
                      Pong
  <2>4. QED  BY <1>5, <2>1, <2>2, <2>3 DEF Socket
<1>6. CASE Signaling(c)
  <2>1. CASE ForwardClosed(c) /\ setupPending[c]
    BY <1>2, <2>1 DEF ForwardClosed
  <2>2. CASE ForwardClosed(c) /\ ~setupPending[c]
    <3>1. /\ UNCHANGED <<nested, ready, closerVars>>
          /\ session[c] = "joined" /\ closePromise[c] = "none"
          /\ session' = [session EXCEPT ![c] = "left"]
          /\ closePromise' = [closePromise EXCEPT ![c] = "running"]
      BY <2>2 DEF ForwardClosed, Subscribed, CloseBody, SetupInv, TypeOK
    <3>2. closer # "done"
      BY <1>3, <3>1
    <3>3. QED  BY <3>1, <3>2 DEF Lasting, Final, Released, TypeOK
  <2>3. CASE HandleRtcClose(c) \/ ForwardReply(c)
    BY <1>2, <2>3 DEF HandleRtcClose, ForwardReply
  <2>4. CASE \/ \E id \in OfferIds, g \in Generations : HandleOffer(c, id, g)
             \/ \E g \in Generations : HandleCandidate(c, g)
    BY <1>2, <2>4 DEF HandleOffer, HandleCandidate
  <2>5. QED  BY <1>6, <2>1, <2>2, <2>3, <2>4 DEF Signaling
<1>7. QED  BY <1>4, <1>5, <1>6

(* Neither does a step of close(), whose last one is the disconnect.       *)
LEMMA CloserLasts ==
    ASSUME LifecycleInv, \/ stack = {} /\ (GatewayClose \/ Closer)
                         \/ HookReenters
    PROVE  Lasting /\ Final
<1> USE DEF sessionVars, socketVars, closerVars, offerVars, hookVars
<1> TypeOK /\ SetupInv /\ CloserInv
  BY DEF LifecycleInv
<1>1. ASSUME NEW S, RequestCloseAll(S), ready' = ready, closer # "done",
             \A c \in S : closePromise[c] = "running",
             \A c \in Released : nested'[c] = nested[c],
             closer' # "done", shutdown'
      PROVE  Lasting /\ Final
  <2>1. \A c \in Released : closePromise'[c] = closePromise[c]
    <3>1. \A c \in Conns : closePromise'[c] =
              IF session[c] = "joined" /\ ~setupPending[c] THEN "running"
              ELSE closePromise[c]
      BY <1>1, RequestCloseAllEffect
    <3>2. \A c \in Released : c \in Conns /\ session[c] = "left"
      BY DEF Released, SetupInv, TypeOK
    <3>3. QED  BY <3>1, <3>2
  <2>2. Released \subseteq Released'
    BY <1>1, <2>1 DEF Released
  <2>3. \A c \in Conns : session[c] # "none" => session'[c] # "none"
    BY <1>1, RequestCloseAllEffect
  <2>4. QED  BY <1>1, <2>2, <2>3 DEF Lasting, Final
<1>2. CASE GatewayClose
  BY <1>1, <1>2 DEF GatewayClose
<1>3. CASE HookReenters
  <2>1. \A c \in Released : nested'[c] = nested[c]
    BY <1>3 DEF HookReenters, CloserInv, Released
  <2>2. QED  BY <1>1, <1>3, <2>1 DEF HookReenters, CloserInv
<1>4. CASE CloserClosesAgain
  BY <1>1, <1>4 DEF CloserClosesAgain, CloserInv
<1>5. CASE CloserAwaitsOpening
  BY <1>5 DEF CloserAwaitsOpening, Lasting, Final, Released
<1>6. CASE CloserDisconnects
  BY <1>6 DEF CloserDisconnects, Lasting, Final, CloserInv, Active, Released,
              Settled
<1>7. QED  BY <1>2, <1>3, <1>4, <1>5, <1>6 DEF Closer

(* A connection is admitted before close() is called, and for good.        *)
Admission ==
    \A c \in Conns :
        /\ phase[c] \notin {"idle", "rejected"} =>
              phase'[c] \notin {"idle", "rejected"}
        /\ /\ phase[c] \in {"idle", "rejected"}
           /\ phase'[c] \notin {"idle", "rejected"}
           => ~shutdown

(* Only Upgrade admits, and it looks at the shutdown.                      *)
LEMMA AdmitsInTime ==
    ASSUME LifecycleInv, [Next]_vars
    PROVE  Admission
<1> USE DEF sessionVars, socketVars, closerVars, offerVars, hookVars
<1> phase \in [Conns -> {"idle", "rejected", "creating", "hook", "closing",
                         "done"}]
  BY DEF LifecycleInv, TypeOK
<1>1. ASSUME NEW c \in Conns, NEW p \in {"hook", "closing", "done"},
             phase[c] \in {"creating", "hook", "closing"},
             phase' = [phase EXCEPT ![c] = p]
      PROVE  Admission
  BY <1>1 DEF Admission
<1>2. ASSUME phase' = phase PROVE Admission
  BY <1>2 DEF Admission
<1>3. ASSUME NEW c \in Conns, Open(c) PROVE Admission
  <2>1. CASE CreateFails(c) \/ CreateAborts(c) \/ CreateSucceeds(c)
    BY <1>1, <2>1 DEF CreateFails, CreateAborts, CreateSucceeds
  <2>2. CASE HookThrows(c) \/ HookReturns(c) \/ OpenFinishes(c)
    BY <1>1, <2>2 DEF HookThrows, HookReturns, OpenFinishes
  <2>3. CASE CloseSettles(c) \/ NestedSettles(c)
    BY <1>2, <2>3 DEF CloseSettles, NestedSettles
  <2>4. QED  BY <1>3, <2>1, <2>2, <2>3 DEF Open
<1>4. ASSUME NEW c \in Conns, Socket(c) PROVE Admission
  <2>1. CASE Upgrade(c)
    BY <2>1 DEF Upgrade, Admission
  <2>2. CASE WsCloses(c) \/ BrowserLeaves(c) \/ PeerVanishes(c)
             \/ KeepAliveTick(c) \/ Pong(c)
    BY <1>2, <2>2 DEF WsCloses, BrowserLeaves, PeerVanishes, KeepAliveTick,
                      Pong
  <2>3. QED  BY <1>4, <2>1, <2>2 DEF Socket
<1>5. ASSUME NEW c \in Conns, Signaling(c) PROVE Admission
  BY <1>2, <1>5 DEF Signaling, ForwardClosed, HandleRtcClose, ForwardReply,
                    HandleOffer, HandleCandidate
<1>6. CASE GatewayClose \/ Closer \/ HookReenters \/ UNCHANGED vars
  BY <1>2, <1>6 DEF GatewayClose, Closer, HookReenters, CloserClosesAgain,
                    CloserAwaitsOpening, CloserDisconnects, vars
<1>7. QED  BY <1>3, <1>4, <1>5, <1>6 DEF Next

(* Every step of the gateway is one of the contract or changes nothing     *)
(* that the contract sees.                                                 *)
LEMMA ContractStep ==
    ASSUME LifecycleInv, LifecycleInv', [Next]_vars
    PROVE  [Contract!Next]_(Contract!contractVars)
<1> DEFINE opened    == {c \in Conns : session[c] # "none"}
           announced == {c \in Conns : ready[c]}
           closed    == Released
<1> SUFFICES Contract!Next \/ UNCHANGED Contract!contractVars
  BY DEF Contract!contractVars
<1>1. CASE UNCHANGED vars
  BY <1>1 DEF vars, sessionVars, socketVars, closerVars, offerVars, hookVars,
              Released, Contract!contractVars
<1>2. CASE Next
  <2>1. Lasting /\ Final
    BY <1>2, ConnLasts, CloserLasts DEF Next
  <2>2. CASE closer = "done"
    <3>1. closed' = closed
      BY <2>1, <2>2 DEF Lasting, Final, Released
    <3>2. QED  BY <2>1, <2>2, <3>1 DEF Final, Contract!contractVars
  <2>3. CASE closer # "done" /\ closer' = "done"
    <3>1. opened = closed
      BY <2>1, <2>3, ZenonT(60)
      DEF Final, Active, Released, LifecycleInv, SetupInv, TypeOK
    <3>2. shutdown /\ UNCHANGED <<session, ready>> /\ closed' = closed
      BY <2>1, <2>3 DEF Final, Released
    <3>3. Contract!Disconnect
      BY <2>3, <3>1, <3>2 DEF Contract!Disconnect
    <3>4. QED  BY <3>3 DEF Contract!Next
  <2>4. CASE closer # "done" /\ closer' # "done"
    <3>1. opened \subseteq opened' /\ closed \subseteq closed'
          /\ announced \subseteq announced'
      BY <2>1 DEF Lasting, Released
    <3>2. closed' \subseteq opened'
      BY DEF LifecycleInv, SetupInv, Released
    <3>3. announced' \ announced \subseteq
             (IF shutdown THEN {} ELSE opened' \ closed')
      BY <2>1 DEF Lasting, LifecycleInv, SetupInv, Released
    <3>4. Contract!Progress
      BY <2>1, <2>4, <3>1, <3>2, <3>3 DEF Contract!Progress, Lasting
    <3>5. QED  BY <3>4 DEF Contract!Next
  <2>5. QED  BY <2>2, <2>3, <2>4
<1>3. QED  BY <1>1, <1>2

(* The same for the contract of the shutdown.                              *)
LEMMA DrainStep ==
    ASSUME LifecycleInv, LifecycleInv', [Next]_vars
    PROVE  [Drain!Next]_(Drain!drainVars)
<1> DEFINE admitted == {c \in Conns : phase[c] \notin {"idle", "rejected"}}
           opened   == {c \in Conns : session[c] # "none"}
           closed   == Released
<1> SUFFICES Drain!Next \/ UNCHANGED Drain!drainVars
  BY DEF Drain!drainVars
<1>1. CASE UNCHANGED vars
  BY <1>1 DEF vars, sessionVars, socketVars, closerVars, offerVars, hookVars,
              Released, Drain!drainVars
<1>2. CASE Next
  <2>1. Lasting /\ Final
    BY <1>2, ConnLasts, CloserLasts DEF Next
  <2>2. admitted \subseteq admitted' /\ (shutdown => admitted' = admitted)
    BY AdmitsInTime DEF Admission
  <2>3. closer = "done" => shutdown
    BY DEF LifecycleInv, CloserInv
  <2>4. CASE closer = "done"
    <3>1. closed' = closed /\ opened' = opened
      BY <2>1, <2>4 DEF Lasting, Final, Released
    <3>2. closer' = "done" /\ admitted' = admitted
      BY <2>1, <2>2, <2>3, <2>4 DEF Final
    <3>3. QED  BY <2>4, <3>1, <3>2 DEF Drain!drainVars
  <2>5. CASE closer # "done" /\ closer' = "done"
    <3>1. opened = closed
      BY <2>1, <2>5, ZenonT(60)
      DEF Final, Active, Released, LifecycleInv, SetupInv, TypeOK
    <3>2. shutdown /\ closed' = closed /\ opened' = opened
      BY <2>1, <2>5 DEF Final, Released
    <3>3. Drain!Disconnect
      BY <2>2, <2>5, <3>1, <3>2 DEF Drain!Disconnect
    <3>4. QED  BY <3>3 DEF Drain!Next
  <2>6. CASE closer # "done" /\ closer' # "done"
    <3>1. opened \subseteq opened' /\ closed \subseteq closed'
      BY <2>1 DEF Lasting, Released
    <3>2. closed' \subseteq opened' /\ opened' \subseteq admitted'
      BY DEF LifecycleInv, SetupInv, Released
    <3>3. shutdown => shutdown'
      BY <2>1 DEF Lasting
    <3>4. Drain!Progress
      BY <2>2, <2>6, <3>1, <3>2, <3>3 DEF Drain!Progress, LifecycleInv, TypeOK
    <3>5. QED  BY <3>4 DEF Drain!Next
  <2>7. QED  BY <2>4, <2>5, <2>6
<1>3. QED  BY <1>1, <1>2

(* Every behaviour of the gateway is one of the contracts: sessions are    *)
(* only opened while the client is connected, of connections admitted      *)
(* before close(), what is closed stays closed, and the disconnect comes   *)
(* when every opened session has been closed.                              *)
THEOREM ImplementsContract == Spec => ContractSpec
<1>1. Init => Contract!Init /\ Drain!Init
  BY DEF Init, Contract!Init, Drain!Init, Released
<1>2. LifecycleInv /\ LifecycleInv' /\ [Next]_vars
         => [Contract!Next]_(Contract!contractVars)
  BY ContractStep
<1>3. LifecycleInv /\ LifecycleInv' /\ [Next]_vars
         => [Drain!Next]_(Drain!drainVars)
  BY DrainStep
<1>4. QED
  BY <1>1, <1>2, <1>3, LifecycleCorrect, PTL
  DEF Spec, ContractSpec, Contract!Spec, Drain!Spec

-----------------------------------------------------------------------------
(* What the gateway relays between the browsers and Vox.                   *)

(* What the gateway remembers of the commands is what Vox was told, as     *)
(* long as the channel has not been left.                                  *)
CommandOf(c) ==
    /\ <<TRUE, "absent">> \notin candidatesAtVox[c]
    /\ session[c] # "left" => generatedOffer[c] = voxGenerated[c]
    /\ rtcCloses[c] <= 1
    /\ rtcCloses[c] = 1 => rtcCloseRequested[c]
    /\ rtcCloses[c] = 1 /\ session[c] # "left" => browserAskedClose[c]

(* The pending offer is the one Vox has.                                   *)
SlotOf(c) ==
    session[c] # "left" =>
        atVox[c] = IF pendingOfferId[c] = NoOffer THEN <<>>
                   ELSE <<pendingOfferId[c]>>

(* The request ids the gateway knows were sent, and an offer that was      *)
(* refused is neither pending nor answered.                                *)
ReplyOf(c) ==
    /\ pendingOfferId[c] \in (sent[c] \ errors[c]) \cup {NoOffer}
    /\ errors[c] \subseteq sent[c]
    /\ \A r \in replies[c] : r[1] = r[2] /\ r[1] \in sent[c] \ errors[c]

SignalingInv == \A c \in Conns : CommandOf(c) /\ SlotOf(c) /\ ReplyOf(c)

(* A session may be left, and then Vox may be told rtc.close, unless it    *)
(* was asked for before.                                                   *)
Leaves(c) ==
    /\ rtcCloseRequested[c] => rtcCloseRequested'[c]
    /\ session'[c] # "left" => session[c] # "left"
    /\ \/ rtcCloses'[c] = rtcCloses[c]
       \/ /\ session'[c] = "left"
          /\ ~rtcCloseRequested[c] /\ rtcCloseRequested'[c]
          /\ rtcCloses'[c] = rtcCloses[c] + 1

-----------------------------------------------------------------------------
(* Lemma: so does the body of #close, whoever calls it.                    *)
LEMMA CloseBodyLeaves ==
    ASSUME TypeOK, NEW T, NEW tell, tell \subseteq NotAsked(T),
           CloseBody(T, tell), NEW c \in Conns
    PROVE  Leaves(c)
<1>1. PICK told \in SUBSET tell :
          rtcCloses' = [d \in Conns |-> IF d \in told THEN rtcCloses[d] + 1
                                        ELSE rtcCloses[d]]
  BY DEF CloseBody
<1>2. c \in told => c \in T /\ ~rtcCloseRequested[c]
  BY <1>1 DEF NotAsked
<1>3. /\ session'[c] = IF c \in T THEN "left" ELSE session[c]
      /\ rtcCloseRequested'[c] = (c \in T \/ rtcCloseRequested[c])
  BY DEF CloseBody
<1> QED
  BY <1>1, <1>2, <1>3 DEF Leaves

(* Lemma: #close, #requestClose and closeActive.                           *)
LEMMA CloseLeaves ==
    ASSUME TypeOK, NEW d \in Conns, NEW S, NEW c \in Conns,
           CloseSession(d) \/ RequestClose(d) \/ RequestCloseAll(S)
    PROVE  Leaves(c)
<1>1. CASE CloseSession(d)
  BY <1>1, CloseBodyLeaves DEF CloseSession
<1>2. CASE RequestClose(d)
  <2>1. CASE UNCHANGED <<session, rtcCloseRequested, rtcCloses>>
    BY <2>1 DEF Leaves
  <2> QED
    BY <1>1, <1>2, <2>1, CloseBodyLeaves DEF RequestClose, CloseSession
<1>3. CASE RequestCloseAll(S)
  BY <1>3, CloseBodyLeaves DEF RequestCloseAll
<1> QED
  BY <1>1, <1>2, <1>3

(* Lemma: setup, sockets, Vox's close and close() leave the offers alone.  *)
LEMMA OtherStepsLeave ==
    ASSUME TypeOK, SetupInv, [Next]_vars, NEW c \in Conns
    PROVE  \/ UNCHANGED offerVars /\ Leaves(c)
           \/ \E d \in Conns :
                 \/ \E id \in OfferIds, g \in Generations : HandleOffer(d, id, g)
                 \/ \E g \in Generations : HandleCandidate(d, g)
                 \/ HandleRtcClose(d) \/ ForwardReply(d)
<1> DEFINE Same == UNCHANGED <<offerVars, session, rtcCloseRequested, rtcCloses>>
<1>1. Same => UNCHANGED offerVars /\ Leaves(c)
  BY DEF Leaves
<1>2. CASE UNCHANGED vars
  BY <1>1, <1>2 DEF vars, sessionVars
<1>3. ASSUME NEW d \in Conns, Open(d)
      PROVE  UNCHANGED offerVars /\ Leaves(c)
  <2>1. CASE CreateFails(d) \/ OpenFinishes(d) \/ CloseSettles(d)
                \/ NestedSettles(d)
    BY <1>1, <2>1 DEF CreateFails, OpenFinishes, CloseSettles, NestedSettles,
                      sessionVars
  <2>2. CASE CreateSucceeds(d)
    <3>1. session[d] # "left"
      BY <2>2 DEF CreateSucceeds, SetupInv
    <3> QED
      BY <2>2, <3>1 DEF CreateSucceeds, Leaves, TypeOK
  <2>3. CASE CreateAborts(d) \/ HookThrows(d)
    BY <2>3, CloseLeaves DEF CreateAborts, HookThrows
  <2>4. CASE HookReturns(d)
    BY <1>1, <2>4, CloseLeaves DEF HookReturns
  <2> QED
    BY <1>3, <2>1, <2>2, <2>3, <2>4 DEF Open
<1>4. ASSUME NEW d \in Conns, Socket(d)
      PROVE  UNCHANGED offerVars /\ Leaves(c)
  <2>1. CASE WsCloses(d)
    BY <1>1, <2>1, CloseLeaves DEF WsCloses
  <2> QED
    BY <1>1, <1>4, <2>1 DEF Socket, Upgrade, BrowserLeaves, PeerVanishes,
                            KeepAliveTick, Pong, sessionVars
<1>5. ASSUME NEW d \in Conns, ForwardClosed(d)
      PROVE  UNCHANGED offerVars /\ Leaves(c)
  <2>1. CASE setupPending[d]
    <3>1. /\ rtcCloseRequested' = [rtcCloseRequested EXCEPT ![d] = TRUE]
          /\ UNCHANGED <<session, rtcCloses, offerVars>>
      BY <1>5, <2>1 DEF ForwardClosed
    <3> QED
      BY <3>1 DEF Leaves, TypeOK
  <2>2. CASE ~setupPending[d]
    <3>1. {} \subseteq NotAsked({d})
      OBVIOUS
    <3> QED
      BY <1>5, <2>2, <3>1, CloseBodyLeaves DEF ForwardClosed
  <2> QED
    BY <2>1, <2>2
<1>6. CASE GatewayClose \/ HookReenters \/ Closer
  BY <1>1, <1>6, CloseLeaves DEF GatewayClose, HookReenters, Closer,
     CloserAwaitsOpening, CloserClosesAgain, CloserDisconnects, sessionVars
<1> QED
  BY <1>2, <1>3, <1>4, <1>5, <1>6 DEF Next, Signaling

(* Lemma: an offer is forwarded into an empty slot, or refused under an id *)
(* that is new.                                                            *)
LEMMA OfferKeepsSignaling ==
    ASSUME TypeOK, NEW c \in Conns, NEW id \in OfferIds, NEW g \in Generations,
           HandleOffer(c, id, g), CommandOf(c), SlotOf(c), ReplyOf(c)
    PROVE  CommandOf(c)' /\ SlotOf(c)' /\ ReplyOf(c)'
<1>1. /\ id \notin sent[c] /\ id # NoOffer /\ pendingOfferId[c] # id
      /\ sent'[c] = sent[c] \cup {id}
      /\ UNCHANGED <<session, rtcCloses, rtcCloseRequested, browserAskedClose,
                     candidatesAtVox, replies>>
  BY ConstantsAssumption DEF HandleOffer, ReplyOf, TypeOK, sessionVars
<1>2. CASE ForwardOffer(c, id, g) /\ OfferSlotFree(c)
  <2>1. /\ pendingOfferId[c] = NoOffer /\ pendingOfferId'[c] = id
        /\ errors' = errors
    BY <1>2 DEF ForwardOffer, OfferSlotFree, TypeOK
  <2>2. session[c] # "left" => /\ generatedOffer'[c] = voxGenerated'[c]
                               /\ atVox'[c] = Append(atVox[c], id)
    BY <1>2 DEF ForwardOffer, TypeOK
  <2>3. session[c] # "left" => atVox'[c] = <<id>>
    BY <2>1, <2>2 DEF SlotOf
  <2>4. CommandOf(c)'
    BY <1>1, <2>2 DEF CommandOf
  <2>5. SlotOf(c)'
    BY <1>1, <2>1, <2>3 DEF SlotOf
  <2>6. ReplyOf(c)'
    BY <1>1, <2>1 DEF ReplyOf
  <2> QED
    BY <2>4, <2>5, <2>6
<1>3. CASE RejectOffer(c, id)
  <2>1. /\ pendingOfferId'[c] = pendingOfferId[c]
        /\ UNCHANGED <<generatedOffer, atVox, voxGenerated>>
        /\ errors'[c] = errors[c] \/ errors'[c] = errors[c] \cup {id}
    BY <1>1, <1>3 DEF RejectOffer, TypeOK
  <2>2. CommandOf(c)' /\ SlotOf(c)'
    BY <1>1, <2>1 DEF CommandOf, SlotOf
  <2>3. ReplyOf(c)'
    BY <1>1, <2>1 DEF ReplyOf
  <2> QED
    BY <2>2, <2>3
<1> QED
  BY <1>2, <1>3 DEF HandleOffer

(* Lemma: Vox's reply empties the slot and carries its id.                 *)
LEMMA ReplyKeepsSignaling ==
    ASSUME TypeOK, SetupInv, NEW c \in Conns, ForwardReply(c), CommandOf(c),
           SlotOf(c), ReplyOf(c)
    PROVE  CommandOf(c)' /\ SlotOf(c)' /\ ReplyOf(c)'
<1>1. /\ session[c] # "left" /\ atVox[c] # <<>>
      /\ atVox'[c] = Tail(atVox[c]) /\ pendingOfferId'[c] = NoOffer
      /\ \/ replies'[c] = replies[c]
         \/ replies'[c] = replies[c]
               \cup {<<Head(atVox[c]), pendingOfferId[c]>>}
      /\ UNCHANGED <<session, rtcCloses, rtcCloseRequested, browserAskedClose,
                     candidatesAtVox, generatedOffer, voxGenerated, sent,
                     errors>>
  BY DEF ForwardReply, Subscribed, SetupInv, TypeOK, sessionVars
<1>2. pendingOfferId[c] # NoOffer /\ atVox[c] = <<pendingOfferId[c]>>
  BY <1>1 DEF SlotOf
<1>3. Head(atVox[c]) = pendingOfferId[c] /\ atVox'[c] = <<>>
  BY <1>1, <1>2
<1>4. CommandOf(c)' /\ SlotOf(c)'
  BY <1>1, <1>3 DEF CommandOf, SlotOf
<1>5. ReplyOf(c)'
  BY <1>1, <1>2, <1>3 DEF ReplyOf
<1> QED
  BY <1>4, <1>5

(* Lemma: candidates and rtc.close of the browser.                         *)
LEMMA CommandKeepsSignaling ==
    ASSUME TypeOK, NEW c \in Conns,
           HandleRtcClose(c) \/ \E g \in Generations : HandleCandidate(c, g),
           CommandOf(c), SlotOf(c), ReplyOf(c)
    PROVE  CommandOf(c)' /\ SlotOf(c)' /\ ReplyOf(c)'
<1>1. UNCHANGED <<session, atVox, pendingOfferId, sent, errors, replies,
                  generatedOffer, voxGenerated>>
  BY DEF HandleRtcClose, HandleCandidate, sessionVars
<1>2. SlotOf(c)' /\ ReplyOf(c)'
  BY <1>1 DEF SlotOf, ReplyOf
<1>3. CASE HandleRtcClose(c)
  <2>1. /\ browserAskedClose'[c] /\ rtcCloseRequested'[c] /\ ~browserAskedClose[c]
        /\ UNCHANGED candidatesAtVox
        /\ \/ rtcCloses'[c] = rtcCloses[c]
           \/ rtcCloses'[c] = rtcCloses[c] + 1 /\ session[c] = "joined"
    BY <1>3 DEF HandleRtcClose, TypeOK
  <2>2. rtcCloses[c] \in Nat
    BY DEF TypeOK
  <2> QED
    BY <1>1, <1>2, <2>1, <2>2 DEF CommandOf
<1>4. ASSUME NEW g \in Generations, HandleCandidate(c, g)
      PROVE  CommandOf(c)'
  <2>1. /\ candidatesAtVox'[c] = candidatesAtVox[c] \cup {<<voxGenerated[c], g>>}
        /\ UNCHANGED <<rtcCloses, rtcCloseRequested, browserAskedClose>>
    BY <1>4 DEF HandleCandidate, TypeOK, sessionVars
  <2>2. <<TRUE, "absent">> # <<voxGenerated[c], g>>
    BY <1>4 DEF HandleCandidate, CommandOf
  <2> QED
    BY <1>1, <2>1, <2>2 DEF CommandOf
<1> QED
  BY <1>2, <1>3, <1>4

(* Lemma: signaling of one connection does not touch another's.            *)
LEMMA SignalingFrame ==
    ASSUME TypeOK, NEW c \in Conns, NEW d \in Conns \ {c},
           \/ \E id \in OfferIds, g \in Generations : HandleOffer(c, id, g)
           \/ \E g \in Generations : HandleCandidate(c, g)
           \/ HandleRtcClose(c) \/ ForwardReply(c),
           CommandOf(d), SlotOf(d), ReplyOf(d)
    PROVE  CommandOf(d)' /\ SlotOf(d)' /\ ReplyOf(d)'
<1>1. /\ session'[d] = session[d] /\ atVox'[d] = atVox[d]
      /\ pendingOfferId'[d] = pendingOfferId[d] /\ sent'[d] = sent[d]
      /\ errors'[d] = errors[d] /\ replies'[d] = replies[d]
      /\ generatedOffer'[d] = generatedOffer[d]
      /\ voxGenerated'[d] = voxGenerated[d]
      /\ candidatesAtVox'[d] = candidatesAtVox[d]
      /\ rtcCloses'[d] = rtcCloses[d]
      /\ rtcCloseRequested'[d] = rtcCloseRequested[d]
      /\ browserAskedClose'[d] = browserAskedClose[d]
  BY DEF HandleOffer, ForwardOffer, RejectOffer, HandleCandidate,
         HandleRtcClose, ForwardReply, TypeOK, sessionVars
<1> QED
  BY <1>1 DEF CommandOf, SlotOf, ReplyOf

-----------------------------------------------------------------------------
(* The gateway's memory of offers and commands agrees with Vox.            *)
THEOREM SignalingIsTracked == Spec => []SignalingInv
<1>1. Init => SignalingInv
  BY DEF Init, SignalingInv, CommandOf, SlotOf, ReplyOf
<1>2. ASSUME LifecycleInv, SignalingInv, [Next]_vars
      PROVE  SignalingInv'
  <2> SUFFICES ASSUME NEW c \in Conns
               PROVE  CommandOf(c)' /\ SlotOf(c)' /\ ReplyOf(c)'
    BY DEF SignalingInv
  <2>1. TypeOK /\ SetupInv /\ CommandOf(c) /\ SlotOf(c) /\ ReplyOf(c)
    BY <1>2 DEF LifecycleInv, SignalingInv
  <2>2. CASE UNCHANGED offerVars /\ Leaves(c)
    <3>1. rtcCloses[c] \in Nat
      BY <2>1 DEF TypeOK
    <3> QED
      BY <2>1, <2>2, <3>1 DEF CommandOf, SlotOf, ReplyOf, Leaves, offerVars
  <2>3. ASSUME NEW d \in Conns,
               \/ \E id \in OfferIds, g \in Generations : HandleOffer(d, id, g)
               \/ \E g \in Generations : HandleCandidate(d, g)
               \/ HandleRtcClose(d) \/ ForwardReply(d)
        PROVE  CommandOf(c)' /\ SlotOf(c)' /\ ReplyOf(c)'
    <3>1. CASE c = d
      BY <2>1, <2>3, <3>1, OfferKeepsSignaling, ReplyKeepsSignaling,
         CommandKeepsSignaling
    <3>2. CASE c # d
      BY <2>1, <2>3, <3>2, SignalingFrame
    <3> QED
      BY <3>1, <3>2
  <2> QED
    BY <1>2, <2>1, <2>2, <2>3, OtherStepsLeave
<1> QED
  BY <1>1, <1>2, LifecycleCorrect, PTL DEF Spec

(* As long as a session lives, its pending offer is the one Vox has.       *)
THEOREM SlotIsExact == Spec => []OfferSlotMatchesVox
<1>1. SignalingInv => OfferSlotMatchesVox
  BY DEF SignalingInv, SlotOf, OfferSlotMatchesVox
<1> QED
  BY <1>1, SignalingIsTracked, PTL

(* A reply goes out under the id of the offer it answers, and never for an *)
(* offer that was refused.                                                 *)
THEOREM RepliesAreCorrelated == Spec => []RepliesMatchOffers
<1>1. SignalingInv => RepliesMatchOffers
  BY DEF SignalingInv, ReplyOf, RepliesMatchOffers
<1> QED
  BY <1>1, SignalingIsTracked, PTL

(* Vox is never told rtc.close twice, also by the sessions whose cleanup   *)
(* runs twice, nor a candidate without the generation of its offer.        *)
THEOREM CommandsAreInOrder == Spec => []CommandsToVox
<1>1. SignalingInv => CommandsToVox
  BY DEF SignalingInv, CommandOf, CommandsToVox, GeneratedCandidatesOnly,
         NoDuplicateRtcClose
<1> QED
  BY <1>1, SignalingIsTracked, PTL
=============================================================================
