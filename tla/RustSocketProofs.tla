--------------------------- MODULE RustSocketProofs ---------------------------
(***************************************************************************)
(* TLAPS proofs about RustSocket: for any number of callers, calls, losses *)
(* and supervisors, and for any delays.                                    *)
(***************************************************************************)
EXTENDS RustSocket, TLAPS

(* A supervisor that was not spawned yet is nowhere, and OneSupervisor.    *)
SupervisorInv ==
    /\ OneSupervisor
    /\ \A s \in Supervisors : s > spawned => at[s] = "none"

(* Why a disconnect() leaves nothing behind: as long as calls of connect() *)
(* and of disconnect() do not overlap, an inactive client has no caller    *)
(* past the store to active, no live supervisor unless one is about to be  *)
(* aborted, and no connection unless somebody is about to hang up.  Once   *)
(* dropped, the client has no caller and no live supervisor.               *)
QuietInv ==
    /\ dropped => Calm /\ \A s \in Supervisors : ~Live(s)
    /\ ~overlapped =>
          /\ \A c, d \in Callers :
                ~(doing[c] \in Connecting /\ doing[d] \in Disconnecting)
          /\ ~active =>
                /\ \A c \in Callers :
                      doing[c] \in Connecting => doing[c] = "activate"
                /\ \A s \in Supervisors :
                      Live(s) => \E c \in Callers : doing[c] = "abort"
                /\ pond = "connected" =>
                      \E c \in Callers : doing[c] \in {"abort", "hangUp"}

-----------------------------------------------------------------------------
(* Lemma: PondSocket's change of state touches nothing but its own         *)
(* variables, and keeps their types.                                       *)
LEMMA PondTypes ==
    ASSUME TypeOK, NEW p \in States, PondBecomes(p)
    PROVE  pond' \in States /\ unseen' \in [Supervisors -> BOOLEAN]
BY DEF TypeOK, PondBecomes

(* Lemma: the next delay is a delay.                                       *)
LEMMA DelayTypes ==
    ASSUME NEW d \in Nat
    PROVE  next_reconnect_delay(d, max_reconnect_delay) \in Nat
BY SocketAssumption DEF SocketAssumption, next_reconnect_delay

(* Lemma: every step of a caller keeps the types.                          *)
LEMMA CallerTypes ==
    ASSUME TypeOK, NEW c \in Callers, Connect(c) \/ Disconnect(c) \/ Calls(c)
    PROVE  TypeOK'
<1> USE SocketAssumption DEF SocketAssumption, TypeOK, Goes, Connecting, Disconnecting
<1>1. CASE Connect(c)
  BY <1>1 DEF Connect, Begins, supVars
<1>2. CASE Disconnect(c)
  BY <1>2 DEF Disconnect, Begins, supVars
<1>3. CASE SetsActive(c)
  BY <1>3 DEF SetsActive, supVars
<1>4. CASE EnsureSupervisor(c)
  <2>1. CASE NeedsSupervisor /\ Spawns
    <3>1. spawned + 1 \in Supervisors /\ spawned' \in 0..MaxSpawns
      BY <2>1 DEF Spawns, Supervisors
    <3> QED
      BY <1>4, <2>1, <3>1 DEF EnsureSupervisor, Spawns
  <2>2. CASE UNCHANGED <<spawned, slot, at>>
    BY <1>4, <2>2 DEF EnsureSupervisor
  <2> QED
    BY <1>4, <2>1, <2>2 DEF EnsureSupervisor
<1>5. CASE MirrorsState(c)
  BY <1>5 DEF MirrorsState, supVars
<1>6. CASE CallerDials(c)
  BY <1>6, PondTypes DEF CallerDials, PondDials, PondContent, States
<1>7. CASE CallerDialed(c)
  BY <1>7, PondTypes DEF CallerDialed, States
<1>8. CASE ConnectReturns(c)
  BY <1>8 DEF ConnectReturns, supVars
<1>9. CASE DisconnectAborts(c)
  BY <1>9 DEF DisconnectAborts, AbortsSlot
<1>10. CASE HangsUp(c)
  BY <1>10, PondTypes DEF HangsUp, States
<1> QED
  BY <1>1, <1>2, <1>3, <1>4, <1>5, <1>6, <1>7, <1>8, <1>9, <1>10 DEF Calls

(* Lemma: every step of a supervisor keeps the types.                      *)
LEMMA SupervisorTypes ==
    ASSUME TypeOK, NEW s \in Supervisors, Supervises(s)
    PROVE  TypeOK'
<1> USE SocketAssumption DEF SocketAssumption, TypeOK, Moves, supUnchanged, callVars
<1>1. CASE Watches(s)
  BY <1>1 DEF Watches
<1>2. CASE Checks(s)
  BY <1>2 DEF Checks
<1>3. CASE Observes(s)
  BY <1>3 DEF Observes
<1>4. CASE Loops(s)
  BY <1>4 DEF Loops
<1>5. CASE Sleeps(s)
  BY <1>5 DEF Sleeps
<1>6. CASE Awakes(s)
  BY <1>6 DEF Awakes
<1>7. CASE Dials(s)
  BY <1>7, PondTypes DEF Dials, PondDials, PondContent, States
<1>8. CASE DialSucceeds(s)
  BY <1>8, PondTypes DEF DialSucceeds, States
<1>9. CASE DialFails(s)
  <2>1. next_reconnect_delay(delay[s], max_reconnect_delay) \in Nat
    BY DelayTypes
  <2> QED
    BY <1>9, <2>1, PondTypes DEF DialFails, AfterFailure, States
<1>10. CASE Reports(s)
  BY <1>10 DEF Reports
<1>11. CASE Cancelled(s)
  BY <1>11, PondTypes DEF Cancelled, States
<1> QED
  BY <1>1, <1>2, <1>3, <1>4, <1>5, <1>6, <1>7, <1>8, <1>9, <1>10, <1>11
     DEF Supervises

(* Every variable keeps its type.                                          *)
THEOREM SocketTypes == Spec => []TypeOK
<1>1. Init => TypeOK
  <2> SUFFICES ASSUME Init PROVE TypeOK
    OBVIOUS
  <2>1. spawned \in 0..MaxSpawns /\ calls \in Nat /\ losses \in Nat
    BY SocketAssumption DEF SocketAssumption, Init
  <2>2. delay \in [Supervisors -> Nat]
    BY SocketAssumption DEF SocketAssumption, Init
  <2>3. doing \in [Callers -> Connecting \cup Disconnecting \cup {"idle"}]
    BY DEF Init
  <2> QED
    BY <2>1, <2>2, <2>3 DEF Init, TypeOK, States
<1>2. TypeOK /\ [Next]_vars => TypeOK'
  <2> SUFFICES ASSUME TypeOK, [Next]_vars PROVE TypeOK'
    OBVIOUS
  <2>1. CASE Loss
    BY <2>1, PondTypes DEF Loss, TypeOK, States, callVars
  <2>2. CASE DropClient
    BY <2>2 DEF DropClient, AbortsSlot, TypeOK
  <2>3. CASE \E c \in Callers : Connect(c) \/ Disconnect(c) \/ Calls(c)
    BY <2>3, CallerTypes
  <2>4. CASE \E s \in Supervisors : Supervises(s)
    BY <2>4, SupervisorTypes
  <2>5. CASE UNCHANGED vars
    BY <2>5 DEF vars, supVars, callVars, TypeOK
  <2> QED
    BY <2>1, <2>2, <2>3, <2>4, <2>5 DEF Next
<1> QED
  BY <1>1, <1>2, PTL DEF Spec

-----------------------------------------------------------------------------
(* Lemma: a step that neither spawns, ends nor aborts a task keeps         *)
(* SupervisorInv.                                                          *)
LEMMA NothingSpawned ==
    ASSUME SupervisorInv, UNCHANGED <<slot, at, aborted, spawned>>
    PROVE  SupervisorInv'
BY DEF SupervisorInv, OneSupervisor, Live

(* Lemma: aborting what is in the slot leaves no live supervisor.          *)
LEMMA AbortedSlot ==
    ASSUME TypeOK, SupervisorInv, AbortsSlot, UNCHANGED <<at, spawned>>
    PROVE  SupervisorInv'
<1>1. \A s \in Supervisors : ~Live(s)'
  BY DEF TypeOK, SupervisorInv, OneSupervisor, Live, AbortsSlot
<1> QED
  BY <1>1 DEF SupervisorInv, OneSupervisor

(* Lemma: a supervisor is spawned only when none lives, and the slot then  *)
(* names the new one.                                                      *)
LEMMA EnsureKeepsOne ==
    ASSUME TypeOK, SupervisorInv, NEW c \in Callers, EnsureSupervisor(c)
    PROVE  SupervisorInv'
<1>1. CASE NeedsSupervisor /\ Spawns
  <2>1. \A s \in Supervisors : ~Live(s)
    BY <1>1 DEF SupervisorInv, OneSupervisor, Live, NeedsSupervisor
  <2>2. spawned + 1 \in Supervisors
    BY <1>1, SocketAssumption DEF SocketAssumption, Spawns, Supervisors, TypeOK
  <2>3. \A s \in Supervisors : s # spawned + 1 => at'[s] = at[s]
    BY <1>1, <2>2 DEF Spawns, TypeOK
  <2>4. \A s \in Supervisors : Live(s)' => s = spawned + 1
    BY <2>1, <2>3 DEF Live, EnsureSupervisor
  <2>5. \A s \in Supervisors : s > spawned' => at'[s] = "none"
    <3>1. spawned \in Nat /\ spawned' = spawned + 1 /\ Supervisors \subseteq Nat
      BY <1>1, SocketAssumption
         DEF SocketAssumption, Spawns, Supervisors, TypeOK
    <3>2. \A s \in Supervisors :
             s > spawned' => s > spawned /\ s # spawned + 1
      BY <3>1
    <3> QED
      BY <2>3, <3>2 DEF SupervisorInv
  <2> QED
    BY <1>1, <2>4, <2>5 DEF Spawns, SupervisorInv, OneSupervisor
<1>2. CASE UNCHANGED <<spawned, slot, at>>
  BY <1>2, NothingSpawned DEF EnsureSupervisor
<1> QED
  BY <1>1, <1>2 DEF EnsureSupervisor

(* Lemma: a supervisor that moves was live or aborted before, and only     *)
(* itself moves.                                                           *)
LEMMA MovingKeepsOne ==
    ASSUME TypeOK, SupervisorInv, NEW s \in Supervisors, Supervises(s)
    PROVE  SupervisorInv'
<1>1. at[s] \notin {"none", "ended"}
  BY DEF Supervises, Watches, Checks, Observes, Loops, Sleeps, Awakes, Dials,
         DialSucceeds, DialFails, Reports, Cancelled
<1>2. /\ UNCHANGED <<slot, aborted, spawned>>
      /\ \A r \in Supervisors \ {s} : at'[r] = at[r]
  BY DEF TypeOK, Supervises, Moves, AfterFailure, supUnchanged, Watches, Checks,
         Observes, Loops, Sleeps, Awakes, Dials, DialSucceeds, DialFails,
         Reports, Cancelled
<1>3. ~(s > spawned)
  BY <1>1 DEF SupervisorInv
<1> QED
  BY <1>1, <1>2, <1>3 DEF SupervisorInv, OneSupervisor, Live

(* There is never more than one live supervisor, and it is the one that    *)
(* disconnect() finds in the slot.                                         *)
THEOREM SupervisorIsUnique == Spec => []OneSupervisor
<1>1. Init => SupervisorInv
  BY DEF Init, SupervisorInv, OneSupervisor, Live
<1>2. TypeOK /\ SupervisorInv /\ [Next]_vars => SupervisorInv'
  <2> SUFFICES ASSUME TypeOK, SupervisorInv, [Next]_vars PROVE SupervisorInv'
    OBVIOUS
  <2>1. CASE Loss
    BY <2>1, NothingSpawned DEF Loss
  <2>2. CASE DropClient
    BY <2>2, AbortedSlot DEF DropClient
  <2>3. ASSUME NEW c \in Callers, Connect(c) \/ Disconnect(c) \/ Calls(c)
        PROVE  SupervisorInv'
    <3>1. CASE EnsureSupervisor(c)
      BY <3>1, EnsureKeepsOne
    <3>2. CASE DisconnectAborts(c)
      BY <3>2, AbortedSlot DEF DisconnectAborts
    <3>3. CASE ~EnsureSupervisor(c) /\ ~DisconnectAborts(c)
      BY <2>3, <3>3, NothingSpawned
         DEF Calls, Connect, Disconnect, Begins, SetsActive, MirrorsState,
             CallerDials, CallerDialed, ConnectReturns, HangsUp, supVars
    <3> QED
      BY <3>1, <3>2, <3>3
  <2>4. CASE \E s \in Supervisors : Supervises(s)
    BY <2>4, MovingKeepsOne
  <2>5. CASE UNCHANGED vars
    BY <2>5, NothingSpawned DEF vars, supVars
  <2> QED
    BY <2>1, <2>2, <2>3, <2>4, <2>5 DEF Next
<1>3. SupervisorInv => OneSupervisor
  BY DEF SupervisorInv
<1> QED
  BY <1>1, <1>2, <1>3, SocketTypes, PTL DEF Spec

-----------------------------------------------------------------------------
(* Lemma: the moves of a supervisor leave the callers alone, make nobody   *)
(* live, and connect only when the supervisor itself is live.              *)
LEMMA SupervisorFrame ==
    ASSUME TypeOK, NEW s \in Supervisors, Supervises(s)
    PROVE  /\ UNCHANGED <<active, doing, dropped, overlapped>>
           /\ \A r \in Supervisors : Live(r)' => Live(r)
           /\ pond' = "connected" => pond = "connected" \/ Live(s)
<1> USE DEF TypeOK, Moves, AfterFailure, supUnchanged, callVars
<1>1. /\ UNCHANGED <<active, aborted, doing, dropped, overlapped>>
      /\ \A r \in Supervisors \ {s} : at'[r] = at[r]
      /\ at[s] \notin {"none", "ended"}
  BY DEF Supervises, Watches, Checks, Observes, Loops, Sleeps, Awakes, Dials,
         DialSucceeds, DialFails, Reports, Cancelled
<1>2. \A r \in Supervisors : Live(r)' => Live(r)
  BY <1>1 DEF Live
<1>3. pond' = "connected" => pond = "connected" \/ DialSucceeds(s)
  BY DEF Supervises, Watches, Checks, Observes, Loops, Sleeps, Awakes, Dials,
         PondDials, PondContent, PondBecomes, DialFails, Reports, Cancelled
<1>4. DialSucceeds(s) => Live(s)
  BY DEF DialSucceeds, Live
<1> QED
  BY <1>1, <1>2, <1>3, <1>4

(* Lemma: QuietInv is kept by what connects nothing unless a supervisor is *)
(* live, and makes no supervisor live.                                     *)
LEMMA QuietFrame ==
    ASSUME QuietInv, UNCHANGED <<active, doing, dropped, overlapped>>,
           \A r \in Supervisors : Live(r)' => Live(r),
           pond' = "connected" =>
              pond = "connected" \/ \E s \in Supervisors : Live(s)
    PROVE  QuietInv'
BY DEF QuietInv, Calm

(* Lemma: aborting what is in the slot leaves no live supervisor.          *)
LEMMA AbortedAll ==
    ASSUME TypeOK, OneSupervisor, AbortsSlot, UNCHANGED at
    PROVE  \A s \in Supervisors : ~Live(s)'
BY DEF TypeOK, OneSupervisor, Live, AbortsSlot

(* Lemma: a call that begins while the other one is in progress overlaps   *)
(* with it.                                                                *)
LEMMA QuietBegins ==
    ASSUME TypeOK, QuietInv, NEW c \in Callers, Connect(c) \/ Disconnect(c)
    PROVE  QuietInv'
<1>1. /\ doing[c] = "idle" /\ ~dropped
      /\ UNCHANGED <<pond, active, at, aborted, dropped>>
      /\ \A d \in Callers \ {c} : doing'[d] = doing[d]
      /\ overlapped => overlapped'
  BY DEF Connect, Disconnect, Begins, Goes, supVars, TypeOK
<1>2. \A s \in Supervisors : Live(s)' = Live(s)
  BY <1>1 DEF Live
<1>3. \/ /\ doing'[c] = "activate"
         /\ ~overlapped' => \A d \in Callers : doing[d] \notin Disconnecting
      \/ /\ doing'[c] = "deactivate"
         /\ ~overlapped' => \A d \in Callers : doing[d] \notin Connecting
  BY DEF Connect, Disconnect, Begins, Goes, TypeOK
<1>4. ~overlapped' =>
         \A d, e \in Callers :
            ~(doing'[d] \in Connecting /\ doing'[e] \in Disconnecting)
  BY <1>1, <1>3 DEF QuietInv, Connecting, Disconnecting
<1>5. ~overlapped' /\ ~active' =>
         \A d \in Callers : doing'[d] \in Connecting => doing'[d] = "activate"
  BY <1>1, <1>3 DEF QuietInv, Connecting
<1>6. \A d \in Callers : doing[d] \in {"abort", "hangUp"} => doing'[d] = doing[d]
  BY <1>1
<1> QED
  BY <1>1, <1>2, <1>4, <1>5, <1>6 DEF QuietInv

(* Lemma: the steps of the calls.                                          *)
LEMMA QuietCalls ==
    ASSUME TypeOK, OneSupervisor, QuietInv, NEW c \in Callers, Calls(c)
    PROVE  QuietInv'
<1>1. /\ \A d \in Callers \ {c} : doing'[d] = doing[d]
      /\ doing[c] # "idle"
      /\ UNCHANGED <<overlapped, dropped>>
  BY DEF Calls, SetsActive, EnsureSupervisor, MirrorsState, CallerDials,
         CallerDialed, ConnectReturns, DisconnectAborts, HangsUp, Goes, TypeOK
<1>2. ~dropped
  BY <1>1 DEF QuietInv, Calm
<1>3. SUFFICES ASSUME ~overlapped
               PROVE  QuietInv'
  BY <1>1, <1>2, <1>3 DEF QuietInv
<1>4. \/ doing'[c] = "idle"
      \/ doing[c] \in Connecting /\ doing'[c] \in Connecting
      \/ doing[c] \in Disconnecting /\ doing'[c] \in Disconnecting
  BY DEF Calls, SetsActive, EnsureSupervisor, MirrorsState, CallerDials,
         CallerDialed, ConnectReturns, DisconnectAborts, HangsUp, Goes, TypeOK,
         Connecting, Disconnecting
<1>5. \A d, e \in Callers :
         ~(doing'[d] \in Connecting /\ doing'[e] \in Disconnecting)
  BY <1>1, <1>3, <1>4 DEF QuietInv, Connecting, Disconnecting
<1>6. SUFFICES ASSUME ~active'
               PROVE  /\ \A d \in Callers :
                            doing'[d] \in Connecting => doing'[d] = "activate"
                      /\ \A s \in Supervisors :
                            Live(s)' => \E d \in Callers : doing'[d] = "abort"
                      /\ pond' = "connected" =>
                            \E d \in Callers : doing'[d] \in {"abort", "hangUp"}
  BY <1>1, <1>2, <1>5 DEF QuietInv
<1>7. CASE SetsActive(c)
  <2>1. /\ doing[c] = "deactivate" /\ doing'[c] = "abort"
    BY <1>6, <1>7 DEF SetsActive, Goes, TypeOK
  <2>2. \A d \in Callers : doing'[d] \notin Connecting
    BY <1>5, <2>1 DEF Disconnecting
  <2> QED
    BY <2>1, <2>2
<1>8. CASE ~SetsActive(c)
  <2>1. ~active
    BY <1>6, <1>8 DEF Calls, EnsureSupervisor, MirrorsState, CallerDials,
          CallerDialed, ConnectReturns, DisconnectAborts, HangsUp
  <2>2. doing[c] \in {"abort", "hangUp", "mirror3"}
    <3>1. doing[c] \notin {"activate", "deactivate"}
      BY <1>8 DEF Calls, EnsureSupervisor, MirrorsState, CallerDials,
          CallerDialed, ConnectReturns, DisconnectAborts, HangsUp
    <3>2. doing[c] \notin Connecting
      BY <1>3, <2>1, <3>1 DEF QuietInv, Connecting
    <3> QED
      BY <1>1, <3>1, <3>2 DEF TypeOK, Disconnecting
  <2>3. \A d \in Callers :
           doing'[d] \in Connecting => doing'[d] = "activate"
    <3>1. doing'[c] \notin Connecting
      BY <1>4, <2>2 DEF Connecting, Disconnecting
    <3> QED
      BY <1>1, <1>3, <2>1, <3>1 DEF QuietInv
  <2>4. CASE doing[c] = "abort"
    <3>1. DisconnectAborts(c)
      BY <2>4, <1>8 DEF Calls, EnsureSupervisor, MirrorsState, CallerDials,
            CallerDialed, ConnectReturns, HangsUp
    <3>2. \A s \in Supervisors : ~Live(s)'
      BY <3>1, AbortedAll DEF DisconnectAborts
    <3>3. doing'[c] = "hangUp"
      BY <3>1 DEF DisconnectAborts, Goes, TypeOK
    <3> QED
      BY <2>3, <3>2, <3>3
  <2>5. CASE doing[c] = "hangUp"
    <3>1. HangsUp(c)
      BY <2>5, <1>8 DEF Calls, EnsureSupervisor, MirrorsState, CallerDials,
            CallerDialed, ConnectReturns, DisconnectAborts
    <3>2. pond' = "disconnected" /\ UNCHANGED <<at, aborted>>
      BY <3>1 DEF HangsUp, PondBecomes
    <3>3. \A d \in Callers : doing[d] = "abort" => doing'[d] = "abort"
      BY <1>1, <2>5
    <3> QED
      BY <1>3, <2>1, <2>3, <3>2, <3>3 DEF QuietInv, Live
  <2>6. CASE doing[c] = "mirror3"
    <3>1. UNCHANGED <<pond, at, aborted>>
      BY <2>6, <1>8 DEF Calls, EnsureSupervisor, MirrorsState, CallerDials,
            CallerDialed, ConnectReturns, DisconnectAborts, HangsUp, supVars
    <3>2. \A d \in Callers :
             doing[d] \in {"abort", "hangUp"} => doing'[d] = doing[d]
      BY <1>1, <2>6
    <3> QED
      BY <1>3, <2>1, <2>3, <3>1, <3>2 DEF QuietInv, Live
  <2> QED
    BY <2>2, <2>4, <2>5, <2>6
<1> QED
  BY <1>7, <1>8

(* After a disconnect() that no connect() overlapped, and after the last   *)
(* clone is dropped, there is no connection and no task that makes one.    *)
THEOREM DisconnectIsFinal == Spec => []QuietAfterDisconnect
<1>1. Init => QuietInv
  BY DEF Init, QuietInv, Calm, Live, Connecting, Disconnecting
<1>2. TypeOK /\ OneSupervisor /\ QuietInv /\ [Next]_vars => QuietInv'
  <2> SUFFICES ASSUME TypeOK, OneSupervisor, QuietInv, [Next]_vars
               PROVE  QuietInv'
    OBVIOUS
  <2>1. CASE Loss
    <3>1. /\ UNCHANGED <<active, doing, dropped, overlapped, at, aborted>>
          /\ pond' = "disconnected"
      BY <2>1 DEF Loss, PondBecomes, callVars
    <3> QED
      BY <3>1, QuietFrame DEF Live
  <2>2. CASE DropClient
    <3>1. /\ UNCHANGED <<pond, active, doing, overlapped>> /\ Calm
          /\ \A s \in Supervisors : ~Live(s)'
      BY <2>2, AbortedAll DEF DropClient
    <3> QED
      BY <3>1 DEF QuietInv, Calm
  <2>3. ASSUME NEW c \in Callers, Connect(c) \/ Disconnect(c) \/ Calls(c)
        PROVE  QuietInv'
    BY <2>3, QuietBegins, QuietCalls
  <2>4. ASSUME NEW s \in Supervisors, Supervises(s)
        PROVE  QuietInv'
    BY <2>4, SupervisorFrame, QuietFrame
  <2>5. CASE UNCHANGED vars
    BY <2>5, QuietFrame DEF vars, supVars, callVars, Live
  <2> QED
    BY <2>1, <2>2, <2>3, <2>4, <2>5 DEF Next
<1>3. QuietInv => QuietAfterDisconnect
  BY DEF QuietInv, QuietAfterDisconnect, Calm, Connecting
<1> QED
  BY <1>1, <1>2, <1>3, SocketTypes, SupervisorIsUnique, PTL DEF Spec

-----------------------------------------------------------------------------
(* However often dialling fails, no delay exceeds the configured maximum,  *)
(* unless it is the very first one.                                        *)
THEOREM BackoffIsBounded == Spec => []BackoffBounded
<1> USE SocketAssumption DEF SocketAssumption
<1>1. Init => BackoffBounded
  BY DEF Init, BackoffBounded
<1>2. TypeOK /\ BackoffBounded /\ [Next]_vars => BackoffBounded'
  <2> SUFFICES ASSUME TypeOK, BackoffBounded, [Next]_vars PROVE BackoffBounded'
    OBVIOUS
  <2>1. CASE UNCHANGED delay
    BY <2>1 DEF BackoffBounded
  <2>2. ASSUME NEW s \in Supervisors, Observes(s)
        PROVE  BackoffBounded'
    BY <2>2 DEF BackoffBounded, Observes, TypeOK
  <2>3. ASSUME NEW s \in Supervisors, DialFails(s)
        PROVE  BackoffBounded'
    <3>1. next_reconnect_delay(delay[s], max_reconnect_delay)
             <= max_reconnect_delay
      BY DEF next_reconnect_delay, TypeOK
    <3> QED
      BY <2>3, <3>1 DEF BackoffBounded, DialFails, TypeOK
  <2>4. ASSUME NEW s \in Supervisors, Supervises(s), ~Observes(s), ~DialFails(s)
        PROVE  UNCHANGED delay
    BY <2>4 DEF Supervises, Watches, Checks, Loops, Sleeps, Awakes, Dials,
                DialSucceeds, Reports, Cancelled
  <2>5. ASSUME NEW c \in Callers, Connect(c) \/ Disconnect(c) \/ Calls(c)
        PROVE  UNCHANGED delay
    BY <2>5 DEF Calls, Connect, Disconnect, Begins, SetsActive,
                EnsureSupervisor, MirrorsState, CallerDials, CallerDialed,
                ConnectReturns, DisconnectAborts, HangsUp, supVars
  <2>6. CASE Loss \/ DropClient \/ UNCHANGED vars
    BY <2>6, <2>1 DEF Loss, DropClient, vars, supVars
  <2> QED
    BY <2>1, <2>2, <2>3, <2>4, <2>5, <2>6 DEF Next
<1> QED
  BY <1>1, <1>2, SocketTypes, PTL DEF Spec
===============================================================================
