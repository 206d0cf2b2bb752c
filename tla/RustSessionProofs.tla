--------------------------- MODULE RustSessionProofs ---------------------------
(***************************************************************************)
(* TLAPS proofs about RustSession: for any number of callers, listeners,   *)
(* calls and events, and for any capacity of the broadcast channels.       *)
(***************************************************************************)
EXTENDS RustSession, TLAPS

USE SessionAssumption DEF SessionAssumption

-----------------------------------------------------------------------------
(* What the mirrored state says of the channel it mirrors, which may have  *)
(* moved on: joined means that it has been joined, closed that it is.      *)
MirrorInv ==
    /\ chan = "joined" \/ state_tx = "joined" => wasJoined
    /\ state_tx \in Closed => chan \in Closed
    /\ attach = "creating" => chan = "idle" /\ state_tx = "idle"

JoinInv == MirrorInv /\ JoinIsTruthful

(* join() is right about the channel, although it sees a mirrored state.   *)
THEOREM JoinTellsTheTruth == Spec => []JoinIsTruthful
<1>1. Init => JoinInv
  BY DEF Init, JoinInv, MirrorInv, JoinIsTruthful, Closed
<1>2. JoinInv /\ [Next]_vars => JoinInv'
  <2> SUFFICES ASSUME JoinInv, [Next]_vars PROVE JoinInv'
    OBVIOUS
  <2> USE DEF JoinInv, MirrorInv, JoinIsTruthful, Closed
  <2>1. CASE UNCHANGED chanVars
    BY <2>1 DEF chanVars
  <2>2. CASE CreateSession
    BY <2>2 DEF CreateSession
  <2>3. CASE PondChanges
    BY <2>3 DEF PondChanges, PondMoves
  <2>4. CASE MirrorState
    BY <2>4 DEF MirrorState, map_channel_state
  <2>5. CASE JoinReturns
    BY <2>5 DEF JoinReturns
  <2>6. CASE CloseSession
    BY <2>6 DEF CloseSession
  <2>7. ASSUME NEW c \in Callers, Calls(c) PROVE JoinInv'
    BY <2>7, <2>1
       DEF Calls, StartResponse, StartResponseAndWait, SendTextResponse,
           StartPayload, CancelResponse, ReplaceResponseText, FollowUp,
           SendsOther
  <2>8. ASSUME NEW c \in Callers,
               Steps(c) \/ WaiterReceives(c) \/ WaitTimesOut(c)
        PROVE  JoinInv'
    BY <2>8, <2>1 DEF Steps, CancelClears, Subscribes, SendControl,
                      WaiterReceives, WaitTimesOut
  <2>9. ASSUME NEW l \in Listeners,
               Listens(l) \/ DropsListener(l) \/ ListenerReceives(l)
        PROVE  JoinInv'
    BY <2>9, <2>1 DEF Listens, DropsListener, ListenerReceives
  <2>10. CASE Vox \/ Relay
    BY <2>10, <2>1 DEF Vox, VoxTells, VoxAnswers, VoxSends, Relay, RelayCopies,
                      RelayLags
  <2>11. CASE UNCHANGED vars
    BY <2>11, <2>1 DEF vars
  <2> QED
    BY <2>2, <2>3, <2>4, <2>5, <2>6, <2>7, <2>8, <2>9, <2>10, <2>11
       DEF Next, Attaching
<1>3. JoinInv => JoinIsTruthful
  BY DEF JoinInv
<1> QED
  BY <1>1, <1>2, <1>3, PTL DEF Spec
-----------------------------------------------------------------------------
(* Lemma: subscribing and skipping give a position in the log.             *)
LEMMA PositionTypes ==
    ASSUME NEW l \in Seq(VoxEvents), NEW capacity \in Nat \ {0}
    PROVE  /\ Subscribed(l) \in Nat \ {0}
           /\ Oldest(l, capacity) \in Nat \ {0}
BY DEF Subscribed, Oldest

(* Lemma: starting a response keeps the types.                             *)
LEMMA StartTypes ==
    ASSUME TypeOK, NEW c \in Callers, NEW id \in Explicit \cup {None},
           NEW where \in {"send", "subscribe"}, NEW then \in Nat,
           StartPayload(c, id, where, then)
    PROVE  TypeOK'
<1>1. StartedId(id) \in AnyId /\ counter + 1 \in Nat
  BY DEF StartedId, AnyId, TypeOK
<1>2. Command("start", StartedId(id), counter + 1) \in Commands
  BY <1>1 DEF Command, Commands
<1>3. started' \in [Callers -> AnyId] /\ disturbed' \subseteq Callers
  BY <1>1 DEF TypeOK, StartPayload, ComesBetween
<1> QED
  BY <1>1, <1>2, <1>3 DEF TypeOK, StartPayload, Issues, Proceeds, chanVars,
                          relayVars, recvVars, voxVars

(* Lemma: the other calls keep the types.                                  *)
LEMMA CallTypes ==
    ASSUME TypeOK, NEW c \in Callers, Calls(c)
    PROVE  TypeOK'
<1> PICK id \in Explicit \cup {None} :
       \/ StartResponse(c, id) \/ StartResponseAndWait(c, id)
       \/ SendTextResponse(c, id) \/ CancelResponse(c, id)
       \/ ReplaceResponseText(c, id) \/ FollowUp(c, id)
       \/ id = None /\ SendsOther(c)
  BY DEF Calls
<1>1. Threaded(id) \in AnyId /\ id \in AnyId /\ None \in AnyId
  BY DEF Threaded, TextOption, AnyId, TypeOK
<1>2. \A kind \in {"follow-up", "other", "cancel", "replace"}, i \in AnyId :
         Command(kind, i, 0) \in Commands
  BY DEF Command, Commands
<1> USE DEF Issues, Proceeds, chanVars, genVars, relayVars, recvVars, voxVars
<1>3. CASE StartResponse(c, id) \/ StartResponseAndWait(c, id)
             \/ SendTextResponse(c, id)
  BY <1>3, StartTypes DEF StartResponse, StartResponseAndWait, SendTextResponse
<1>4. CASE CancelResponse(c, id)
  BY <1>1, <1>2, <1>4 DEF CancelResponse, TypeOK
<1>5. CASE ReplaceResponseText(c, id)
  BY <1>1, <1>2, <1>5 DEF ReplaceResponseText, ClearGeneration, ComesBetween, TypeOK
<1>6. CASE FollowUp(c, id)
  BY <1>1, <1>2, <1>6 DEF FollowUp, TypeOK
<1>7. CASE id = None /\ SendsOther(c)
  BY <1>1, <1>2, <1>7 DEF SendsOther, TypeOK
<1> QED
  BY <1>3, <1>4, <1>5, <1>6, <1>7

(* Lemma: what a caller does after it was given its command.               *)
LEMMA StepTypes ==
    ASSUME TypeOK, NEW c \in Callers,
           Steps(c) \/ WaiterReceives(c) \/ WaitTimesOut(c)
    PROVE  TypeOK'
<1>1. c \in Receivers /\ NoCommand \in Commands
  BY DEF Receivers, NoCommand, Command, Commands, AnyId
<1>2. /\ Subscribed(log) \in Nat \ {0} /\ Oldest(log, Capacity) \in Nat \ {0}
  BY PositionTypes DEF TypeOK
<1>3. ASSUME Returns(c)
      PROVE  /\ at' \in [Callers -> {"idle", "send", "subscribe", "clear",
                                     "sendAndWait", "wait"}]
             /\ cmd' \in [Callers -> Commands] /\ rest' \in [Callers -> Nat]
             /\ option' \in [Callers -> Explicit \cup {None}]
             /\ next' \in [Receivers -> Nat \ {0}]
             /\ lagged' \in [Callers -> BOOLEAN]
             /\ started' \in [Callers -> AnyId] /\ disturbed' \subseteq Callers
  BY <1>1, <1>3 DEF Returns, Proceeds, TypeOK, AnyId
<1> USE DEF Proceeds, chanVars, genVars, relayVars, recvVars, voxVars
<1>4. CASE CancelClears(c)
  <2>1. cmd[c].id \in AnyId
    BY DEF TypeOK, Commands
  <2> QED
    BY <1>4, <2>1 DEF CancelClears, ClearGeneration, ComesBetween, TypeOK, AnyId
<1>5. CASE Subscribes(c)
  BY <1>1, <1>2, <1>5 DEF Subscribes, TypeOK
<1>6. CASE SendControl(c)
  <2>1. ASSUME Continues(c)
        PROVE  /\ at' \in [Callers -> {"idle", "send", "subscribe", "clear",
                                       "sendAndWait", "wait"}]
               /\ cmd' \in [Callers -> Commands] /\ rest' \in [Callers -> Nat]
               /\ option' \in [Callers -> Explicit \cup {None}]
               /\ next' \in [Receivers -> Nat \ {0}]
               /\ lagged' \in [Callers -> BOOLEAN]
               /\ started' \in [Callers -> AnyId] /\ disturbed' \subseteq Callers
    <3>1. Command("follow-up", Threaded(TextOption(c)), 0) \in Commands
      BY DEF Command, Commands, Threaded, TextOption, AnyId, TypeOK
    <3>2. CASE at[c] = "send" /\ rest[c] > 0
      <4>1. rest[c] - 1 \in Nat
        BY <3>2 DEF TypeOK
      <4>2. /\ at' = [at EXCEPT ![c] = "send"]
            /\ cmd' = [cmd EXCEPT
                  ![c] = Command("follow-up", Threaded(TextOption(c)), 0)]
            /\ rest' = [rest EXCEPT ![c] = rest[c] - 1]
            /\ UNCHANGED <<option, started, disturbed, next, lagged>>
        BY <2>1, <3>2 DEF Continues, TypeOK
      <4> QED
        BY <3>1, <4>1, <4>2 DEF TypeOK
    <3>3. CASE at[c] = "send" /\ rest[c] = 0
      BY <1>3, <2>1, <3>3 DEF Continues
    <3>4. CASE at[c] = "sendAndWait"
      BY <2>1, <3>4, ZenonT(60) DEF Continues, TypeOK
    <3> QED
      BY <2>1, <3>2, <3>3, <3>4 DEF Continues
  <2>2. atVox' \subseteq Commands /\ heard' \subseteq AnyId
    <3>1. cmd[c].id \in AnyId
      BY DEF TypeOK, Commands
    <3> QED
      BY <1>6, <3>1 DEF SendControl, TypeOK
  <2> QED
    BY <1>3, <1>6, <2>1, <2>2 DEF SendControl, TypeOK
<1>7. CASE WaiterReceives(c)
  <2>1. CASE HasLagged(log, next[c], Capacity)
    <3>1. /\ SkipsLag(c) /\ lagged' = [lagged EXCEPT ![c] = TRUE]
          /\ UNCHANGED <<chanVars, genVars, callVars, relayVars, log, listening,
                         handled, voxVars, acks>>
      BY <1>7, <2>1 DEF WaiterReceives, callVars
    <3>2. next' \in [Receivers -> Nat \ {0}] /\ lagged' \in [Callers -> BOOLEAN]
      BY <1>1, <1>2, <3>1 DEF SkipsLag, TypeOK
    <3> QED
      BY <3>1, <3>2 DEF TypeOK, callVars
  <2>2. CASE ~HasLagged(log, next[c], Capacity)
    <3>1. log[next[c]] \in VoxEvents /\ next[c] + 1 \in Nat \ {0}
      BY <1>1, <1>7 DEF WaiterReceives, Ready, TypeOK
    <3>2. CASE Acknowledges(c, log[next[c]])
      <4>1. acks' \subseteq [to : Commands, answer : VoxEvents]
        BY <1>7, <2>2, <3>1, <3>2 DEF WaiterReceives, TypeOK
      <4> QED
        BY <1>3, <1>7, <2>2, <3>2, <4>1 DEF WaiterReceives, TypeOK
    <3>3. CASE ~Acknowledges(c, log[next[c]])
      BY <1>1, <1>7, <2>2, <3>1, <3>3 DEF WaiterReceives, Takes, TypeOK
    <3> QED
      BY <3>2, <3>3
  <2> QED
    BY <2>1, <2>2
<1>8. CASE WaitTimesOut(c)
  BY <1>3, <1>8 DEF WaitTimesOut, TypeOK
<1> QED
  BY <1>4, <1>5, <1>6, <1>7, <1>8 DEF Steps

(* Lemma: what the relay and the listeners do.                             *)
LEMMA ReceiverTypes ==
    ASSUME TypeOK,
           \/ Relay
           \/ \E l \in Listeners :
                 Listens(l) \/ DropsListener(l) \/ ListenerReceives(l)
    PROVE  TypeOK'
<1>1. /\ Subscribed(log) \in Nat \ {0} /\ Oldest(log, Capacity) \in Nat \ {0}
  BY PositionTypes DEF TypeOK
<1> USE DEF chanVars, genVars, callVars, relayVars, recvVars, voxVars
<1>2. CASE RelayCopies
  <2>1. pondLog[relayNext] \in VoxEvents /\ relayNext + 1 \in Nat \ {0}
    BY <1>2 DEF RelayCopies, Ready, TypeOK
  <2> QED
    BY <1>2, <2>1 DEF RelayCopies, TypeOK
<1>3. CASE RelayLags
  BY <1>3 DEF RelayLags, TypeOK
<1>4. ASSUME NEW l \in Listeners,
             Listens(l) \/ DropsListener(l) \/ ListenerReceives(l)
      PROVE  TypeOK'
  <2>1. l \in Receivers /\ next[l] \in Nat \ {0} /\ next[l] + 1 \in Nat \ {0}
    BY DEF Receivers, TypeOK
  <2>2. CASE Listens(l)
    BY <1>1, <2>1, <2>2 DEF Listens, TypeOK
  <2>3. CASE DropsListener(l)
    BY <2>1, <2>3 DEF DropsListener, TypeOK
  <2>4. CASE ListenerReceives(l)
    <3>1. CASE HasLagged(log, next[l], Capacity)
      <4>1. next' = [next EXCEPT ![l] = Oldest(log, Capacity)]
            /\ handled' = handled
        BY <2>4, <3>1 DEF ListenerReceives, SkipsLag
      <4> QED
        BY <1>1, <2>4, <4>1 DEF ListenerReceives, TypeOK
    <3>2. CASE ~HasLagged(log, next[l], Capacity)
      <4>1. next' = [next EXCEPT ![l] = next[l] + 1]
            /\ handled' \in [Listeners -> Nat]
        BY <2>1, <2>4, <3>2 DEF ListenerReceives, Takes, TypeOK
      <4> QED
        BY <2>1, <2>4, <4>1 DEF ListenerReceives, TypeOK
    <3> QED
      BY <3>1, <3>2
  <2> QED
    BY <1>4, <2>2, <2>3, <2>4
<1> QED
  BY <1>2, <1>3, <1>4 DEF Relay

(* Lemma: an event that answers no start has the number of none, and names *)
(* a generation only if it is an error.                                    *)
LEMMA ToldEvents ==
    ASSUME TypeOK, VoxTells
    PROVE  /\ UNCHANGED voxVars
           /\ \E e \in VoxEvents :
                 /\ VoxSends(e) /\ e.start = 0
                 /\ e.id = None \/ e.type = "error"
<1>1. \A id \in AnyId :
         /\ Event("error", id, 0) \in VoxEvents
         /\ Event("error", id, 0).start = 0 /\ Event("error", id, 0).type = "error"
  BY DEF Event, VoxEvents, Answers
<1>2. /\ Event("presence", None, 0) \in VoxEvents
      /\ Event("presence", None, 0).start = 0
      /\ Event("presence", None, 0).id = None
  BY DEF Event, VoxEvents, Answers, AnyId
<1>3. heard \cup {None} \subseteq AnyId
  BY DEF TypeOK, AnyId
<1> HIDE DEF Event
<1> QED
  BY <1>1, <1>2, <1>3 DEF VoxTells

(* Every variable keeps its type.                                          *)
THEOREM SessionTypes == Spec => []TypeOK
<1>1. Init => TypeOK
  <2> SUFFICES ASSUME Init PROVE TypeOK
    OBVIOUS
  <2>1. NoCommand \in Commands /\ None \in AnyId
    BY DEF NoCommand, Command, Commands, AnyId
  <2>2. pondLog \in Seq(VoxEvents) /\ log \in Seq(VoxEvents)
    BY DEF Init
  <2>3. /\ next \in [Receivers -> Nat \ {0}] /\ handled \in [Listeners -> Nat]
        /\ rest \in [Callers -> Nat] /\ relayNext \in Nat \ {0}
    BY DEF Init
  <2>4. /\ cmd \in [Callers -> Commands]
        /\ option \in [Callers -> Explicit \cup {None}]
        /\ lagged \in [Callers -> BOOLEAN]
    BY <2>1 DEF Init
  <2> QED
    BY <2>1, <2>2, <2>3, <2>4 DEF Init, TypeOK, ChannelStates
<1>2. TypeOK /\ [Next]_vars => TypeOK'
  <2> SUFFICES ASSUME TypeOK, [Next]_vars PROVE TypeOK'
    OBVIOUS
  <2> USE DEF chanVars, genVars, callVars, relayVars, recvVars, voxVars
  <2>1. CASE CreateSession
    BY <2>1 DEF CreateSession, TypeOK, ChannelStates
  <2>2. CASE PondChanges
    BY <2>2 DEF PondChanges, PondMoves, TypeOK, ChannelStates
  <2>3. CASE MirrorState
    BY <2>3 DEF MirrorState, map_channel_state, TypeOK, ChannelStates
  <2>4. CASE JoinReturns
    BY <2>4 DEF JoinReturns, TypeOK
  <2>5. CASE CloseSession
    BY <2>5 DEF CloseSession, TypeOK, ChannelStates
  <2>6. ASSUME NEW e \in VoxEvents, VoxSends(e), atVox' \subseteq atVox,
               UNCHANGED heard
        PROVE  TypeOK'
    BY <2>6 DEF VoxSends, TypeOK
  <2>7. CASE VoxTells
    BY <2>6, <2>7, ToldEvents
  <2>8. ASSUME NEW start \in atVox, VoxAnswers(start) PROVE TypeOK'
    <3>1. \A type \in Answers : Event(type, start.id, start.start) \in VoxEvents
      BY DEF Event, VoxEvents, TypeOK, Commands
    <3> QED
      BY <2>6, <2>8, <3>1 DEF VoxAnswers
  <2>9. CASE UNCHANGED vars
    BY <2>9 DEF vars, TypeOK
  <2> QED
    BY <2>1, <2>2, <2>3, <2>4, <2>5, <2>7, <2>8, <2>9, CallTypes, StepTypes,
       ReceiverTypes DEF Next, Attaching, Vox
<1> QED
  BY <1>1, <1>2, PTL DEF Spec
-----------------------------------------------------------------------------
(* A start or an answer carries an id of the application's, or the number  *)
(* of its own start.                                                       *)
Labelled(x) == x.id \in Explicit \/ x.id = x.start

(* Vox names a generation in an answer, or in the failure of a command     *)
(* that is not a start.                                                    *)
Tells(e) ==
    \/ e.id = None \/ Labelled(e)
    \/ e.type = "error" /\ e.start = 0

(* A caller has a labelled start or another command, and a caller that     *)
(* waits, or is going to, waits for a start.                               *)
CallerLabels ==
    /\ \A c \in Callers : cmd[c].kind = "start" =>
          cmd[c].id # None /\ Labelled(cmd[c])
    /\ \A c \in Callers : at[c] \in {"subscribe", "sendAndWait", "wait"} =>
          cmd[c].kind = "start"

(* Wherever a start or an answer is on its way, it is labelled.            *)
LabelInv ==
    /\ CallerLabels
    /\ \A s \in atVox : Labelled(s)
    /\ \A i \in 1..Len(pondLog) : Tells(pondLog[i])
    /\ \A i \in 1..Len(log) : Tells(log[i])

AckInv == LabelInv /\ AckIsForThisStart

(* Lemma: a caller is given a command that it does not wait for, or a      *)
(* labelled start.                                                         *)
LEMMA GivenLabels ==
    ASSUME TypeOK, LabelInv, NEW c \in Callers, NEW where, NEW k \in Commands,
           Proceeds(c, where, k),
           k.kind = "start" => k.id # None /\ Labelled(k),
           k.kind # "start" => where \notin {"subscribe", "sendAndWait", "wait"}
    PROVE  CallerLabels'
<1>1. /\ cmd'[c] = k /\ at'[c] = where
      /\ \A d \in Callers \ {c} : cmd'[d] = cmd[d] /\ at'[d] = at[d]
  BY DEF Proceeds, TypeOK
<1>2. \A d \in Callers : cmd'[d].kind = "start" =>
         cmd'[d].id # None /\ Labelled(cmd'[d])
  BY <1>1 DEF LabelInv, CallerLabels
<1>3. \A d \in Callers : at'[d] \in {"subscribe", "sendAndWait", "wait"} =>
         cmd'[d].kind = "start"
  BY <1>1 DEF LabelInv, CallerLabels
<1> QED
  BY <1>2, <1>3 DEF CallerLabels, Labelled

(* Lemma: the same when nothing is sent.                                   *)
LEMMA GivenCommand ==
    ASSUME TypeOK, AckInv, NEW c \in Callers, NEW where, NEW k \in Commands,
           Proceeds(c, where, k),
           k.kind = "start" => k.id # None /\ Labelled(k),
           k.kind # "start" => where \notin {"subscribe", "sendAndWait", "wait"},
           UNCHANGED <<atVox, pondLog, log, acks>>
    PROVE  AckInv'
<1>1. CallerLabels'
  BY GivenLabels DEF AckInv
<1> QED
  BY <1>1 DEF AckInv, LabelInv, CallerLabels, AckIsForThisStart, Labelled

(* Lemma: the calls.                                                       *)
LEMMA CallAck ==
    ASSUME TypeOK, AckInv, NEW c \in Callers, Calls(c)
    PROVE  AckInv'
<1> PICK id \in Explicit \cup {None} :
       \/ StartResponse(c, id) \/ StartResponseAndWait(c, id)
       \/ SendTextResponse(c, id) \/ CancelResponse(c, id)
       \/ ReplaceResponseText(c, id) \/ FollowUp(c, id)
       \/ id = None /\ SendsOther(c)
  BY DEF Calls
<1> USE DEF Issues, chanVars, genVars, relayVars, recvVars, voxVars
<1>1. ASSUME NEW where, NEW then, StartPayload(c, id, where, then)
      PROVE  AckInv'
  <2> DEFINE k == Command("start", StartedId(id), counter + 1)
  <2>1. k \in Commands /\ k.kind = "start" /\ k.id # None /\ Labelled(k)
    <3>1. counter + 1 \in Nat /\ StartedId(id) \in AnyId \ {None}
      BY DEF StartedId, AnyId, TypeOK
    <3>2. StartedId(id) \in Explicit \/ StartedId(id) = counter + 1
      BY DEF StartedId
    <3> QED
      BY <3>1, <3>2 DEF Command, Commands, Labelled
  <2>2. Proceeds(c, where, k) /\ UNCHANGED <<atVox, pondLog, log, acks>>
    BY <1>1 DEF StartPayload
  <2> HIDE DEF k
  <2> QED
    BY <2>1, <2>2, GivenCommand
<1>2. ASSUME NEW kind \in {"follow-up", "other", "cancel", "replace"},
             NEW i \in AnyId, NEW where \in {"send", "clear"},
             Proceeds(c, where, Command(kind, i, 0)),
             UNCHANGED <<atVox, pondLog, log, acks>>
      PROVE  AckInv'
  <2> DEFINE k == Command(kind, i, 0)
  <2>1. k \in Commands /\ k.kind # "start"
    BY DEF Command, Commands
  <2>2. Proceeds(c, where, k)
    BY <1>2
  <2> HIDE DEF k
  <2> QED
    BY <1>2, <2>1, <2>2, GivenCommand
<1>3. Threaded(id) \in AnyId /\ id \in AnyId /\ None \in AnyId
  BY DEF Threaded, TextOption, AnyId, TypeOK
<1>4. CASE StartResponse(c, id) \/ StartResponseAndWait(c, id)
             \/ SendTextResponse(c, id)
  BY <1>1, <1>4 DEF StartResponse, StartResponseAndWait, SendTextResponse
<1>5. CASE CancelResponse(c, id) \/ ReplaceResponseText(c, id)
  BY <1>2, <1>3, <1>5 DEF CancelResponse, ReplaceResponseText
<1>6. CASE FollowUp(c, id) \/ (id = None /\ SendsOther(c))
  BY <1>2, <1>3, <1>6 DEF FollowUp, SendsOther
<1> QED
  BY <1>4, <1>5, <1>6

(* Lemma: what a caller does after that.                                   *)
LEMMA StepAck ==
    ASSUME TypeOK, AckInv, NEW c \in Callers,
           Steps(c) \/ WaiterReceives(c) \/ WaitTimesOut(c)
    PROVE  AckInv'
<1> USE DEF chanVars, genVars, relayVars, recvVars, voxVars
<1>1. /\ NoCommand \in Commands /\ NoCommand.kind # "start"
      /\ cmd[c] \in Commands
      /\ cmd[c].kind = "start" => cmd[c].id # None /\ Labelled(cmd[c])
  BY DEF NoCommand, Command, Commands, AnyId, TypeOK, AckInv, LabelInv,
         CallerLabels
<1>2. ASSUME Returns(c), UNCHANGED <<atVox, pondLog, log, acks>>
      PROVE  AckInv'
  BY <1>1, <1>2, GivenCommand DEF Returns
<1>3. CASE CancelClears(c)
  BY <1>1, <1>3, GivenCommand DEF CancelClears
<1>4. CASE Subscribes(c)
  <2>1. cmd[c].kind = "start"
    BY <1>4 DEF Subscribes, AckInv, LabelInv, CallerLabels
  <2> QED
    BY <1>1, <1>4, <2>1, GivenCommand DEF Subscribes
<1>5. CASE SendControl(c)
  <2>1. UNCHANGED <<pondLog, log, acks>> /\ (Returns(c) \/ Continues(c))
    BY <1>5 DEF SendControl
  <2>2. CallerLabels'
    <3>1. CASE Returns(c)
      BY <1>1, <3>1, GivenLabels DEF Returns, AckInv
    <3>2. CASE at[c] = "send" /\ rest[c] > 0 /\ Continues(c)
      <4> DEFINE k == Command("follow-up", Threaded(TextOption(c)), 0)
      <4>1. k \in Commands /\ k.kind # "start"
        BY DEF Command, Commands, Threaded, TextOption, AnyId, TypeOK
      <4>2. Proceeds(c, "send", k)
        BY <3>2 DEF Continues, TypeOK
      <4> HIDE DEF k
      <4> QED
        BY <4>1, <4>2, GivenLabels DEF AckInv
    <3>3. CASE at[c] = "sendAndWait" /\ Continues(c)
      <4>1. Proceeds(c, "wait", cmd[c]) /\ cmd[c].kind = "start"
        BY <3>3 DEF Continues, AckInv, LabelInv, CallerLabels
      <4> QED
        BY <1>1, <4>1, GivenLabels DEF AckInv
    <3> QED
      BY <2>1, <3>1, <3>2, <3>3 DEF Continues
  <2>3. \A s \in atVox' : Labelled(s)
    <3>1. cmd[c] \in Starts => cmd[c].kind = "start"
      BY DEF Starts, Command
    <3>2. \A s \in atVox' : s \in atVox \/ (s = cmd[c] /\ s \in Starts)
      BY <1>5 DEF SendControl
    <3> QED
      BY <1>1, <3>1, <3>2 DEF AckInv, LabelInv, CallerLabels
  <2> QED
    BY <2>1, <2>2, <2>3
       DEF AckInv, LabelInv, CallerLabels, AckIsForThisStart, Labelled
<1>6. CASE WaiterReceives(c) /\ UNCHANGED <<at, cmd, acks>>
  BY <1>6
     DEF WaiterReceives, AckInv, LabelInv, CallerLabels, AckIsForThisStart, Labelled
<1>7. CASE WaiterReceives(c) /\ ~UNCHANGED <<at, cmd, acks>>
  <2> DEFINE e == log[next[c]]
  <2>1. /\ at[c] = "wait" /\ Acknowledges(c, e) /\ Returns(c)
        /\ acks' = acks \cup {[to |-> cmd[c], answer |-> e]}
        /\ UNCHANGED <<atVox, pondLog, log>>
    BY <1>7 DEF WaiterReceives
  <2>2. next[c] \in 1..Len(log)
    BY <1>7 DEF WaiterReceives, Ready, TypeOK, Receivers
  <2>3. e.id = cmd[c].id /\ cmd[c].id # None /\ Labelled(cmd[c])
    BY <1>1, <2>1 DEF Acknowledges, AckInv, LabelInv, CallerLabels
  <2>4. Labelled(e) \/ (e.type = "error" /\ e.start = 0)
    BY <2>2, <2>3 DEF AckInv, LabelInv, CallerLabels, Tells
  <2>5. AckIsForThisStart'
    <3> SUFFICES ASSUME NEW a \in acks'
                 PROVE  /\ a.answer.id = a.to.id
                        /\ a.to.id \notin Explicit =>
                              \/ a.answer.start = a.to.start
                              \/ a.answer.type = "error" /\ a.answer.start = 0
      BY DEF AckIsForThisStart
    <3>1. CASE a \in acks
      BY <3>1 DEF AckInv, AckIsForThisStart
    <3>2. CASE a = [to |-> cmd[c], answer |-> e]
      BY <2>3, <2>4, <3>2 DEF Labelled
    <3> QED
      BY <2>1, <3>1, <3>2
  <2>6. /\ cmd'[c] = NoCommand /\ at'[c] = "idle"
        /\ \A d \in Callers \ {c} : cmd'[d] = cmd[d] /\ at'[d] = at[d]
    BY <2>1 DEF Returns, Proceeds, TypeOK
  <2>7. LabelInv'
    BY <1>1, <2>1, <2>6 DEF AckInv, LabelInv, CallerLabels, Labelled
  <2> QED
    BY <2>5, <2>7 DEF AckInv
<1>8. CASE WaitTimesOut(c)
  BY <1>2, <1>8 DEF WaitTimesOut
<1> QED
  BY <1>3, <1>4, <1>5, <1>6, <1>7, <1>8 DEF Steps

(* Lemma: Vox's answers, and the relay that copies them.                   *)
LEMMA EventAck ==
    ASSUME TypeOK, AckInv, Vox \/ Relay
    PROVE  AckInv'
<1> USE DEF chanVars, genVars, callVars, relayVars, recvVars, voxVars
<1>1. ASSUME NEW e \in VoxEvents, VoxSends(e), Tells(e), atVox' \subseteq atVox
      PROVE  AckInv'
  <2>1. \A i \in 1..Len(pondLog') : Tells(pondLog'[i])
    <3>1. pondLog' = Append(pondLog, e)
      BY <1>1 DEF VoxSends
    <3>2. \A i \in 1..Len(pondLog') :
             pondLog'[i] = e \/ (i \in 1..Len(pondLog) /\ pondLog'[i] = pondLog[i])
      BY <3>1 DEF TypeOK
    <3> QED
      BY <1>1, <3>2 DEF AckInv, LabelInv
  <2>2. \A s \in atVox' : Labelled(s)
    BY <1>1 DEF AckInv, LabelInv, CallerLabels
  <2>3. UNCHANGED <<at, cmd, log, acks>>
    BY <1>1 DEF VoxSends
  <2> QED
    BY <2>1, <2>2, <2>3
       DEF AckInv, LabelInv, CallerLabels, AckIsForThisStart, Labelled
<1>2. CASE VoxTells
  BY <1>1, <1>2, ToldEvents DEF Tells
<1>3. ASSUME NEW start \in atVox, VoxAnswers(start) PROVE AckInv'
  <2>1. \A type \in Answers :
           /\ Event(type, start.id, start.start) \in VoxEvents
           /\ Tells(Event(type, start.id, start.start))
    BY DEF Event, VoxEvents, TypeOK, Commands, AckInv, LabelInv, CallerLabels,
           Labelled, Tells
  <2> QED
    BY <1>1, <1>3, <2>1 DEF VoxAnswers
<1>4. CASE RelayCopies
  <2>1. relayNext \in 1..Len(pondLog)
    BY <1>4 DEF RelayCopies, Ready, TypeOK
  <2>2. Tells(pondLog[relayNext])
    BY <2>1 DEF AckInv, LabelInv, CallerLabels
  <2>3. pondLog[relayNext] \in VoxEvents
    BY <2>1 DEF TypeOK
  <2>4. \A i \in 1..Len(log') : Tells(log'[i])
    <3>1. log' = log \/ log' = Append(log, pondLog[relayNext])
      BY <1>4 DEF RelayCopies
    <3>2. \A i \in 1..Len(log') :
             \/ log'[i] = pondLog[relayNext]
             \/ i \in 1..Len(log) /\ log'[i] = log[i]
      BY <2>3, <3>1 DEF TypeOK
    <3> QED
      BY <2>2, <3>2 DEF AckInv, LabelInv
  <2> QED
    BY <1>4, <2>4
       DEF RelayCopies, AckInv, LabelInv, CallerLabels, AckIsForThisStart, Labelled
<1>5. CASE RelayLags
  BY <1>5
     DEF RelayLags, AckInv, LabelInv, CallerLabels, AckIsForThisStart, Labelled
<1> QED
  BY <1>2, <1>3, <1>4, <1>5 DEF Vox, Relay

(* Every start and every answer that is on its way is labelled, and every  *)
(* StartAck that was returned belongs to its call.                         *)
THEOREM AcksAreLabelled == Spec => []AckInv
<1>1. Init => AckInv
  BY DEF Init, AckInv, LabelInv, CallerLabels, AckIsForThisStart, NoCommand,
         Command
<1>2. TypeOK /\ AckInv /\ [Next]_vars => AckInv'
  <2> SUFFICES ASSUME TypeOK, AckInv, [Next]_vars PROVE AckInv'
    OBVIOUS
  <2> USE DEF chanVars, genVars, callVars, relayVars, recvVars, voxVars
  <2>1. CASE UNCHANGED <<at, cmd, atVox, pondLog, log, acks>>
    BY <2>1 DEF AckInv, LabelInv, CallerLabels, AckIsForThisStart, Labelled
  <2>2. CASE Attaching \/ PondChanges \/ CloseSession
    BY <2>1, <2>2 DEF Attaching, CreateSession, MirrorState, JoinReturns,
                      PondChanges, CloseSession
  <2>3. ASSUME NEW l \in Listeners,
               Listens(l) \/ DropsListener(l) \/ ListenerReceives(l)
        PROVE  AckInv'
    BY <2>1, <2>3 DEF Listens, DropsListener, ListenerReceives
  <2>4. CASE UNCHANGED vars
    BY <2>1, <2>4 DEF vars
  <2> QED
    BY <2>2, <2>3, <2>4, CallAck, StepAck, EventAck DEF Next
<1> QED
  BY <1>1, <1>2, SessionTypes, PTL DEF Spec

(* start_response_and_wait() returns only what names its own generation,   *)
(* and for a generated id no answer of another start: the acceptance is    *)
(* the one of this very start, a rejection is, or is the failure of        *)
(* another command that named this generation.                             *)
THEOREM AckAnswersItsStart == Spec => []AckIsForThisStart
<1>1. AckInv => AckIsForThisStart
  BY DEF AckInv
<1> QED
  BY <1>1, AcksAreLabelled, PTL

-----------------------------------------------------------------------------
(* Starts are numbered by the counter, no two callers have the same one,   *)
(* and nothing on its way to or from Vox carries a number not yet given.   *)
CallerNumbers ==
    /\ \A c \in Callers : cmd[c].kind = "start" => cmd[c].start \in 1..counter
    /\ \A c, d \in Callers :
          /\ cmd[c].kind = "start" /\ cmd[d].kind = "start"
          /\ cmd[c].start = cmd[d].start
          => c = d

TrafficNumbers ==
    /\ \A k \in atVox : k.start <= counter
    /\ \A i \in 1..Len(pondLog) : pondLog[i].start <= counter
    /\ \A i \in 1..Len(log) : log[i].start <= counter

(* Before a start is sent, nothing carries its number ...                  *)
UnsentOf(c) ==
    /\ \A k \in atVox : k.start # cmd[c].start
    /\ \A i \in 1..Len(pondLog) : pondLog[i].start # cmd[c].start
    /\ \A i \in 1..Len(log) : log[i].start # cmd[c].start

(* ... and afterwards what carries it names its generation and ends the    *)
(* wait of the caller.                                                     *)
SentOf(c) ==
    /\ \A k \in atVox : k.start = cmd[c].start => k.id = cmd[c].id
    /\ \A i \in 1..Len(pondLog) :
          pondLog[i].start = cmd[c].start => Acknowledges(c, pondLog[i])
    /\ \A i \in 1..Len(log) :
          log[i].start = cmd[c].start => Acknowledges(c, log[i])

AheadOf(c) ==
    ~lagged[c] =>
        \A i \in 1..Len(log) : log[i].start = cmd[c].start => next[c] <= i

AnswerOf(c) ==
    /\ at[c] \in {"subscribe", "sendAndWait"} => UnsentOf(c)
    /\ at[c] \in {"sendAndWait", "wait"} => next[c] <= Len(log) + 1
    /\ at[c] = "wait" => SentOf(c) /\ AheadOf(c)

AnswerInv ==
    /\ CallerNumbers /\ TrafficNumbers
    /\ \A c \in Callers : AnswerOf(c)

(* Lemma: what is on its way carries a number.                             *)
LEMMA TrafficTypes ==
    ASSUME TypeOK
    PROVE  /\ \A k \in atVox : k.start \in Nat
           /\ \A i \in 1..Len(pondLog) : pondLog[i].start \in Nat
           /\ \A i \in 1..Len(log) : log[i].start \in Nat
<1>1. \A k \in atVox : k.start \in Nat
  BY DEF TypeOK, Commands
<1>2. \A l \in Seq(VoxEvents) : \A i \in 1..Len(l) : l[i] \in VoxEvents
  OBVIOUS
<1>3. \A e \in VoxEvents : e.start \in Nat
  BY DEF VoxEvents
<1> QED
  BY <1>1, <1>2, <1>3 DEF TypeOK

(* Lemma: a caller that goes on with its own start, or with no start,      *)
(* keeps the numbers apart.                                                *)
LEMMA KeptNumbers ==
    ASSUME TypeOK, CallerNumbers, NEW c \in Callers, NEW where,
           NEW k \in Commands, Proceeds(c, where, k), counter' = counter,
           k.kind = "start" => k = cmd[c]
    PROVE  CallerNumbers'
<1>1. cmd'[c] = k /\ \A d \in Callers \ {c} : cmd'[d] = cmd[d]
  BY DEF Proceeds, TypeOK
<1>2. \A d \in Callers : cmd'[d].kind = "start" => cmd'[d] = cmd[d]
  BY <1>1
<1> QED
  BY <1>2 DEF CallerNumbers

(* Lemma: the number of a new start is nobody's.                           *)
LEMMA NewNumber ==
    ASSUME TypeOK, CallerNumbers, NEW c \in Callers, NEW where,
           NEW k \in Commands, Proceeds(c, where, k), counter' = counter + 1,
           k.start = counter + 1
    PROVE  CallerNumbers'
<1>1. cmd'[c] = k /\ \A d \in Callers \ {c} : cmd'[d] = cmd[d]
  BY DEF Proceeds, TypeOK
<1>2. counter \in Nat /\ \A d \in Callers : cmd[d].start \in Nat
  BY DEF TypeOK, Commands
<1>3. \A d \in Callers \ {c} : cmd'[d].kind = "start" =>
         cmd'[d].start \in 1..counter /\ cmd'[d].start # counter + 1
  BY <1>1, <1>2 DEF CallerNumbers
<1>4. \A d \in Callers : cmd'[d].kind = "start" => cmd'[d].start \in 1..counter'
  BY <1>1, <1>2, <1>3
<1>5. ASSUME NEW d \in Callers, NEW e \in Callers,
             cmd'[d].kind = "start", cmd'[e].kind = "start",
             cmd'[d].start = cmd'[e].start
      PROVE  d = e
  BY <1>1, <1>3, <1>5 DEF CallerNumbers
<1> QED
  BY <1>4, <1>5 DEF CallerNumbers

(* Lemma: what one caller sends is nothing to another.                     *)
LEMMA OthersAnswers ==
    ASSUME LabelInv, AnswerInv, NEW c \in Callers, NEW d \in Callers \ {c},
           at'[d] = at[d], cmd'[d] = cmd[d], next'[d] = next[d],
           lagged'[d] = lagged[d], UNCHANGED <<pondLog, log>>,
           \/ atVox' = atVox
           \/ atVox' = atVox \cup {cmd[c]} /\ cmd[c].kind = "start"
    PROVE  AnswerOf(d)'
<1>1. at[d] \in {"subscribe", "sendAndWait", "wait"} =>
         \A k \in atVox' : k.start = cmd[d].start => k \in atVox
  BY DEF LabelInv, CallerLabels, AnswerInv, CallerNumbers
<1>2. /\ at[d] \in {"subscribe", "sendAndWait"} => UnsentOf(d)'
      /\ at[d] = "wait" => SentOf(d)'
  BY <1>1 DEF AnswerInv, AnswerOf, UnsentOf, SentOf, Acknowledges
<1> QED
  BY <1>2 DEF AnswerInv, AnswerOf, AheadOf

(* Lemma: the calls.                                                       *)
LEMMA CallAnswers ==
    ASSUME TypeOK, LabelInv, AnswerInv, NEW c \in Callers, Calls(c)
    PROVE  AnswerInv'
<1> PICK id \in Explicit \cup {None} :
       \/ StartResponse(c, id) \/ StartResponseAndWait(c, id)
       \/ SendTextResponse(c, id) \/ CancelResponse(c, id)
       \/ ReplaceResponseText(c, id) \/ FollowUp(c, id)
       \/ id = None /\ SendsOther(c)
  BY DEF Calls
<1>1. /\ UNCHANGED <<atVox, pondLog, log, next, lagged>>
      /\ \A d \in Callers \ {c} : at'[d] = at[d] /\ cmd'[d] = cmd[d]
  BY DEF StartResponse, StartResponseAndWait, SendTextResponse, StartPayload,
         CancelResponse, ReplaceResponseText, FollowUp, SendsOther, Proceeds,
         relayVars, recvVars, voxVars, TypeOK
<1>2. \A d \in Callers \ {c} : AnswerOf(d)'
  BY <1>1, OthersAnswers
<1>3. ASSUME NEW where \in {"send", "subscribe"}, NEW then,
             StartPayload(c, id, where, then)
      PROVE  AnswerInv'
  <2> DEFINE k == Command("start", StartedId(id), counter + 1)
  <2>1. counter \in Nat /\ k \in Commands /\ k.start = counter + 1
    BY DEF StartedId, AnyId, TypeOK, Command, Commands
  <2>2. Proceeds(c, where, k) /\ counter' = counter + 1
    BY <1>3 DEF StartPayload
  <2>3. at'[c] = where /\ cmd'[c] = k
    BY <2>2 DEF Proceeds, TypeOK
  <2> HIDE DEF k
  <2>4. CallerNumbers'
    BY <2>1, <2>2, NewNumber DEF AnswerInv
  <2>5. /\ \A x \in atVox : x.start \in Nat
        /\ \A i \in 1..Len(pondLog) : pondLog[i].start \in Nat
        /\ \A i \in 1..Len(log) : log[i].start \in Nat
    BY TrafficTypes
  <2>6. TrafficNumbers' /\ UnsentOf(c)'
    BY <1>1, <2>1, <2>2, <2>3, <2>5 DEF AnswerInv, TrafficNumbers, UnsentOf
  <2>7. AnswerOf(c)'
    BY <2>3, <2>6 DEF AnswerOf
  <2> QED
    BY <1>2, <2>4, <2>6, <2>7 DEF AnswerInv
<1>4. ASSUME NEW kind \in {"follow-up", "other", "cancel", "replace"},
             NEW i \in AnyId, NEW where \in {"send", "clear"},
             Proceeds(c, where, Command(kind, i, 0)), counter' = counter
      PROVE  AnswerInv'
  <2> DEFINE k == Command(kind, i, 0)
  <2>1. k \in Commands /\ k.kind # "start"
    BY DEF Command, Commands
  <2>2. Proceeds(c, where, k)
    BY <1>4
  <2> HIDE DEF k
  <2>3. CallerNumbers'
    BY <1>4, <2>1, <2>2, KeptNumbers DEF AnswerInv
  <2>4. AnswerOf(c)'
    BY <2>2 DEF Proceeds, TypeOK, AnswerOf
  <2> QED
    BY <1>1, <1>2, <1>4, <2>3, <2>4 DEF AnswerInv, TrafficNumbers
<1>5. Threaded(id) \in AnyId /\ id \in AnyId /\ None \in AnyId
  BY DEF Threaded, TextOption, AnyId, TypeOK
<1>6. CASE StartResponse(c, id) \/ StartResponseAndWait(c, id)
             \/ SendTextResponse(c, id)
  BY <1>3, <1>6 DEF StartResponse, StartResponseAndWait, SendTextResponse
<1>7. CASE CancelResponse(c, id) \/ ReplaceResponseText(c, id)
  BY <1>4, <1>5, <1>7 DEF CancelResponse, ReplaceResponseText, genVars
<1>8. CASE FollowUp(c, id) \/ (id = None /\ SendsOther(c))
  BY <1>4, <1>5, <1>8 DEF FollowUp, SendsOther, genVars
<1> QED
  BY <1>6, <1>7, <1>8

(* Lemma: where a caller goes that does not wait, its part is trivial.     *)
LEMMA GoesOn ==
    ASSUME TypeOK, LabelInv, AnswerInv, NEW c \in Callers,
           NEW where \in {"idle", "send"}, NEW k \in Commands,
           Proceeds(c, where, k), counter' = counter,
           k.kind = "start" => k = cmd[c],
           \A d \in Callers \ {c} : next'[d] = next[d] /\ lagged'[d] = lagged[d],
           UNCHANGED <<pondLog, log>>,
           \/ atVox' = atVox
           \/ atVox' = atVox \cup {cmd[c]} /\ cmd[c].kind = "start"
    PROVE  AnswerInv'
<1>1. CallerNumbers'
  BY KeptNumbers DEF AnswerInv
<1>2. /\ at'[c] = where
      /\ \A d \in Callers \ {c} : at'[d] = at[d] /\ cmd'[d] = cmd[d]
  BY DEF Proceeds, TypeOK
<1>3. \A d \in Callers \ {c} : AnswerOf(d)'
  BY <1>2, OthersAnswers
<1>4. AnswerOf(c)'
  BY <1>2 DEF AnswerOf
<1>5. TrafficNumbers'
  <2>1. cmd[c].kind = "start" => cmd[c].start <= counter
    BY DEF AnswerInv, CallerNumbers
  <2> QED
    BY <2>1 DEF AnswerInv, TrafficNumbers
<1> QED
  BY <1>1, <1>3, <1>4, <1>5 DEF AnswerInv

(* Lemma: what a caller does after the call has begun.                     *)
LEMMA StepAnswers ==
    ASSUME TypeOK, LabelInv, AnswerInv, NEW c \in Callers,
           Steps(c) \/ WaiterReceives(c) \/ WaitTimesOut(c)
    PROVE  AnswerInv'
<1> USE DEF relayVars, recvVars, voxVars, genVars
<1>1. /\ NoCommand \in Commands /\ NoCommand.kind # "start"
      /\ cmd[c] \in Commands /\ c \in Receivers
  BY DEF NoCommand, Command, Commands, AnyId, TypeOK, Receivers
<1>2. ASSUME Returns(c), UNCHANGED <<pondLog, log, atVox, counter>>
      PROVE  AnswerInv'
  <2>1. \A d \in Callers \ {c} : next'[d] = next[d] /\ lagged'[d] = lagged[d]
    BY <1>2 DEF Returns, TypeOK, Receivers
  <2> QED
    BY <1>1, <1>2, <2>1, GoesOn DEF Returns
<1>3. CASE CancelClears(c)
  BY <1>1, <1>3, GoesOn DEF CancelClears
<1>4. CASE Subscribes(c)
  <2>1. /\ Proceeds(c, "sendAndWait", cmd[c]) /\ counter' = counter
        /\ next' = [next EXCEPT ![c] = Subscribed(log)]
        /\ lagged' = [lagged EXCEPT ![c] = FALSE]
        /\ UNCHANGED <<atVox, pondLog, log>> /\ at[c] = "subscribe"
    BY <1>4 DEF Subscribes
  <2>2. CallerNumbers' /\ TrafficNumbers'
    BY <1>1, <2>1, KeptNumbers DEF AnswerInv, TrafficNumbers
  <2>3. /\ at'[c] = "sendAndWait" /\ cmd'[c] = cmd[c]
        /\ next'[c] = Len(log) + 1
        /\ \A d \in Callers \ {c} : /\ at'[d] = at[d] /\ cmd'[d] = cmd[d]
                                    /\ next'[d] = next[d]
                                    /\ lagged'[d] = lagged[d]
    BY <2>1 DEF Proceeds, TypeOK, Receivers, Subscribed
  <2>4. AnswerOf(c)'
    <3>1. Len(log) \in Nat
      BY DEF TypeOK
    <3> QED
      BY <2>1, <2>3, <3>1 DEF AnswerInv, AnswerOf, UnsentOf
  <2>5. \A d \in Callers \ {c} : AnswerOf(d)'
    BY <2>1, <2>3, OthersAnswers
  <2> QED
    BY <2>2, <2>4, <2>5 DEF AnswerInv
<1>5. CASE SendControl(c)
  <2>1. /\ UNCHANGED <<pondLog, log, counter>>
        /\ \/ Returns(c) /\ atVox' = atVox
           \/ Continues(c) /\ atVox' = atVox
           \/ Continues(c) /\ atVox' = atVox \cup ({cmd[c]} \cap Starts)
    BY <1>5 DEF SendControl
  <2>2. \/ atVox' = atVox
        \/ atVox' = atVox \cup {cmd[c]} /\ cmd[c].kind = "start"
    BY <2>1 DEF Starts, Command
  <2>3. CASE Returns(c)
    <3>1. \A d \in Callers \ {c} : next'[d] = next[d] /\ lagged'[d] = lagged[d]
      BY <2>3 DEF Returns, TypeOK, Receivers
    <3> QED
      BY <1>1, <2>1, <2>2, <2>3, <3>1, GoesOn DEF Returns
  <2>4. CASE at[c] = "send" /\ rest[c] > 0 /\ Continues(c)
    <3> DEFINE k == Command("follow-up", Threaded(TextOption(c)), 0)
    <3>1. k \in Commands /\ k.kind # "start"
      BY DEF Command, Commands, Threaded, TextOption, AnyId, TypeOK
    <3>2. Proceeds(c, "send", k) /\ UNCHANGED <<next, lagged>>
      BY <2>4 DEF Continues, TypeOK
    <3> HIDE DEF k
    <3> QED
      BY <2>1, <2>2, <3>1, <3>2, GoesOn
  <2>5. CASE at[c] = "sendAndWait" /\ Continues(c)
    <3>1. Proceeds(c, "wait", cmd[c]) /\ UNCHANGED <<next, lagged>>
      BY <2>5 DEF Continues
    <3>2. /\ at'[c] = "wait" /\ cmd'[c] = cmd[c]
          /\ \A d \in Callers \ {c} : at'[d] = at[d] /\ cmd'[d] = cmd[d]
      BY <3>1 DEF Proceeds, TypeOK
    <3>3. CallerNumbers'
      BY <1>1, <2>1, <3>1, KeptNumbers DEF AnswerInv
    <3>4. TrafficNumbers'
      <4>1. cmd[c].kind = "start" => cmd[c].start <= counter
        BY DEF AnswerInv, CallerNumbers
      <4> QED
        BY <2>1, <2>2, <4>1 DEF AnswerInv, TrafficNumbers
    <3>5. \A d \in Callers \ {c} : AnswerOf(d)'
      BY <2>1, <2>2, <3>1, <3>2, OthersAnswers
    <3>6. UnsentOf(c) /\ next[c] <= Len(log) + 1
      BY <2>5 DEF AnswerInv, AnswerOf
    <3>7. SentOf(c)' /\ AheadOf(c)'
      BY <2>1, <2>2, <3>2, <3>6 DEF UnsentOf, SentOf, AheadOf
    <3>8. AnswerOf(c)'
      BY <2>1, <3>1, <3>2, <3>6, <3>7 DEF AnswerOf
    <3> QED
      BY <3>3, <3>4, <3>5, <3>8 DEF AnswerInv
  <2> QED
    BY <2>1, <2>3, <2>4, <2>5 DEF Continues
<1>6. CASE WaiterReceives(c)
  <2> DEFINE e == log[next[c]]
  <2>1. /\ at[c] = "wait" /\ next[c] \in 1..Len(log)
        /\ UNCHANGED <<pondLog, log, atVox, counter>>
    BY <1>1, <1>6 DEF WaiterReceives, Ready, TypeOK
  <2>2. SentOf(c) /\ AheadOf(c)
    BY <2>1 DEF AnswerInv, AnswerOf
  <2>3. CASE UNCHANGED <<at, cmd>> /\ next'[c] <= Len(log) + 1 /\ AheadOf(c)'
             /\ \A d \in Callers \ {c} :
                   next'[d] = next[d] /\ lagged'[d] = lagged[d]
    <3>1. CallerNumbers' /\ TrafficNumbers'
      BY <2>1, <2>3 DEF AnswerInv, CallerNumbers, TrafficNumbers
    <3>2. \A d \in Callers \ {c} : AnswerOf(d)'
      BY <2>1, <2>3, OthersAnswers
    <3>3. AnswerOf(c)'
      BY <2>1, <2>2, <2>3 DEF AnswerOf, SentOf, Acknowledges
    <3> QED
      BY <3>1, <3>2, <3>3 DEF AnswerInv
  <2>4. CASE HasLagged(log, next[c], Capacity)
    <3>1. /\ next' = [next EXCEPT ![c] = Oldest(log, Capacity)]
          /\ lagged' = [lagged EXCEPT ![c] = TRUE]
          /\ UNCHANGED <<at, cmd>>
      BY <1>6, <2>4 DEF WaiterReceives, SkipsLag
    <3>2. Oldest(log, Capacity) <= Len(log) + 1
      BY DEF Oldest, TypeOK
    <3>3. /\ next'[c] = Oldest(log, Capacity) /\ lagged'[c] = TRUE
          /\ \A d \in Callers \ {c} :
                next'[d] = next[d] /\ lagged'[d] = lagged[d]
      BY <1>1, <3>1 DEF TypeOK, Receivers
    <3> QED
      BY <2>3, <3>1, <3>2, <3>3 DEF AheadOf
  <2>5. CASE ~HasLagged(log, next[c], Capacity) /\ Acknowledges(c, e)
    BY <1>2, <1>6, <2>1, <2>5 DEF WaiterReceives
  <2>6. CASE ~HasLagged(log, next[c], Capacity) /\ ~Acknowledges(c, e)
    <3>1. next' = [next EXCEPT ![c] = next[c] + 1] /\ UNCHANGED <<at, cmd, lagged>>
      BY <1>6, <2>6 DEF WaiterReceives, Takes
    <3>2. /\ next'[c] = next[c] + 1
          /\ \A d \in Callers \ {c} : next'[d] = next[d]
      BY <1>1, <3>1 DEF TypeOK, Receivers
    <3>3. e.start # cmd[c].start
      BY <2>1, <2>2, <2>6 DEF SentOf
    <3>4. AheadOf(c)'
      <4> SUFFICES ASSUME ~lagged[c], NEW i \in 1..Len(log),
                          log[i].start = cmd[c].start
                   PROVE  next[c] + 1 <= i
        BY <2>1, <3>1, <3>2 DEF AheadOf
      <4>1. next[c] <= i /\ i # next[c]
        BY <2>2, <3>3 DEF AheadOf
      <4> QED
        BY <2>1, <4>1
    <3>5. next'[c] <= Len(log) + 1
      BY <2>1, <3>2 DEF TypeOK
    <3> QED
      BY <2>3, <3>1, <3>2, <3>4, <3>5
  <2> QED
    BY <2>4, <2>5, <2>6
<1>7. CASE WaitTimesOut(c)
  BY <1>2, <1>7 DEF WaitTimesOut
<1> QED
  BY <1>3, <1>4, <1>5, <1>6, <1>7 DEF Steps

(* Lemma: an answer of Vox carries the number and the generation of a      *)
(* start that was sent.                                                    *)
LEMMA VoxKeepsAnswers ==
    ASSUME TypeOK, LabelInv, AnswerInv, Vox
    PROVE  AnswerInv'
<1> USE DEF genVars, callVars, recvVars, voxVars
<1>1. ASSUME NEW e \in VoxEvents, VoxSends(e), atVox' \subseteq atVox,
             \/ e.start = 0
             \/ e.type \in Answers
                /\ \E k \in atVox : e.start = k.start /\ e.id = k.id
      PROVE  AnswerInv'
  <2>1. /\ UNCHANGED <<at, cmd, log, next, lagged, counter>>
        /\ pondLog' = Append(pondLog, e)
    BY <1>1 DEF VoxSends
  <2>2. /\ Len(pondLog') = Len(pondLog) + 1 /\ Len(pondLog) \in Nat
        /\ \A i \in 1..Len(pondLog') :
              pondLog'[i] = IF i = Len(pondLog) + 1 THEN e ELSE pondLog[i]
    BY <2>1 DEF TypeOK
  <2>3. \A i \in 1..Len(pondLog') :
           pondLog'[i] = e \/ (i \in 1..Len(pondLog) /\ pondLog'[i] = pondLog[i])
    BY <2>2
  <2>4. CallerNumbers'
    BY <2>1 DEF AnswerInv, CallerNumbers
  <2>5. e.start <= counter
    BY <1>1 DEF AnswerInv, TrafficNumbers, TypeOK
  <2>6. TrafficNumbers'
    BY <1>1, <2>1, <2>3, <2>5 DEF AnswerInv, TrafficNumbers
  <2>7. ASSUME NEW c \in Callers PROVE AnswerOf(c)'
    <3>1. at[c] \in {"subscribe", "sendAndWait", "wait"} => cmd[c].start \in 1..counter
      BY DEF LabelInv, CallerLabels, AnswerInv, CallerNumbers
    <3>2. at[c] \in {"subscribe", "sendAndWait", "wait"} => cmd[c].start # 0
      BY <3>1
    <3>3. at[c] \in {"subscribe", "sendAndWait"} => UnsentOf(c)'
      BY <1>1, <2>1, <2>3, <3>2 DEF AnswerInv, AnswerOf, UnsentOf
    <3>4. at[c] = "wait" => SentOf(c)'
      <4> SUFFICES ASSUME at[c] = "wait" PROVE SentOf(c)'
        OBVIOUS
      <4>1. SentOf(c)
        BY DEF AnswerInv, AnswerOf
      <4>2. e.start = cmd[c].start => Acknowledges(c, e)
        BY <1>1, <3>2, <4>1 DEF SentOf, Acknowledges
      <4> QED
        BY <1>1, <2>1, <2>3, <4>1, <4>2 DEF SentOf, Acknowledges
    <3> QED
      BY <2>1, <3>3, <3>4 DEF AnswerInv, AnswerOf, AheadOf
  <2> QED
    BY <2>4, <2>6, <2>7 DEF AnswerInv
<1>2. CASE VoxTells
  BY <1>1, <1>2, ToldEvents
<1>3. ASSUME NEW start \in atVox, VoxAnswers(start) PROVE AnswerInv'
  <2>1. PICK type \in Answers : VoxSends(Event(type, start.id, start.start))
    BY <1>3 DEF VoxAnswers
  <2> DEFINE e == Event(type, start.id, start.start)
  <2>2. /\ e \in VoxEvents /\ e.type \in Answers
        /\ e.start = start.start /\ e.id = start.id
    BY DEF Event, VoxEvents, TypeOK, Commands
  <2>3. VoxSends(e) /\ atVox' \subseteq atVox
    BY <1>3, <2>1 DEF VoxAnswers
  <2> HIDE DEF e
  <2> QED
    BY <1>1, <2>2, <2>3
<1> QED
  BY <1>2, <1>3 DEF Vox

(* Lemma: what the relay copies is put ahead of every receiver.            *)
LEMMA RelayKeepsAnswers ==
    ASSUME TypeOK, LabelInv, AnswerInv, RelayCopies
    PROVE  AnswerInv'
<1> USE DEF genVars, callVars, recvVars, voxVars
<1> DEFINE e == pondLog[relayNext]
<1>1. relayNext \in 1..Len(pondLog) /\ e \in VoxEvents
  BY DEF RelayCopies, Ready, TypeOK
<1>2. /\ UNCHANGED <<at, cmd, atVox, pondLog, next, lagged, counter>>
      /\ log' = log \/ log' = Append(log, e)
  BY DEF RelayCopies
<1>3. CallerNumbers'
  BY <1>2 DEF AnswerInv, CallerNumbers
<1>4. /\ Len(log) \in Nat /\ Len(log') \in Nat /\ Len(log') >= Len(log)
      /\ \A i \in 1..Len(log') :
            \/ i \in 1..Len(log) /\ log'[i] = log[i]
            \/ i = Len(log) + 1 /\ log'[i] = e
  <2>1. CASE log' = log
    BY <2>1 DEF TypeOK
  <2>2. CASE log' = Append(log, e)
    BY <1>1, <2>2 DEF TypeOK
  <2> QED
    BY <1>2, <2>1, <2>2
<1>5. TrafficNumbers'
  BY <1>1, <1>2, <1>4 DEF AnswerInv, TrafficNumbers
<1>6. ASSUME NEW c \in Callers PROVE AnswerOf(c)'
  <2>1. at[c] \in {"subscribe", "sendAndWait"} => UnsentOf(c)'
    BY <1>1, <1>2, <1>4 DEF AnswerInv, AnswerOf, UnsentOf
  <2>2. next[c] \in Nat
    BY DEF TypeOK, Receivers
  <2>3. at[c] \in {"sendAndWait", "wait"} => next'[c] <= Len(log') + 1
    BY <1>2, <1>4, <2>2 DEF AnswerInv, AnswerOf
  <2>4. at[c] = "wait" => SentOf(c)'
    BY <1>1, <1>2, <1>4 DEF AnswerInv, AnswerOf, SentOf, Acknowledges
  <2>5. at[c] = "wait" => AheadOf(c)'
    BY <1>2, <1>4 DEF AnswerInv, AnswerOf, AheadOf
  <2> QED
    BY <1>2, <2>1, <2>3, <2>4, <2>5 DEF AnswerOf
<1> QED
  BY <1>3, <1>5, <1>6 DEF AnswerInv

(* Lemma: the numbers of the starts and the place of each answer, as an    *)
(* invariant of the whole specification.                                   *)
LEMMA AnswersAreAhead == Spec => []AnswerInv
<1>1. Init => AnswerInv
  BY DEF Init, AnswerInv, CallerNumbers, TrafficNumbers, AnswerOf, NoCommand,
         Command
<1>2. TypeOK /\ AckInv /\ AnswerInv /\ [Next]_vars => AnswerInv'
  <2> SUFFICES ASSUME TypeOK, AckInv, AnswerInv, [Next]_vars PROVE AnswerInv'
    OBVIOUS
  <2>1. LabelInv
    BY DEF AckInv
  <2>2. ASSUME UNCHANGED <<at, cmd, atVox, pondLog, log, lagged, counter>>,
               \A c \in Callers : next'[c] = next[c]
        PROVE  AnswerInv'
    BY <2>2 DEF AnswerInv, CallerNumbers, TrafficNumbers, AnswerOf, UnsentOf,
                SentOf, AheadOf, Acknowledges
  <2> USE DEF genVars, callVars, relayVars, recvVars, voxVars
  <2>3. CASE Attaching \/ PondChanges \/ CloseSession \/ RelayLags
    BY <2>2, <2>3 DEF Attaching, CreateSession, MirrorState, JoinReturns,
                      PondChanges, CloseSession, RelayLags
  <2>4. ASSUME NEW l \in Listeners,
               Listens(l) \/ DropsListener(l) \/ ListenerReceives(l)
        PROVE  AnswerInv'
    <3>1. UNCHANGED <<at, cmd, atVox, pondLog, log, lagged, counter>>
      BY <2>4 DEF Listens, DropsListener, ListenerReceives
    <3>2. \A c \in Callers : next'[c] = next[c]
      BY <2>4 DEF Listens, DropsListener, ListenerReceives, SkipsLag, Takes,
                  TypeOK, Receivers
    <3> QED
      BY <2>2, <3>1, <3>2
  <2>5. CASE UNCHANGED vars
    BY <2>2, <2>5 DEF vars
  <2> QED
    BY <2>1, <2>3, <2>4, <2>5, CallAnswers, StepAnswers, VoxKeepsAnswers,
       RelayKeepsAnswers DEF Next, Relay
<1> QED
  BY <1>1, <1>2, SessionTypes, AcksAreLabelled, PTL DEF Spec

(* As long as start_response_and_wait() waits and has not lagged, the      *)
(* answer to its start is still ahead of its receiver.                     *)
THEOREM AnswerIsNotMissed == Spec => []AnswerNotMissed
<1>1. TypeOK /\ AnswerInv => AnswerNotMissed
  <2> SUFFICES ASSUME TypeOK, AnswerInv PROVE AnswerNotMissed
    OBVIOUS
  <2>1. DOMAIN log = 1..Len(log)
    BY DEF TypeOK
  <2> QED
    BY <2>1 DEF AnswerInv, AnswerOf, AheadOf, AnswerNotMissed
<1> QED
  BY <1>1, SessionTypes, AnswersAreAhead, PTL

-----------------------------------------------------------------------------
(* While a text response is between two of its commands and nobody came    *)
(* between, the tracked generation is the one it started; an id of the     *)
(* application's is the one it started in any case.                        *)
WholeOf(c) ==
    /\ rest[c] > 0 /\ c \notin disturbed => tracked = started[c]
    /\ option[c] # None => started[c] = option[c]
    /\ at[c] \in {"idle", "clear"} => rest[c] = 0
    /\ at[c] = "idle" => started[c] = None /\ option[c] = None
    /\ cmd[c].kind = "follow-up" /\ started[c] # None =>
          cmd[c].id = started[c] \/ (option[c] = None /\ c \in disturbed)

WholeInv == \A c \in Callers : WholeOf(c)

(* Lemma: whoever changes the tracked generation comes between the others. *)
LEMMA OthersWhole ==
    ASSUME TypeOK, WholeInv, NEW c \in Callers, ComesBetween(c),
           NEW d \in Callers \ {c},
           at'[d] = at[d], cmd'[d] = cmd[d], rest'[d] = rest[d],
           option'[d] = option[d], started'[d] = started[d]
    PROVE  WholeOf(d)'
<1>1. rest[d] > 0 => d \in disturbed'
  BY DEF ComesBetween
<1>2. disturbed \subseteq disturbed'
  BY DEF ComesBetween
<1> QED
  BY <1>1, <1>2 DEF WholeInv, WholeOf

(* Lemma: the same when the tracked generation stays.                      *)
LEMMA KeptWhole ==
    ASSUME WholeInv, NEW d \in Callers,
           at'[d] = at[d], cmd'[d] = cmd[d], rest'[d] = rest[d],
           option'[d] = option[d], started'[d] = started[d],
           tracked' = tracked, d \in disturbed' <=> d \in disturbed
    PROVE  WholeOf(d)'
BY DEF WholeInv, WholeOf

(* Lemma: the calls.                                                       *)
LEMMA CallWhole ==
    ASSUME TypeOK, WholeInv, NEW c \in Callers, Calls(c)
    PROVE  WholeInv'
<1> PICK id \in Explicit \cup {None} :
       \/ StartResponse(c, id) \/ StartResponseAndWait(c, id)
       \/ SendTextResponse(c, id) \/ CancelResponse(c, id)
       \/ ReplaceResponseText(c, id) \/ FollowUp(c, id)
       \/ id = None /\ SendsOther(c)
  BY DEF Calls
<1>1. ASSUME NEW where \in {"send", "subscribe"}, NEW then \in Nat,
             StartPayload(c, id, where, then)
      PROVE  WholeInv'
  <2>1. /\ at' = [at EXCEPT ![c] = where]
        /\ cmd' = [cmd EXCEPT ![c] = Command("start", StartedId(id), counter + 1)]
        /\ rest' = [rest EXCEPT ![c] = then]
        /\ option' = [option EXCEPT ![c] = id]
        /\ started' = [started EXCEPT ![c] = StartedId(id)]
        /\ tracked' = StartedId(id) /\ ComesBetween(c)
    BY <1>1 DEF StartPayload, Proceeds
  <2>2. /\ at'[c] = where /\ cmd'[c].kind = "start" /\ option'[c] = id
        /\ started'[c] = StartedId(id)
    BY <2>1 DEF TypeOK, Command
  <2>3. \A d \in Callers \ {c} :
           /\ at'[d] = at[d] /\ cmd'[d] = cmd[d] /\ rest'[d] = rest[d]
           /\ option'[d] = option[d] /\ started'[d] = started[d]
    BY <2>1 DEF TypeOK
  <2>4. WholeOf(c)'
    BY <2>1, <2>2 DEF WholeOf, StartedId
  <2>5. \A d \in Callers \ {c} : WholeOf(d)'
    BY <2>1, <2>3, OthersWhole
  <2> QED
    BY <2>4, <2>5 DEF WholeInv
<1>2. CASE StartResponse(c, id) \/ StartResponseAndWait(c, id)
             \/ SendTextResponse(c, id)
  BY <1>1, <1>2 DEF StartResponse, StartResponseAndWait, SendTextResponse
<1>3. ASSUME NEW kind \in {"follow-up", "other", "cancel", "replace"}, NEW i,
             NEW where \in {"send", "clear"}, at[c] = "idle",
             Proceeds(c, where, Command(kind, i, 0)),
             UNCHANGED <<rest, option, started>>,
             \/ UNCHANGED <<tracked, disturbed>>
             \/ ComesBetween(c)
      PROVE  WholeInv'
  <2>1. /\ at' = [at EXCEPT ![c] = where]
        /\ cmd' = [cmd EXCEPT ![c] = Command(kind, i, 0)]
    BY <1>3 DEF Proceeds
  <2>2. at'[c] = where /\ \A d \in Callers \ {c} : at'[d] = at[d] /\ cmd'[d] = cmd[d]
    BY <2>1 DEF TypeOK
  <2>3. WholeOf(c)'
    BY <1>3, <2>2 DEF WholeInv, WholeOf
  <2>4. \A d \in Callers \ {c} : WholeOf(d)'
    <3>1. CASE UNCHANGED <<tracked, disturbed>>
      BY <1>3, <2>2, <3>1, KeptWhole
    <3>2. CASE ComesBetween(c)
      BY <1>3, <2>2, <3>2, OthersWhole
    <3> QED
      BY <1>3, <3>1, <3>2
  <2> QED
    BY <2>3, <2>4 DEF WholeInv
<1> USE DEF Issues, genVars
<1>4. CASE CancelResponse(c, id)
  BY <1>3, <1>4 DEF CancelResponse
<1>5. CASE ReplaceResponseText(c, id)
  BY <1>3, <1>5 DEF ReplaceResponseText
<1>6. CASE FollowUp(c, id) \/ (id = None /\ SendsOther(c))
  BY <1>3, <1>6 DEF FollowUp, SendsOther
<1> QED
  BY <1>2, <1>4, <1>5, <1>6

(* Lemma: what a caller does after that.                                   *)
LEMMA StepWhole ==
    ASSUME TypeOK, WholeInv, NEW c \in Callers,
           Steps(c) \/ WaiterReceives(c) \/ WaitTimesOut(c)
    PROVE  WholeInv'
<1>1. ASSUME Returns(c), UNCHANGED tracked PROVE WholeInv'
  <2>1. /\ at' = [at EXCEPT ![c] = "idle"] /\ cmd' = [cmd EXCEPT ![c] = NoCommand]
        /\ rest' = [rest EXCEPT ![c] = 0] /\ option' = [option EXCEPT ![c] = None]
        /\ started' = [started EXCEPT ![c] = None]
        /\ disturbed' = disturbed \ {c}
    BY <1>1 DEF Returns, Proceeds
  <2>2. /\ at'[c] = "idle" /\ cmd'[c] = NoCommand /\ rest'[c] = 0
        /\ option'[c] = None /\ started'[c] = None
    BY <2>1 DEF TypeOK
  <2>3. \A d \in Callers \ {c} :
           /\ at'[d] = at[d] /\ cmd'[d] = cmd[d] /\ rest'[d] = rest[d]
           /\ option'[d] = option[d] /\ started'[d] = started[d]
           /\ d \in disturbed' <=> d \in disturbed
    BY <2>1 DEF TypeOK
  <2>4. WholeOf(c)'
    BY <2>2 DEF WholeOf
  <2>5. \A d \in Callers \ {c} : WholeOf(d)'
    BY <1>1, <2>3, KeptWhole
  <2> QED
    BY <2>4, <2>5 DEF WholeInv
<1>2. CASE CancelClears(c)
  <2>1. /\ at[c] = "clear" /\ at' = [at EXCEPT ![c] = "send"]
        /\ cmd' = [cmd EXCEPT ![c] = cmd[c]] /\ ComesBetween(c)
        /\ UNCHANGED <<rest, option, started>>
    BY <1>2 DEF CancelClears, Proceeds
  <2>2. /\ at'[c] = "send" /\ cmd' = cmd
        /\ \A d \in Callers \ {c} : at'[d] = at[d]
    BY <2>1 DEF TypeOK
  <2>3. disturbed \subseteq disturbed'
    BY <2>1 DEF ComesBetween
  <2>4. WholeOf(c)'
    BY <2>1, <2>2, <2>3 DEF WholeInv, WholeOf
  <2>5. \A d \in Callers \ {c} : WholeOf(d)'
    BY <2>1, <2>2, OthersWhole
  <2> QED
    BY <2>4, <2>5 DEF WholeInv
<1>3. ASSUME NEW from \in {"subscribe", "sendAndWait"}, at[c] = from,
             NEW to \in {"sendAndWait", "wait"}, Proceeds(c, to, cmd[c]),
             UNCHANGED <<rest, option, tracked, started, disturbed>>
      PROVE  WholeInv'
  <2>1. /\ at' = [at EXCEPT ![c] = to] /\ cmd' = [cmd EXCEPT ![c] = cmd[c]]
    BY <1>3 DEF Proceeds
  <2>2. /\ at'[c] = to /\ cmd' = cmd
        /\ \A d \in Callers \ {c} : at'[d] = at[d]
    BY <2>1 DEF TypeOK
  <2>3. WholeOf(c)'
    BY <1>3, <2>2 DEF WholeInv, WholeOf
  <2>4. \A d \in Callers \ {c} : WholeOf(d)'
    BY <1>3, <2>2, KeptWhole
  <2> QED
    BY <2>3, <2>4 DEF WholeInv
<1>4. CASE Subscribes(c)
  BY <1>3, <1>4 DEF Subscribes, genVars
<1>5. CASE SendControl(c)
  <2>1. UNCHANGED tracked /\ (Returns(c) \/ Continues(c))
    BY <1>5 DEF SendControl
  <2>2. CASE Returns(c)
    BY <1>1, <2>1, <2>2
  <2>3. CASE at[c] = "sendAndWait" /\ Continues(c)
    <3>1. Proceeds(c, "wait", cmd[c]) /\ UNCHANGED <<rest, option, started, disturbed>>
      BY <2>3 DEF Continues
    <3> QED
      BY <1>3, <2>1, <2>3, <3>1
  <2>4. CASE at[c] = "send" /\ rest[c] > 0 /\ Continues(c)
    <3> DEFINE k == Command("follow-up", Threaded(option[c]), 0)
    <3>1. /\ at' = [at EXCEPT ![c] = "send"] /\ cmd' = [cmd EXCEPT ![c] = k]
          /\ rest' = [rest EXCEPT ![c] = rest[c] - 1]
          /\ UNCHANGED <<option, started, disturbed>>
      BY <2>4 DEF Continues, Proceeds, TextOption, TypeOK
    <3>2. k.id = Threaded(option[c])
      BY DEF Command
    <3> HIDE DEF k
    <3>3. /\ at'[c] = "send" /\ cmd'[c] = k /\ rest[c] \in Nat
          /\ \A d \in Callers \ {c} :
                at'[d] = at[d] /\ cmd'[d] = cmd[d] /\ rest'[d] = rest[d]
      BY <3>1 DEF TypeOK
    <3>4. started[c] # None =>
             k.id = started[c] \/ (option[c] = None /\ c \in disturbed)
      BY <2>4, <3>2 DEF WholeInv, WholeOf, Threaded
    <3>5. WholeOf(c)'
      BY <2>1, <2>4, <3>1, <3>3, <3>4 DEF WholeInv, WholeOf
    <3>6. \A d \in Callers \ {c} : WholeOf(d)'
      BY <2>1, <3>1, <3>3, KeptWhole
    <3> QED
      BY <3>5, <3>6 DEF WholeInv
  <2> QED
    BY <2>1, <2>2, <2>3, <2>4 DEF Continues
<1>6. CASE WaiterReceives(c) \/ WaitTimesOut(c)
  <2>1. UNCHANGED tracked
    BY <1>6 DEF WaiterReceives, WaitTimesOut
  <2>2. Returns(c) \/ UNCHANGED <<at, cmd, rest, option, started, disturbed>>
    BY <1>6 DEF WaiterReceives, WaitTimesOut
  <2>3. CASE UNCHANGED <<at, cmd, rest, option, started, disturbed>>
    BY <2>1, <2>3, KeptWhole DEF WholeInv
  <2> QED
    BY <1>1, <2>1, <2>2, <2>3
<1> QED
  BY <1>2, <1>4, <1>5, <1>6 DEF Steps

(* The commands of send_text_response() name the generation that its first *)
(* one started, unless another task starts, cancels or replaces a response *)
(* in between and the application chose no id.                             *)
THEOREM TextResponsesAreWhole == Spec => []TextResponseIsWhole
<1>1. Init => WholeInv
  BY DEF Init, WholeInv, WholeOf, NoCommand, Command
<1>2. TypeOK /\ WholeInv /\ [Next]_vars => WholeInv'
  <2> SUFFICES ASSUME TypeOK, WholeInv, [Next]_vars PROVE WholeInv'
    OBVIOUS
  <2> USE DEF genVars, callVars
  <2>1. CASE UNCHANGED <<at, cmd, rest, option, genVars>>
    BY <2>1, KeptWhole DEF WholeInv
  <2>2. CASE Attaching \/ PondChanges \/ CloseSession
    BY <2>1, <2>2 DEF Attaching, CreateSession, MirrorState, JoinReturns,
                      PondChanges, CloseSession
  <2>3. CASE Vox \/ Relay
    BY <2>1, <2>3 DEF Vox, VoxTells, VoxAnswers, VoxSends, Relay, RelayCopies,
                      RelayLags
  <2>4. ASSUME NEW l \in Listeners,
               Listens(l) \/ DropsListener(l) \/ ListenerReceives(l)
        PROVE  WholeInv'
    BY <2>1, <2>4 DEF Listens, DropsListener, ListenerReceives
  <2>5. CASE UNCHANGED vars
    BY <2>1, <2>5 DEF vars
  <2> QED
    BY <2>2, <2>3, <2>4, <2>5, CallWhole, StepWhole DEF Next
<1>3. WholeInv => TextResponseIsWhole
  BY DEF WholeInv, WholeOf, TextResponseIsWhole
<1> QED
  BY <1>1, <1>2, <1>3, SessionTypes, PTL DEF Spec
===============================================================================
