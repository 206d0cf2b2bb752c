----------------------------- MODULE RustSession -----------------------------
(***************************************************************************)
(* A controlled session of the Rust SDK (rtcserver/src/session.rs), the    *)
(* channel under it (RawSocketChannel of socket.rs) and the calls of       *)
(* client.rs that create it.                                               *)
(*                                                                         *)
(* VoxRtcControlSession is Clone: several tasks (Callers) send commands    *)
(* through it at once.  They share the tracked response generation, which  *)
(* is behind a mutex that is taken and released by each helper, so every   *)
(* locked section is a step of its own.  Vox's events pass two broadcast   *)
(* channels: PondSocket's, read by a relay task, and the SDK's own, read   *)
(* by the listeners and by start_response_and_wait().                      *)
(***************************************************************************)
EXTENDS Broadcast

CONSTANTS
    Callers,        \* tasks that hold a clone of the session
    Listeners,      \* event handlers registered with on_event() or on()
    Explicit,       \* generation ids chosen by the application
    None,           \* Option::None
    Capacity,       \* of the SDK's broadcast channel (1024 in the code)
    PondCapacity,   \* of PondSocket's
    MaxCalls,       \* bound on the calls: commands and listeners
    MaxEvents       \* bound on the events of Vox

ASSUME SessionAssumption ==
    /\ Capacity \in Nat \ {0} /\ PondCapacity \in Nat \ {0}
    /\ MaxCalls \in Nat /\ MaxEvents \in Nat
    /\ None \notin Explicit /\ None \notin Nat /\ Explicit \cap Nat = {}
    /\ Callers \cap Listeners = {}

Receivers == Callers \cup Listeners

(* A generated id is the counter's value, made unique by a UUID.           *)
Ids == Explicit \cup 1..MaxCalls

VARIABLES
    attach,       \* create_controlled_session(): where it is
    chan,         \* the PondSocket channel
    state_tx,     \* RawSocketChannel.state_tx, the mirror of chan
    counter,      \* ResponseGeneration.counter
    tracked,      \* ResponseGeneration.id
    at,           \* where each caller is
    cmd,          \* the command it is about to send
    rest,         \* how many commands send_text_response() sends after it
    option,       \* the generation_id in the options of send_text_response()
    pondLog,      \* PondSocket's broadcast channel
    relay,        \* the task that copies it: running or stopped
    relayNext,    \* its position
    log,          \* message_tx
    next,         \* positions of the receivers of message_tx
    lagged,       \* callers whose receiver has lagged
    listening,    \* listeners that are registered
    handled,      \* the index of the message a handler was last called with
    \* What the outside sees.
    wasJoined,    \* Vox has accepted the join
    atVox,        \* the response.start commands Vox has not answered
    heard,        \* the generations that the commands Vox received name
    acks,         \* the StartAcks that were returned
    started,      \* the generation of the response a caller's call started
    disturbed,    \* callers whose text response another caller came between
    calls         \* calls made so far

chanVars  == <<attach, chan, state_tx, wasJoined>>
genVars   == <<counter, tracked, started, disturbed>>
callVars  == <<at, cmd, rest, option, calls>>
relayVars == <<pondLog, relay, relayNext>>
recvVars  == <<next, lagged, listening, handled>>
voxVars   == <<atVox, heard>>
vars == <<chanVars, genVars, callVars, relayVars, log, recvVars, voxVars, acks>>

Closed == {"closed", "declined"}

(* start is the number of the start_response() a command belongs to; it is *)
(* not sent and only serves to state what an answer is an answer to.       *)
Command(kind, id, start) == [kind |-> kind, id |-> id, start |-> start]
NoCommand == Command("none", None, 0)
Starts == {Command("start", id, n) : id \in Ids, n \in 1..MaxCalls}

Init ==
    /\ attach = "creating" /\ chan = "idle" /\ state_tx = "idle"
    /\ wasJoined = FALSE
    /\ counter = 0 /\ tracked = None
    /\ started = [c \in Callers |-> None] /\ disturbed = {}
    /\ at = [c \in Callers |-> "idle"]
    /\ cmd = [c \in Callers |-> NoCommand]
    /\ rest = [c \in Callers |-> 0]
    /\ option = [c \in Callers |-> None]
    /\ calls = 0
    /\ pondLog = <<>> /\ relay = "running" /\ relayNext = 1
    /\ log = <<>>
    /\ next = [r \in Receivers |-> 1]
    /\ lagged = [c \in Callers |-> FALSE]
    /\ listening = {}
    /\ handled = [l \in Listeners |-> 0]
    /\ atVox = {} /\ heard = {} /\ acks = {}

-----------------------------------------------------------------------------
(* create_session() posts to Vox; attach_session() connects the socket,    *)
(* creates the channel and its mirrors and calls join().                   *)
CreateSession ==
    /\ attach = "creating"
    /\ \/ attach' = "joining" /\ chan' = "joining"
       \/ attach' = "failed" /\ UNCHANGED chan
    /\ UNCHANGED <<state_tx, wasJoined, genVars, callVars, relayVars, log,
                   recvVars, voxVars, acks>>

(* What PondSocket does with a channel: Vox accepts or declines the join,  *)
(* the socket is lost (stalled) and the channel joined again, Vox closes.  *)
PondMoves ==
    \/ chan \in {"joining", "stalled"} /\ chan' \in {"joined", "declined"}
    \/ chan \in {"joining", "joined"} /\ chan' = "stalled"
    \/ chan \in {"joining", "stalled", "joined"} /\ chan' = "closed"

PondChanges ==
    /\ PondMoves
    /\ wasJoined' = (wasJoined \/ chan' = "joined")
    /\ UNCHANGED <<attach, state_tx, genVars, callVars, relayVars, log,
                   recvVars, voxVars, acks>>

(* Mutant of map_channel_state: a stalled channel counts as joined.        *)
StalledIsJoined(s) == IF s = "stalled" THEN "joined" ELSE s

map_channel_state(s) == IF s = "stalled" THEN "joining" ELSE s

(* The mirror task copies the newest state.  Only join() looks at it.      *)
MirrorState ==
    /\ attach = "joining" /\ state_tx # map_channel_state(chan)
    /\ state_tx' = map_channel_state(chan)
    /\ UNCHANGED <<attach, chan, wasJoined, genVars, callVars, relayVars, log,
                   recvVars, voxVars, acks>>

(* join(): wait for the mirrored state to be final, at most join_timeout.  *)
JoinReturns ==
    /\ attach = "joining"
    /\ \/ state_tx = "joined" /\ attach' = "attached"
       \/ state_tx \in Closed /\ attach' = "refused"
       \/ attach' = "timeout"
    /\ UNCHANGED <<chan, state_tx, wasJoined, genVars, callVars, relayVars,
                   log, recvVars, voxVars, acks>>

-----------------------------------------------------------------------------
(* A caller with nothing to do issues a command, with an id of its own or  *)
(* without.                                                                *)
Issues(c, id) ==
    /\ attach = "attached" /\ at[c] = "idle" /\ calls < MaxCalls
    /\ id \in Explicit \cup {None}
    /\ calls' = calls + 1

Proceeds(c, where, command) ==
    /\ at' = [at EXCEPT ![c] = where]
    /\ cmd' = [cmd EXCEPT ![c] = command]

(* next_response_generation and set_response_generation.                   *)
StartedId(id) == IF id = None THEN counter + 1 ELSE id

(* A caller whose response is between two of its commands while another    *)
(* one starts, cancels or replaces a response.                             *)
ComesBetween(c) ==
    disturbed' = disturbed \cup {d \in Callers \ {c} : rest[d] > 0}

(* start_payload(): the counter is raised and the id tracked, under one    *)
(* lock.  then is how many commands the call sends after response.start.   *)
StartPayload(c, id, where, then) ==
    /\ Issues(c, id)
    /\ counter' = counter + 1
    /\ tracked' = StartedId(id)
    /\ started' = [started EXCEPT ![c] = StartedId(id)]
    /\ ComesBetween(c)
    /\ rest' = [rest EXCEPT ![c] = then]
    /\ option' = [option EXCEPT ![c] = id]
    /\ Proceeds(c, where, Command("start", StartedId(id), counter + 1))
    /\ UNCHANGED <<chanVars, relayVars, log, recvVars, voxVars, acks>>

StartResponse(c, id) == StartPayload(c, id, "send", 0)

(* start_response_and_wait() and supersede_response_and_wait().            *)
StartResponseAndWait(c, id) == StartPayload(c, id, "subscribe", 0)

(* send_text_response(): three commands in a row, each with its own lock.  *)
SendTextResponse(c, id) == StartPayload(c, id, "send", 2)

(* thread_generation(): the id given, or else the tracked one.             *)
Threaded(id) == IF id = None THEN tracked ELSE id

(* append_response_text() and commit_response(): response.delta and        *)
(* response.commit only differ in what Vox does with them.                 *)
FollowUp(c, id) ==
    /\ Issues(c, id)
    /\ Proceeds(c, "send", Command("follow-up", Threaded(id), 0))
    /\ UNCHANGED <<chanVars, genVars, rest, option, relayVars, log, recvVars,
                   voxVars, acks>>

(* send_offer(), send_ice_candidate(), close_rtc(), configure() and        *)
(* send_client_event(): commands that name no response generation.         *)
SendsOther(c) ==
    /\ Issues(c, None)
    /\ Proceeds(c, "send", Command("other", None, 0))
    /\ UNCHANGED <<chanVars, genVars, rest, option, relayVars, log, recvVars,
                   voxVars, acks>>

(* cancel_response() names the generation ...                              *)
CancelResponse(c, id) ==
    /\ Issues(c, id)
    /\ Proceeds(c, "clear", Command("cancel", Threaded(id), 0))
    /\ UNCHANGED <<chanVars, genVars, rest, option, relayVars, log, recvVars,
                   voxVars, acks>>

(* clear_response_generation().                                            *)
ClearGeneration == tracked' = None

(* ... and then forgets the tracked one, whichever it is by now.           *)
CancelClears(c) ==
    /\ at[c] = "clear"
    /\ Proceeds(c, "send", cmd[c])
    /\ ClearGeneration
    /\ ComesBetween(c)
    /\ UNCHANGED <<chanVars, counter, started, rest, option, calls, relayVars,
                   log, recvVars, voxVars, acks>>

(* replace_response_text(), also as send_text_response(cancel_first).      *)
ReplaceResponseText(c, id) ==
    /\ Issues(c, id)
    /\ ClearGeneration
    /\ ComesBetween(c)
    /\ Proceeds(c, "send", Command("replace", id, 0))
    /\ UNCHANGED <<chanVars, counter, started, rest, option, relayVars, log,
                   recvVars, voxVars, acks>>

(* Mutant of Subscribes: the subscription is made after the command was    *)
(* sent.                                                                   *)
SubscribesAfterSend(c) ==
    /\ \/ at[c] = "subscribe" /\ Proceeds(c, "sendAndWait", cmd[c])
          /\ UNCHANGED next
       \/ at[c] = "wait" /\ next[c] = 1 /\ UNCHANGED <<at, cmd>>
          /\ next' = [next EXCEPT ![c] = Subscribed(log)]
    /\ UNCHANGED <<chanVars, genVars, rest, option, calls, relayVars, log,
                   lagged, listening, handled, voxVars, acks>>

(* start_response_and_wait() subscribes before it sends.                   *)
Subscribes(c) ==
    /\ at[c] = "subscribe"
    /\ next' = [next EXCEPT ![c] = Subscribed(log)]
    /\ lagged' = [lagged EXCEPT ![c] = FALSE]
    /\ Proceeds(c, "sendAndWait", cmd[c])
    /\ UNCHANGED <<chanVars, genVars, rest, option, calls, relayVars, log,
                   listening, handled, voxVars, acks>>

(* A call returns, and its receiver is dropped.                            *)
Returns(c) ==
    /\ Proceeds(c, "idle", NoCommand)
    /\ rest' = [rest EXCEPT ![c] = 0]
    /\ option' = [option EXCEPT ![c] = None]
    /\ started' = [started EXCEPT ![c] = None]
    /\ disturbed' = disturbed \ {c}
    /\ next' = [next EXCEPT ![c] = 1]
    /\ lagged' = [lagged EXCEPT ![c] = FALSE]

(* Mutant of TextOption: the later commands are given no options.          *)
TextOptionDropped(c) == None

(* send_text_response() clones its options for each of its commands.       *)
TextOption(c) == option[c]

(* After a command was sent: the next one of send_text_response(), the     *)
(* wait for the acknowledgement, or the end of the call.                   *)
Continues(c) ==
    \/ /\ at[c] = "send" /\ rest[c] > 0
       /\ Proceeds(c, "send", Command("follow-up", Threaded(TextOption(c)), 0))
       /\ rest' = [rest EXCEPT ![c] = @ - 1]
       /\ UNCHANGED <<option, started, disturbed, next, lagged>>
    \/ /\ at[c] = "send" /\ rest[c] = 0
       /\ Returns(c)
    \/ /\ at[c] = "sendAndWait"
       /\ Proceeds(c, "wait", cmd[c])
       /\ UNCHANGED <<rest, option, started, disturbed, next, lagged>>

(* send_control(): refused on a closed channel.  A channel that closes     *)
(* between the check and the send swallows the command.                    *)
SendControl(c) ==
    /\ at[c] \in {"send", "sendAndWait"}
    /\ \/ chan \in Closed /\ Returns(c) /\ UNCHANGED voxVars
       \/ chan \in Closed /\ Continues(c) /\ UNCHANGED voxVars
       \/ /\ chan \notin Closed /\ Continues(c)
          /\ atVox' = atVox \cup ({cmd[c]} \cap Starts)
          /\ heard' = heard \cup ({cmd[c].id} \ {None})
    /\ UNCHANGED <<chanVars, counter, tracked, calls, relayVars, log, listening,
                   handled, acks>>

(* close(): leave the channel.                                             *)
CloseSession ==
    /\ attach = "attached" /\ chan \notin Closed
    /\ chan' = "closed"
    /\ UNCHANGED <<attach, state_tx, wasJoined, genVars, callVars, relayVars,
                   log, recvVars, voxVars, acks>>

-----------------------------------------------------------------------------
Event(type, id, start) == [type |-> type, id |-> id, start |-> start]

Answers == {"response.created", "error"}

VoxSends(e) ==
    /\ chan = "joined" /\ Len(pondLog) < MaxEvents
    /\ pondLog' = Append(pondLog, e)
    /\ UNCHANGED <<chanVars, genVars, callVars, relay, relayNext, log,
                   recvVars, acks>>

(* Vox accepts or rejects a response.start, naming its generation.         *)
VoxAnswers(start) ==
    /\ \E type \in Answers : VoxSends(Event(type, start.id, start.start))
    /\ atVox' = atVox \ {start} /\ UNCHANGED heard

(* Events that answer no start: the failure of another command, which      *)
(* names the generation of the command or none, and PondSocket's presence  *)
(* messages.                                                               *)
VoxTells ==
    /\ \/ \E id \in heard \cup {None} : VoxSends(Event("error", id, 0))
       \/ VoxSends(Event("presence", None, 0))
    /\ UNCHANGED voxVars

-----------------------------------------------------------------------------
(* map_channel_event drops presence messages.                              *)
IsMessage(e) == e.type # "presence"

(* The relay task: while let Ok(event) = pond_events.recv().               *)
RelayCopies ==
    /\ relay = "running" /\ Ready(pondLog, relayNext)
    /\ ~HasLagged(pondLog, relayNext, PondCapacity)
    /\ relayNext' = relayNext + 1
    /\ log' = IF IsMessage(pondLog[relayNext])
              THEN Append(log, pondLog[relayNext]) ELSE log
    /\ UNCHANGED <<chanVars, genVars, callVars, pondLog, relay, recvVars,
                   voxVars, acks>>

(* Lagged is an Err too: the loop ends.                                    *)
RelayLags ==
    /\ relay = "running" /\ HasLagged(pondLog, relayNext, PondCapacity)
    /\ relay' = "stopped"
    /\ UNCHANGED <<chanVars, genVars, callVars, pondLog, relayNext, log,
                   recvVars, voxVars, acks>>

(* next_message(): Lagged is skipped, the loop goes on with what is left.  *)
SkipsLag(r) ==
    next' = [next EXCEPT ![r] = Oldest(log, Capacity)]

Takes(r) == next' = [next EXCEPT ![r] = @ + 1]

(* on_event() and on(): a task per listener.                               *)
Listens(l) ==
    /\ attach = "attached" /\ l \notin listening /\ calls < MaxCalls
    /\ calls' = calls + 1
    /\ listening' = listening \cup {l}
    /\ next' = [next EXCEPT ![l] = Subscribed(log)]
    /\ UNCHANGED <<chanVars, genVars, at, cmd, rest, option, relayVars, log,
                   lagged, handled, voxVars, acks>>

(* Dropping a Listener aborts its task.                                    *)
DropsListener(l) ==
    /\ l \in listening
    /\ listening' = listening \ {l}
    /\ next' = [next EXCEPT ![l] = 1]
    /\ handled' = [handled EXCEPT ![l] = 0]
    /\ UNCHANGED <<chanVars, genVars, callVars, relayVars, log, lagged, voxVars,
                   acks>>

(* Mutant of ListenerReceives: the loop ends on Lagged.                    *)
ListenerEndsOnLag(l) ==
    /\ l \in listening /\ Ready(log, next[l])
    /\ ~HasLagged(log, next[l], Capacity)
    /\ Takes(l)
    /\ handled' = [handled EXCEPT ![l] = next[l]]
    /\ UNCHANGED <<chanVars, genVars, callVars, relayVars, log, lagged,
                   listening, voxVars, acks>>

(* The loop of on_event() and on().                                        *)
ListenerReceives(l) ==
    /\ l \in listening /\ Ready(log, next[l])
    /\ \/ /\ HasLagged(log, next[l], Capacity)
          /\ SkipsLag(l) /\ UNCHANGED handled
       \/ /\ ~HasLagged(log, next[l], Capacity)
          /\ Takes(l)
          /\ handled' = [handled EXCEPT ![l] = next[l]]
    /\ UNCHANGED <<chanVars, genVars, callVars, relayVars, log, lagged,
                   listening, voxVars, acks>>

(* Mutant of Acknowledges: the generation is not compared.                 *)
AcknowledgesAny(c, e) == e.type \in Answers

(* Does the event end the wait of the caller?                              *)
Acknowledges(c, e) == e.type \in Answers /\ e.id = cmd[c].id

(* The loop of start_response_and_wait().                                  *)
WaiterReceives(c) ==
    /\ at[c] = "wait" /\ Ready(log, next[c])
    /\ \/ /\ HasLagged(log, next[c], Capacity)
          /\ SkipsLag(c)
          /\ lagged' = [lagged EXCEPT ![c] = TRUE]
          /\ UNCHANGED <<at, cmd, rest, option, started, disturbed, acks>>
       \/ /\ ~HasLagged(log, next[c], Capacity)
          /\ IF Acknowledges(c, log[next[c]])
             THEN /\ Returns(c)
                  /\ acks' = acks \cup {[to |-> cmd[c], answer |-> log[next[c]]]}
             ELSE /\ Takes(c)
                  /\ UNCHANGED <<lagged, at, cmd, rest, option, started,
                                 disturbed, acks>>
    /\ UNCHANGED <<chanVars, counter, tracked, calls, relayVars, log, listening,
                   handled, voxVars>>

(* timeout(wait_timeout, ...).                                             *)
WaitTimesOut(c) ==
    /\ at[c] = "wait"
    /\ Returns(c)
    /\ UNCHANGED <<chanVars, counter, tracked, calls, relayVars, log, listening,
                   handled, voxVars, acks>>

-----------------------------------------------------------------------------
Attaching == CreateSession \/ MirrorState \/ JoinReturns

Calls(c) ==
    \E id \in Explicit \cup {None} :
       \/ StartResponse(c, id) \/ StartResponseAndWait(c, id)
       \/ SendTextResponse(c, id) \/ CancelResponse(c, id)
       \/ ReplaceResponseText(c, id) \/ FollowUp(c, id)
       \/ id = None /\ SendsOther(c)

Steps(c) ==
    CancelClears(c) \/ Subscribes(c) \/ SendControl(c)

Vox == VoxTells \/ \E start \in atVox : VoxAnswers(start)

Relay == RelayCopies \/ RelayLags

Next ==
    \/ Attaching \/ PondChanges \/ CloseSession \/ Vox \/ Relay
    \/ \E c \in Callers :
          Calls(c) \/ Steps(c) \/ WaiterReceives(c) \/ WaitTimesOut(c)
    \/ \E l \in Listeners :
          Listens(l) \/ DropsListener(l) \/ ListenerReceives(l)

Spec == Init /\ [][Next]_vars

(* Fairness: tokio polls a listener's task while a message is ready.       *)
FairSpec == Spec /\ \A l \in Listeners : WF_vars(ListenerReceives(l))

-----------------------------------------------------------------------------
ChannelStates == {"idle", "joining", "joined", "stalled", "closed", "declined"}
AnyId == Explicit \cup Nat \cup {None}
Commands == [kind : {"none", "start", "follow-up", "other", "cancel", "replace"},
             id : AnyId, start : Nat]
VoxEvents == [type : Answers \cup {"presence"}, id : AnyId, start : Nat]

TypeOK ==
    /\ attach \in {"creating", "failed", "joining", "attached", "refused",
                   "timeout"}
    /\ chan \in ChannelStates /\ state_tx \in ChannelStates
    /\ wasJoined \in BOOLEAN
    /\ counter \in Nat /\ tracked \in AnyId
    /\ started \in [Callers -> AnyId] /\ disturbed \subseteq Callers
    /\ at \in [Callers -> {"idle", "send", "subscribe", "clear", "sendAndWait",
                           "wait"}]
    /\ cmd \in [Callers -> Commands] /\ rest \in [Callers -> Nat]
    /\ option \in [Callers -> Explicit \cup {None}] /\ calls \in Nat
    /\ pondLog \in Seq(VoxEvents) /\ log \in Seq(VoxEvents)
    /\ relay \in {"running", "stopped"} /\ relayNext \in Nat \ {0}
    /\ next \in [Receivers -> Nat \ {0}] /\ lagged \in [Callers -> BOOLEAN]
    /\ listening \subseteq Listeners /\ handled \in [Listeners -> Nat]
    /\ atVox \subseteq Commands /\ heard \subseteq AnyId
    /\ acks \subseteq [to : Commands, answer : VoxEvents]

(* join() returns Ok only for a channel Vox has accepted, and JoinFailed   *)
(* only for one that is closed for good, although it looks at a mirrored   *)
(* state that lags behind and a lost socket stalls the channel.            *)
JoinIsTruthful ==
    /\ attach = "attached" => wasJoined
    /\ attach = "refused" => chan \in Closed

(* start_response_and_wait() returns what names its own generation.  For a *)
(* generated id an acceptance is the one of this very start, whatever late *)
(* answers to calls that timed out and starts of other callers are on      *)
(* their way.  A rejection is the one of this start or the failure of      *)
(* another command that named this generation, which the code cannot tell  *)
(* apart: never the rejection of another start.                            *)
AckIsForThisStart ==
    \A a \in acks :
        /\ a.answer.id = a.to.id
        /\ a.to.id \notin Explicit =>
              \/ a.answer.start = a.to.start
              \/ a.answer.type = "error" /\ a.answer.start = 0

(* It cannot miss the answer: as long as it waits and has not lagged, the  *)
(* answer to its start is still ahead of its receiver, however soon Vox    *)
(* sent it.                                                                *)
AnswerNotMissed ==
    \A c \in Callers : at[c] = "wait" /\ ~lagged[c] =>
        \A i \in DOMAIN log : log[i].start = cmd[c].start => next[c] <= i

(* The commands of send_text_response() are locked and sent one by one.    *)
(* The later ones name the generation its first one started, unless        *)
(* another task starts, cancels or replaces a response in between; an id   *)
(* of the application's keeps them together even then.                     *)
TextResponseIsWhole ==
    \A c \in Callers : cmd[c].kind = "follow-up" /\ started[c] # None =>
        \/ cmd[c].id = started[c]
        \/ option[c] = None /\ c \in disturbed

(* A listener that lags goes on: every message that is ahead of it is      *)
(* handed to its handler, unless the ring overwrites it first or the       *)
(* listener is dropped.                                                    *)
EveryMessageIsHandled ==
    \A l \in Listeners : \A i \in 1..MaxEvents :
        (l \in listening /\ i \in next[l]..Len(log)) ~>
            l \notin listening \/ handled[l] = i \/ i < Oldest(log, Capacity)
=============================================================================
