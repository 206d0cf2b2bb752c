------------------------------ MODULE RustSocket ------------------------------
(***************************************************************************)
(* The socket of the Rust SDK: RawSocketClient and its reconnect           *)
(* supervisor (rtcserver/src/socket.rs), driven by connect() and           *)
(* disconnect() of VoxRtcServerClient (client.rs).                         *)
(*                                                                         *)
(* The client is Clone and the runtime has several threads, so the tasks   *)
(* in Callers and the supervisors interleave between any two accesses to   *)
(* shared state: the active flag, the slot that holds the supervisor's     *)
(* handle, the watch channel state_tx, and PondSocket's connection.        *)
(* JoinHandle::abort() takes effect where a task awaits, not before.  Only *)
(* reading PondSocket's state and writing it to state_tx is one step: the  *)
(* value of state_tx decides no more than how connect() returns.           *)
(***************************************************************************)
EXTENDS Naturals, FiniteSets

CONSTANTS
    Callers,                  \* tasks that use a clone of the client
    INITIAL_RECONNECT_DELAY,
    max_reconnect_delay,
    MaxSpawns,                \* bound on the supervisors spawned
    MaxCalls,                 \* bound on the calls of connect and disconnect
    MaxLosses                 \* bound on the connections lost

ASSUME SocketAssumption ==
    /\ INITIAL_RECONNECT_DELAY \in Nat \ {0} /\ max_reconnect_delay \in Nat
    /\ MaxSpawns \in Nat /\ MaxCalls \in Nat /\ MaxLosses \in Nat

Supervisors == 1..MaxSpawns

VARIABLES
    pond,         \* the connection state of the PondClient
    active,       \* RawSocketClient.active
    state_tx,     \* the watch channel connect() waits on
    slot,         \* ReconnectSupervisor.handle: a supervisor, or 0 for None
    at,           \* where a supervisor is
    unseen,       \* PondSocket's state changed since the supervisor looked
    aborted,      \* its handle was aborted
    delay,        \* its backoff
    doing,        \* where a caller is
    spawned,      \* supervisors spawned so far
    dropped,      \* the last clone of the client is gone
    calls, losses,
    overlapped    \* a connect() and a disconnect() were in progress at once

supVars  == <<at, unseen, aborted, delay>>
callVars == <<doing, calls, overlapped, dropped>>
vars == <<pond, active, state_tx, slot, supVars, callVars, spawned,
          losses>>

States == {"disconnected", "connecting", "connected"}

(* Where a caller of connect() or of disconnect() can be.                  *)
Connecting == {"activate", "ensure", "mirror1", "dial", "dialing", "mirror2",
               "wait"}
Disconnecting == {"deactivate", "abort", "hangUp", "mirror3"}

TypeOK ==
    /\ pond \in States /\ state_tx \in States
    /\ active \in BOOLEAN /\ dropped \in BOOLEAN /\ overlapped \in BOOLEAN
    /\ slot \in Supervisors \cup {0}
    /\ at \in [Supervisors -> {"none", "watch", "check", "observe", "loop",
                 "sleep", "awake", "dial", "dialing", "report", "ended"}]
    /\ unseen \in [Supervisors -> BOOLEAN]
    /\ aborted \in [Supervisors -> BOOLEAN]
    /\ delay \in [Supervisors -> Nat]
    /\ doing \in [Callers -> Connecting \cup Disconnecting \cup {"idle"}]
    /\ spawned \in 0..MaxSpawns /\ calls \in Nat /\ losses \in Nat

(* RawSocketClient::new.                                                   *)
Init ==
    /\ pond = "disconnected" /\ state_tx = "disconnected"
    /\ active = FALSE /\ slot = 0
    /\ at = [s \in Supervisors |-> "none"]
    /\ unseen = [s \in Supervisors |-> FALSE]
    /\ aborted = [s \in Supervisors |-> FALSE]
    /\ delay = [s \in Supervisors |-> INITIAL_RECONNECT_DELAY]
    /\ doing = [c \in Callers |-> "idle"]
    /\ spawned = 0 /\ calls = 0 /\ losses = 0
    /\ dropped = FALSE /\ overlapped = FALSE

-----------------------------------------------------------------------------
(* PondSocket's state changes and every supervisor's receiver is notified. *)
PondBecomes(s) ==
    /\ pond' = s
    /\ unseen' = [i \in Supervisors |->
                    unseen[i] \/ (at[i] \notin {"none", "ended"} /\ s # pond)]

(* PondClient::connect dials when there is no connection, and is content   *)
(* with a connection that exists or is being made.                         *)
PondDials == pond = "disconnected" /\ PondBecomes("connecting")
PondContent == pond # "disconnected" /\ UNCHANGED <<pond, unseen>>

(* The connection is lost.                                                 *)
Loss ==
    /\ pond = "connected" /\ losses < MaxLosses
    /\ PondBecomes("disconnected")
    /\ losses' = losses + 1
    /\ UNCHANGED <<active, state_tx, slot, at, aborted, delay, callVars,
                   spawned>>

-----------------------------------------------------------------------------
(* The calls: VoxRtcServerClient::connect and disconnect.                  *)

Goes(c, where) == doing' = [doing EXCEPT ![c] = where]

Begins(c, where, others) ==
    /\ doing[c] = "idle" /\ calls < MaxCalls /\ ~dropped
    /\ calls' = calls + 1
    /\ Goes(c, where)
    /\ overlapped' = (overlapped \/ \E d \in Callers : doing[d] \in others)
    /\ UNCHANGED <<pond, active, state_tx, slot, supVars, dropped,
                   spawned, losses>>

(* connect() returns at once when PondSocket is connected.                 *)
Connect(c) == pond # "connected" /\ Begins(c, "activate", Disconnecting)

Disconnect(c) == Begins(c, "deactivate", Connecting)

SetsActive(c) ==
    /\ \/ doing[c] = "activate" /\ active' = TRUE /\ Goes(c, "ensure")
       \/ doing[c] = "deactivate" /\ active' = FALSE /\ Goes(c, "abort")
    /\ UNCHANGED <<pond, state_tx, slot, supVars, calls, overlapped,
                   dropped, spawned, losses>>

(* spawn_reconnect_supervisor: its receiver has seen the present state.    *)
Spawns ==
    /\ spawned < MaxSpawns
    /\ spawned' = spawned + 1
    /\ slot' = spawned + 1
    /\ at' = [at EXCEPT ![spawned + 1] = "watch"]

(* Mutant of NeedsSupervisor: the slot is not looked at.                   *)
AlwaysSpawns == TRUE

(* ensure_supervisor(), under the slot's lock.                             *)
NeedsSupervisor == \A s \in Supervisors : s = slot => at[s] = "ended"

EnsureSupervisor(c) ==
    /\ doing[c] = "ensure"
    /\ \/ NeedsSupervisor /\ Spawns
       \/ ~NeedsSupervisor /\ UNCHANGED <<spawned, slot, at>>
    /\ Goes(c, "mirror1")
    /\ UNCHANGED <<pond, active, state_tx, unseen, aborted, delay, calls,
                   overlapped, dropped, losses>>

(* state_tx.send_replace(map_connection_state(client.state())), which is   *)
(* where connect() goes on to dial or to wait and where disconnect() ends. *)
MirrorsState(c) ==
    /\ \/ doing[c] = "mirror1" /\ Goes(c, "dial")
       \/ doing[c] = "mirror2" /\ Goes(c, "wait")
       \/ doing[c] = "mirror3" /\ Goes(c, "idle")
    /\ state_tx' = pond
    /\ UNCHANGED <<pond, active, slot, supVars, calls, overlapped, dropped,
                   spawned, losses>>

CallerDials(c) ==
    /\ doing[c] = "dial"
    /\ \/ PondDials /\ Goes(c, "dialing")
       \/ PondContent /\ Goes(c, "mirror2")
    /\ UNCHANGED <<active, state_tx, slot, at, aborted, delay, calls,
                   overlapped, dropped, spawned, losses>>

(* The dial succeeds, or fails or times out: connect() then returns Err    *)
(* and leaves active and the supervisor as they are.                       *)
CallerDialed(c) ==
    /\ doing[c] = "dialing"
    /\ \/ PondBecomes("connected") /\ Goes(c, "mirror2")
       \/ PondBecomes("disconnected") /\ Goes(c, "idle")
    /\ UNCHANGED <<active, state_tx, slot, at, aborted, delay, calls,
                   overlapped, dropped, spawned, losses>>

(* connect() waits until state_tx is Connected, at most connection_timeout.*)
ConnectReturns(c) ==
    /\ doing[c] = "wait"
    /\ Goes(c, "idle")
    /\ UNCHANGED <<pond, active, state_tx, slot, supVars, calls,
                   overlapped, dropped, spawned, losses>>

(* Mutant of AbortsSlot: the handle is dropped, which detaches the task.   *)
DetachesSlot == slot' = 0 /\ UNCHANGED aborted

(* ReconnectSupervisor::abort.                                             *)
AbortsSlot ==
    /\ slot' = 0
    /\ aborted' = [s \in Supervisors |-> aborted[s] \/ s = slot]

DisconnectAborts(c) ==
    /\ doing[c] = "abort"
    /\ AbortsSlot
    /\ Goes(c, "hangUp")
    /\ UNCHANGED <<pond, active, state_tx, at, unseen, delay, calls,
                   overlapped, dropped, spawned, losses>>

(* PondClient::disconnect.                                                 *)
HangsUp(c) ==
    /\ doing[c] = "hangUp"
    /\ PondBecomes("disconnected")
    /\ Goes(c, "mirror3")
    /\ UNCHANGED <<active, state_tx, slot, at, aborted, delay, calls,
                   overlapped, dropped, spawned, losses>>

Calm == \A c \in Callers : doing[c] = "idle"

(* The last clone is dropped: impl Drop for ReconnectSupervisor.           *)
DropClient ==
    /\ Calm /\ ~dropped
    /\ dropped' = TRUE
    /\ AbortsSlot
    /\ UNCHANGED <<pond, active, state_tx, at, unseen, delay, doing,
                   calls, overlapped, spawned, losses>>

-----------------------------------------------------------------------------
(* The supervisor task.                                                    *)

supUnchanged == <<slot, aborted, callVars, spawned, losses, active>>

Moves(s, where) == at' = [at EXCEPT ![s] = where]

(* states.changed().await, which does not yield when there is a change:    *)
(* also an aborted task may take it.                                       *)
Watches(s) ==
    /\ at[s] = "watch" /\ unseen[s]
    /\ unseen' = [unseen EXCEPT ![s] = FALSE]
    /\ Moves(s, "check")
    /\ UNCHANGED <<pond, state_tx, delay, supUnchanged>>

Checks(s) ==
    /\ at[s] = "check"
    /\ Moves(s, IF active THEN "observe" ELSE "ended")
    /\ UNCHANGED <<pond, state_tx, unseen, delay, supUnchanged>>

(* states.borrow_and_update(), mirrored                                    *)
Observes(s) ==
    /\ at[s] = "observe"
    /\ unseen' = [unseen EXCEPT ![s] = FALSE]
    /\ state_tx' = pond
    /\ IF pond = "disconnected"
       THEN /\ Moves(s, "loop")
            /\ delay' = [delay EXCEPT ![s] = INITIAL_RECONNECT_DELAY]
       ELSE Moves(s, "watch") /\ UNCHANGED delay
    /\ UNCHANGED <<pond, supUnchanged>>

(* while active && client.state() == Disconnected                          *)
Loops(s) ==
    /\ at[s] = "loop"
    /\ Moves(s, IF active /\ pond = "disconnected" THEN "sleep" ELSE "watch")
    /\ UNCHANGED <<pond, state_tx, unseen, delay, supUnchanged>>

(* tokio::time::sleep(delay).await                                         *)
Sleeps(s) ==
    /\ at[s] = "sleep" /\ ~aborted[s]
    /\ Moves(s, "awake")
    /\ UNCHANGED <<pond, state_tx, unseen, delay, supUnchanged>>

Awakes(s) ==
    /\ at[s] = "awake"
    /\ Moves(s, IF active THEN "dial" ELSE "watch")
    /\ UNCHANGED <<pond, state_tx, unseen, delay, supUnchanged>>

Dials(s) ==
    /\ at[s] = "dial"
    /\ \/ PondDials /\ Moves(s, "dialing")
       \/ PondContent /\ Moves(s, "report")
    /\ UNCHANGED <<state_tx, delay, supUnchanged>>

DialSucceeds(s) ==
    /\ at[s] = "dialing" /\ ~aborted[s]
    /\ PondBecomes("connected")
    /\ Moves(s, "report")
    /\ UNCHANGED <<state_tx, delay, supUnchanged>>

next_reconnect_delay(current, max) ==
    IF 2 * current > max THEN max ELSE 2 * current

(* Mutant of AfterFailure: the task ends with the first failure.           *)
GivesUp(s) == Moves(s, "ended")

(* A failed dial goes round the inner loop again.                          *)
AfterFailure(s) == Moves(s, "loop")

DialFails(s) ==
    /\ at[s] = "dialing" /\ ~aborted[s]
    /\ PondBecomes("disconnected")
    /\ AfterFailure(s)
    /\ delay' = [delay EXCEPT
                   ![s] = next_reconnect_delay(@, max_reconnect_delay)]
    /\ UNCHANGED <<state_tx, supUnchanged>>

Reports(s) ==
    /\ at[s] = "report"
    /\ Moves(s, "watch")
    /\ state_tx' = pond
    /\ UNCHANGED <<pond, unseen, delay, supUnchanged>>

(* An aborted task ends at its next await.  When it was dialling, the dial *)
(* is dropped, and with it the connection attempt.                         *)
OthersDial(s) ==
    \/ \E c \in Callers : doing[c] = "dialing"
    \/ \E r \in Supervisors \ {s} : at[r] = "dialing"

Cancelled(s) ==
    /\ at[s] \in {"watch", "sleep", "dialing"} /\ aborted[s]
    /\ Moves(s, "ended")
    /\ IF at[s] = "dialing" /\ pond = "connecting" /\ ~OthersDial(s)
       THEN PondBecomes("disconnected") ELSE UNCHANGED <<pond, unseen>>
    /\ UNCHANGED <<state_tx, delay, supUnchanged>>

-----------------------------------------------------------------------------
Calls(c) ==
    \/ SetsActive(c) \/ EnsureSupervisor(c) \/ MirrorsState(c)
    \/ CallerDials(c) \/ CallerDialed(c) \/ ConnectReturns(c)
    \/ DisconnectAborts(c) \/ HangsUp(c)

Supervises(s) ==
    \/ Watches(s) \/ Checks(s) \/ Observes(s) \/ Loops(s)
    \/ Sleeps(s) \/ Awakes(s) \/ Dials(s) \/ DialSucceeds(s) \/ DialFails(s)
    \/ Reports(s) \/ Cancelled(s)

Next ==
    \/ Loss \/ DropClient
    \/ \E c \in Callers : Connect(c) \/ Disconnect(c) \/ Calls(c)
    \/ \E s \in Supervisors : Supervises(s)

Spec == Init /\ [][Next]_vars

(* Fairness: tokio runs every task that can run and its timers fire; a     *)
(* supervisor that dials over and over succeeds in the end.                *)
Fairness ==
    /\ \A c \in Callers : WF_vars(Calls(c))
    /\ \A s \in Supervisors : WF_vars(Supervises(s)) /\ SF_vars(DialSucceeds(s))

FairSpec == Spec /\ Fairness

-----------------------------------------------------------------------------
Live(s) == at[s] \notin {"none", "ended"} /\ ~aborted[s]

(* Never two supervisors at once, and the slot always names the one there  *)
(* is: however connect() and disconnect() overlap, no task that was lost   *)
(* from the slot goes on dialling.                                         *)
OneSupervisor == \A s \in Supervisors : Live(s) => slot = s

(* When disconnect() has returned, or the client is gone, and no connect() *)
(* overlapped it, there is no connection left and nobody to make one, even *)
(* if the supervisor was about to dial.                                    *)
QuietAfterDisconnect ==
    Calm /\ (~active \/ dropped) /\ ~overlapped =>
        /\ \A s \in Supervisors : ~Live(s)
        /\ ~active => pond # "connected"

(* The delay between two attempts never exceeds max_reconnect_delay, or    *)
(* the initial delay where that is longer.                                 *)
BackoffBounded ==
    \A s \in Supervisors :
        \/ delay[s] <= max_reconnect_delay
        \/ delay[s] = INITIAL_RECONNECT_DELAY

(* A lost connection comes back, and a first connection that failed is     *)
(* made, as long as the client is in use and can be reached.               *)
ReconnectsAfterLoss ==
    (active /\ pond = "disconnected") ~>
        (pond = "connected" \/ ~active \/ dropped \/ overlapped)
===============================================================================
