---------------------------- MODULE DrainContract ----------------------------
(***************************************************************************)
(* What the gateways of both languages promise about a shutdown: close()   *)
(* admits no further connection, and disconnects the shared Vox client     *)
(* when every session opened so far has been closed, its hook included.    *)
(* A session closes once and for all, also after that, when a connection   *)
(* that was admitted before close() may still open one: GatewayContract    *)
(* rules this out, and only the TypeScript gateway meets that one too.     *)
(***************************************************************************)
CONSTANT Conns

VARIABLES
    stage,      \* serving, draining (close() was called) or disconnected
    admitted,   \* connections that were upgraded
    opened,     \* connections whose session was opened
    closed      \* connections whose session and closed hook are done with

drainVars == <<stage, admitted, opened, closed>>

Init == stage = "serving" /\ admitted = {} /\ opened = {} /\ closed = {}

(* Connections are admitted until close() is called; their sessions open   *)
(* and close at any time.                                                  *)
Progress ==
    /\ stage' = stage \/ (stage = "serving" /\ stage' = "draining")
    /\ admitted \subseteq admitted' /\ admitted' \subseteq Conns
    /\ stage # "serving" => admitted' = admitted
    /\ opened \subseteq opened' /\ opened' \subseteq admitted'
    /\ closed \subseteq closed' /\ closed' \subseteq opened'

(* Every session has been closed: the client is disconnected.              *)
Disconnect ==
    /\ stage = "draining" /\ opened = closed
    /\ stage' = "disconnected"
    /\ UNCHANGED <<admitted, opened, closed>>

Next == Progress \/ Disconnect

Spec == Init /\ [][Next]_drainVars
=============================================================================
