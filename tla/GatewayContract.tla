--------------------------- MODULE GatewayContract ---------------------------
(***************************************************************************)
(* What an application gateway promises about the controlled sessions it   *)
(* owns: a browser connection opens at most one session, every session     *)
(* that is opened is closed, once and for all, and closing the gateway     *)
(* disconnects the shared Vox client only when no session is left, after   *)
(* which nothing is opened any more.  The TypeScript gateway keeps all of  *)
(* this; what the Rust gateway keeps too is DrainContract.                 *)
(***************************************************************************)
CONSTANT Conns

VARIABLES
    stage,      \* serving, draining (close() was called) or disconnected
    opened,     \* connections whose session was opened
    announced,  \* connections that were sent gateway.ready
    closed      \* connections whose session and closed hook are done with

contractVars == <<stage, opened, announced, closed>>

TypeOK ==
    /\ stage \in {"serving", "draining", "disconnected"}
    /\ opened \in SUBSET Conns
    /\ announced \in SUBSET Conns
    /\ closed \in SUBSET Conns

Init == stage = "serving" /\ opened = {} /\ announced = {} /\ closed = {}

(* Sessions open, are announced and close while the client is connected.   *)
(* Nothing is announced during a shutdown, or after its session closed.    *)
Progress ==
    /\ stage # "disconnected"
    /\ stage' \in {stage, "draining"}
    /\ opened \subseteq opened' /\ opened' \subseteq Conns
    /\ closed \subseteq closed' /\ closed' \subseteq opened'
    /\ announced \subseteq announced'
    /\ announced' \ announced \subseteq
          (IF stage = "serving" THEN opened' \ closed' ELSE {})

(* Every session has been closed: the client is disconnected.              *)
Disconnect ==
    /\ stage = "draining"
    /\ opened = closed
    /\ stage' = "disconnected"
    /\ UNCHANGED <<opened, announced, closed>>

Next == Progress \/ Disconnect

Spec == Init /\ [][Next]_contractVars
=============================================================================
