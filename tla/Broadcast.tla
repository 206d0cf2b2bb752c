------------------------------ MODULE Broadcast ------------------------------
(***************************************************************************)
(* tokio's broadcast channel as the SDK uses it: a ring of the newest      *)
(* messages and one position per receiver.  The log keeps every message    *)
(* ever sent, so a position is an index into it; what has fallen out of    *)
(* the ring is still in the log but can no longer be received.             *)
(***************************************************************************)
EXTENDS Naturals, Sequences

(* subscribe(): only messages sent from now on are received.               *)
Subscribed(log) == Len(log) + 1

(* The index of the oldest message the ring still holds.                   *)
Oldest(log, capacity) == IF Len(log) > capacity THEN Len(log) - capacity + 1
                                                ELSE 1

(* recv() has something to return: a message or an error.                  *)
Ready(log, next) == next <= Len(log)

(* recv() returns Lagged: messages were overwritten before they were read. *)
(* The receiver then continues with the oldest one that is left.           *)
HasLagged(log, next, capacity) == next < Oldest(log, capacity)
=============================================================================
