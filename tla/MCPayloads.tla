------------------------------ MODULE MCPayloads ------------------------------
(* The payloads are finite but for the list of unavailable tracks.         *)
EXTENDS Payloads
===============================================================================
