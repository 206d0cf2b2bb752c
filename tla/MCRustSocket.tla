----------------------------- MODULE MCRustSocket -----------------------------
(* Instances of RustSocket for TLC.                                        *)
EXTENDS RustSocket, TLC

CONSTANTS c1, c2
===============================================================================
