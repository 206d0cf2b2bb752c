---------------------------- MODULE MCRustSession ----------------------------
(* Instances of RustSession for TLC.                                       *)
EXTENDS RustSession

CONSTANTS c1, c2, l1, g1
=============================================================================
