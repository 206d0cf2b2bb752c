------------------------- MODULE MCBrowserNegotiation -------------------------
(* Instances of BrowserNegotiation for TLC.  Negotiations and candidates   *)
(* are numbered, so there is no symmetry.                                  *)
EXTENDS BrowserNegotiation
=============================================================================
