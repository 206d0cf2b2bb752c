--------------------------- MODULE MCBrowserClient ---------------------------
(* Instances of BrowserClient for TLC.  Attempts are ordered, so there is  *)
(* no symmetry.                                                            *)
EXTENDS BrowserClient
=============================================================================
