---------------------------- MODULE MCBrowserAudio ----------------------------
(* Instances of BrowserAudio for TLC: volumes below and above the duck.    *)
EXTENDS BrowserAudio
=============================================================================
