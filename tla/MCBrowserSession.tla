-------------------------- MODULE MCBrowserSession --------------------------
(***************************************************************************)
(* Instances of BrowserSession for TLC: three sockets, two requests of     *)
(* tools the registry has and one of a tool it lacks.                      *)
(***************************************************************************)
EXTENDS BrowserSession

CONSTANTS r1, r2, r3
=============================================================================
