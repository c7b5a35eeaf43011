--------------------------- MODULE MCBrowserBridge ---------------------------
(***************************************************************************)
(* Instances of BrowserBridge for TLC.                                     *)
(***************************************************************************)
EXTENDS BrowserBridge

CONSTANTS s1, s2, c1, c2, c3, k1, k2

\* One session that reconnects: every call and connection is its own.
OneCallSession == [c \in Calls |-> s1]
OneConnSession == [k \in Conns |-> s1]

\* Two sessions, the second with one call and one connection.
TwoCallSession == [c \in Calls |-> IF c = c2 THEN s2 ELSE s1]
TwoConnSession == [k \in Conns |-> IF k = k2 THEN s2 ELSE s1]
=============================================================================
