------------------------ MODULE MCWebSocketTransport ------------------------
(***************************************************************************)
(* Instances of WebSocketTransport for TLC: one session and one tab that   *)
(* may reconnect while the handler of its old socket still runs.           *)
(***************************************************************************)
EXTENDS WebSocketTransport

CONSTANTS s1, t1, c1, c2, k1, k2

OneCallSession == [c \in Calls |-> s1]
OneConnSession == [k \in Conns |-> s1]

OneTab == [k \in Conns |-> t1]
=============================================================================
