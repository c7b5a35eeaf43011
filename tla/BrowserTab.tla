------------------------------ MODULE BrowserTab ------------------------------
(***************************************************************************)
(* What the tabs of the browser promise to the websocket endpoint, with no *)
(* client object, worker, timer or promise in sight.                       *)
(*                                                                         *)
(* A tab has one socket open at a time.  A request that reaches it over an *)
(* open socket is executed, or refused at once; what was executed is       *)
(* answered over whichever socket is open by then, and lost only if none   *)
(* is.                                                                     *)
(*                                                                         *)
(* WebSocketTransport composes its connections with these actions, and     *)
(* BrowserSession is checked and proved to behave like one such tab.       *)
(***************************************************************************)
EXTENDS Naturals

CONSTANTS
    Conns,          \* websocket connections
    Calls,          \* tool calls, by identifier
    Tabs,           \* tabs
    ConnTab         \* the tab that opens a connection

VARIABLES
    open,           \* open[k]: the tab's end of the socket is open
    running,        \* running[t]: the requests tab t is executing
    delivered,      \* delivered[c]: how often request c reached a tab (history)
    lost            \* the requests whose result was sent nowhere (history)

vars == <<open, running, delivered, lost>>

Init ==
    /\ open = [k \in Conns |-> FALSE]
    /\ running = [t \in Tabs |-> {}]
    /\ delivered = [c \in Calls |-> 0]
    /\ lost = {}

-----------------------------------------------------------------------------

Opens(k) ==
    /\ \A j \in Conns : ConnTab[j] = ConnTab[k] => ~open[j]
    /\ open' = [open EXCEPT ![k] = TRUE]
    /\ UNCHANGED <<running, delivered, lost>>

Shuts(k) ==
    /\ open[k]
    /\ open' = [open EXCEPT ![k] = FALSE]
    /\ UNCHANGED <<running, delivered, lost>>

Delivered(k, c) ==
    /\ open[k]
    /\ delivered' = [delivered EXCEPT ![c] = @ + 1]
    /\ UNCHANGED <<open, lost>>

\* A request is taken up ...
Takes(k, c) ==
    /\ Delivered(k, c)
    /\ running' = [running EXCEPT ![ConnTab[k]] = @ \cup {c}]

\* ... or answered at once, over the socket it came by: the tab has no such
\* tool.
Refuses(k, c) ==
    /\ Delivered(k, c)
    /\ UNCHANGED running

Ends(t, c) ==
    /\ c \in running[t]
    /\ running' = [running EXCEPT ![t] = @ \ {c}]
    /\ UNCHANGED <<open, delivered>>

\* The result leaves over an open socket of the tab, which need not be the one
\* the request came by.
Answers(t, c, k) ==
    /\ ConnTab[k] = t
    /\ open[k]
    /\ Ends(t, c)
    /\ UNCHANGED lost

Loses(t, c) ==
    /\ \A k \in Conns : ConnTab[k] = t => ~open[k]
    /\ Ends(t, c)
    /\ lost' = lost \cup {c}

Next ==
    \/ \E k \in Conns : Opens(k) \/ Shuts(k)
    \/ \E k \in Conns, c \in Calls : Takes(k, c) \/ Refuses(k, c)
    \/ \E t \in Tabs, c \in Calls :
          Loses(t, c) \/ \E k \in Conns : Answers(t, c, k)

Spec == Init /\ [][Next]_vars
=============================================================================
