------------------------- MODULE WebSocketTransport -------------------------
(***************************************************************************)
(* The websocket endpoint that joins browsers to the BrowserBridge         *)
(* (src/backend/internal/chat/websocket.go), with the sockets and just     *)
(* enough of the tabs behind them.                                         *)
(*                                                                         *)
(* Each connection has a handler goroutine, which reads, and a writer      *)
(* goroutine, which drains the request channel of the session.  They share *)
(* a context that either may cancel.  The deferred calls of the handler    *)
(* run in the order cancel, Disconnect, Close.                             *)
(*                                                                         *)
(* The bridge is the module BrowserBridge: a step below that calls it is   *)
(* one of its actions together with the endpoint's own assignments.        *)
(*                                                                         *)
(* The tabs are the module BrowserTab, in the same way.  A tab publishes   *)
(* its capabilities when a socket opens (websocket-session-client.ts).  A  *)
(* frame is the request, the result or the capabilities it carries; frames *)
(* of a socket are not reordered.                                          *)
(***************************************************************************)
EXTENDS Naturals, Sequences

CONSTANTS
    Sessions, Calls, Conns, CallSession, ConnSession, Outputs, Caps,
    QueueCap, Unavailable, Timeout, None,
    ConnTab,        \* the tab that opens a connection
    FrameCap        \* frames a socket buffers towards the tab

VARIABLES
    connected, capabilities, requests, responses, pc, ctxDone, outcome, buf,
    closed, conn, submitting, closing, accepted, taken,   \* of the bridge
    rpc,            \* rpc[k]: where the handler goroutine of k is
    wpc,            \* wpc[k]: where the writer goroutine of k is
    writing,        \* writing[k]: the request the writer of k holds
    cancelled,      \* cancelled[k]: the context of k is cancelled
    open,           \* open[k]: the tab's end of the socket is open
    up,             \* up[k]: frames on their way from the tab
    down,           \* down[k]: frames on their way to the tab
    running,        \* running[t]: the requests tab t is executing
    delivered,      \* delivered[c]: how often request c reached a tab (history)
    lost,           \* the requests whose result was sent nowhere (history)
    left            \* left[s]: a tab of session s has closed a socket (history)

Tabs == {ConnTab[k] : k \in Conns}

Bridge == INSTANCE BrowserBridge
Page == INSTANCE BrowserTab

ASSUME TransportAssumption ==
    /\ Bridge!BridgeAssumption
    /\ FrameCap \in Nat \ {0}
    /\ None \notin Calls
    /\ Caps \cap (Calls \cup Bridge!Results \cup {None}) = {}

bridge == <<connected, capabilities, requests, responses, pc, ctxDone, outcome,
            buf, closed, conn, submitting, closing, accepted, taken>>
goroutines == <<rpc, wpc, writing, cancelled>>
sockets == <<open, up, down>>
tabs == <<running, delivered, lost, left>>
vars == <<bridge, goroutines, sockets, tabs>>

Init ==
    /\ Bridge!Init
    /\ Page!Init
    /\ rpc = [k \in Conns |-> "off"]
    /\ wpc = [k \in Conns |-> "off"]
    /\ writing = [k \in Conns |-> None]
    /\ cancelled = [k \in Conns |-> FALSE]
    /\ up = [k \in Conns |-> <<>>]
    /\ down = [k \in Conns |-> <<>>]
    /\ left = [s \in Sessions |-> FALSE]

-----------------------------------------------------------------------------
(* The handler goroutine.                                                  *)

\* The upgrade succeeds: the socket is open at both ends before the bridge
\* hears of it, and the tab's onopen publishes its capabilities.
Accept(k) ==
    /\ rpc[k] = "off"
    /\ Page!Opens(k)
    /\ rpc' = [rpc EXCEPT ![k] = "accepted"]
    /\ \E caps \in Caps : up' = [up EXCEPT ![k] = Append(@, caps)]
    /\ UNCHANGED <<bridge, wpc, writing, cancelled, down, left>>

\* Connect, and the writer goroutine is started.
HandlerConnect(k) ==
    /\ rpc[k] = "accepted"
    /\ Bridge!Connect(k)
    /\ rpc' = [rpc EXCEPT ![k] = "reading"]
    /\ wpc' = [wpc EXCEPT ![k] = "caps"]
    /\ UNCHANGED <<writing, cancelled, sockets, tabs>>

\* The read loop takes the next frame off the socket.
Incoming(k) ==
    /\ rpc[k] = "reading"
    /\ Bridge!Free(k)
    /\ up[k] # <<>>
    /\ up' = [up EXCEPT ![k] = Tail(@)]

HandleCapabilities(k) ==
    /\ Incoming(k)
    /\ Head(up[k]) \in Caps
    /\ Bridge!PublishCapabilities(k, Head(up[k]))
    /\ UNCHANGED <<goroutines, open, down, tabs>>

HandleResult(k) ==
    /\ Incoming(k)
    /\ Head(up[k]) \in Bridge!Results
    /\ Bridge!SubmitLookup(k, Head(up[k]))
    /\ UNCHANGED <<goroutines, open, down, tabs>>

HandleResultSend(k) ==
    /\ Bridge!SubmitSend(k)
    /\ UNCHANGED <<goroutines, sockets, tabs>>

\* Mutant of Leave: the deferred cancel is missing.
LeaveKeepsContext(k) ==
    /\ rpc' = [rpc EXCEPT ![k] = "leaving"]
    /\ UNCHANGED cancelled

\* The handler returns: cancel runs first.
Leave(k) ==
    /\ rpc' = [rpc EXCEPT ![k] = "leaving"]
    /\ cancelled' = [cancelled EXCEPT ![k] = TRUE]

\* SubmitResult reports a result nobody waits for, and the handler returns.
HandleUnknownResult(k) ==
    /\ Incoming(k)
    /\ Head(up[k]) \in Bridge!Results
    /\ Bridge!SubmitUnknown(k, Head(up[k]))
    /\ Leave(k)
    /\ UNCHANGED <<bridge, wpc, writing, open, down, tabs>>

\* Read fails: the tab closed the socket, or the context is cancelled.
ReadFails(k) ==
    /\ rpc[k] = "reading"
    /\ Bridge!Free(k)
    /\ ~open[k] \/ cancelled[k]
    /\ Leave(k)
    /\ UNCHANGED <<bridge, wpc, writing, sockets, tabs>>

\* Mutant of HandlerDisconnect: the deferred Disconnect is missing.
HandlerForgetsDisconnect(k) ==
    /\ rpc[k] = "leaving"
    /\ rpc' = [rpc EXCEPT ![k] = "closing"]
    /\ UNCHANGED <<bridge, wpc, writing, cancelled, sockets, tabs>>

HandlerDisconnect(k) ==
    /\ rpc[k] = "leaving"
    /\ Bridge!Disconnect(k)
    /\ rpc' = [rpc EXCEPT ![k] = "closing"]
    /\ UNCHANGED <<wpc, writing, cancelled, sockets, tabs>>

HandlerCloseResponse(k, c) ==
    /\ Bridge!CloseResponse(k, c)
    /\ UNCHANGED <<goroutines, sockets, tabs>>

\* The last deferred call closes the socket; what the tab sent is lost.
HandlerClose(k) ==
    /\ rpc[k] = "closing"
    /\ closing[k] = {}
    /\ rpc' = [rpc EXCEPT ![k] = "gone"]
    /\ up' = [up EXCEPT ![k] = <<>>]
    /\ UNCHANGED <<bridge, wpc, writing, cancelled, open, down, tabs>>

-----------------------------------------------------------------------------
(* The writer goroutine.                                                   *)

\* A frame is written: there is room for it and, if the context or the peer
\* is gone, the write still happened to get through or went nowhere.
Written(k, frame) ==
    /\ Len(down[k]) < FrameCap
    /\ rpc[k] # "gone"
    /\ down' = IF open[k] THEN [down EXCEPT ![k] = Append(@, frame)] ELSE down

WriterStops(k) ==
    /\ wpc' = [wpc EXCEPT ![k] = "done"]
    /\ writing' = [writing EXCEPT ![k] = None]
    /\ cancelled' = [cancelled EXCEPT ![k] = TRUE]

\* The capabilities of the session as the bridge has them go out first.
WriteCapabilities(k) ==
    /\ wpc[k] = "caps"
    /\ Written(k, capabilities[ConnSession[k]])
    /\ wpc' = [wpc EXCEPT ![k] = "select"]
    /\ UNCHANGED <<bridge, rpc, writing, cancelled, open, up, tabs>>

\* The select of the write loop picks a request, even when the context is
\* cancelled as well.
WriterReceive(k) ==
    /\ wpc[k] = "select"
    /\ Bridge!ReceiveRequest(k)
    /\ wpc' = [wpc EXCEPT ![k] = "write"]
    /\ writing' = [writing EXCEPT ![k] = Head(requests[ConnSession[k]])]
    /\ UNCHANGED <<rpc, cancelled, sockets, tabs>>

\* Mutants of WriteRequest: a full socket is skipped; the request is written
\* again.
WriteRequestSkips(k) ==
    /\ wpc[k] = "write"
    /\ Written(k, writing[k]) \/ (Len(down[k]) = FrameCap /\ down' = down)
    /\ wpc' = [wpc EXCEPT ![k] = "select"]
    /\ writing' = [writing EXCEPT ![k] = None]
    /\ UNCHANGED <<bridge, rpc, cancelled, open, up, tabs>>

WriteRequestRepeats(k) ==
    /\ wpc[k] = "write"
    /\ Written(k, writing[k])
    /\ UNCHANGED <<bridge, goroutines, open, up, tabs>>

WriteRequest(k) ==
    /\ wpc[k] = "write"
    /\ Written(k, writing[k])
    /\ wpc' = [wpc EXCEPT ![k] = "select"]
    /\ writing' = [writing EXCEPT ![k] = None]
    /\ UNCHANGED <<bridge, rpc, cancelled, open, up, tabs>>

\* A write fails: the request the writer held is gone.
WriteFails(k) ==
    /\ wpc[k] \in {"caps", "write"}
    /\ cancelled[k] \/ ~open[k]
    /\ WriterStops(k)
    /\ UNCHANGED <<bridge, rpc, sockets, tabs>>

WriterCancelled(k) ==
    /\ wpc[k] = "select"
    /\ cancelled[k]
    /\ WriterStops(k)
    /\ UNCHANGED <<bridge, rpc, sockets, tabs>>

-----------------------------------------------------------------------------
(* The callers of the bridge.                                              *)

CallStep(c) ==
    /\ \/ Bridge!CallRefused(c)
       \/ Bridge!CallRegister(c)
       \/ Bridge!Caller(c)
       \/ Bridge!CancelContext(c)
    /\ UNCHANGED <<goroutines, sockets, tabs>>

-----------------------------------------------------------------------------
(* The tabs.                                                               *)

\* The tab reads the next frame off the socket.
Read(k) ==
    /\ down[k] # <<>>
    /\ down' = [down EXCEPT ![k] = Tail(@)]

\* Mutant of TabReceive: a frame is dispatched without a look at its type.
TabReceiveUntyped(k) ==
    /\ Read(k)
    /\ Page!Takes(k, Head(down[k]))
    /\ UNCHANGED <<bridge, goroutines, up, left>>

\* A request is executed; any other frame means nothing to the tab.
TabReceive(k) ==
    /\ open[k]
    /\ Read(k)
    /\ IF Head(down[k]) \in Calls
       THEN Page!Takes(k, Head(down[k]))
       ELSE UNCHANGED <<open, running, delivered, lost>>
    /\ UNCHANGED <<bridge, goroutines, up, left>>

\* A tool.result for call c goes into socket k.
Reply(k, c) ==
    \E output \in Outputs :
        up' = IF rpc[k] = "gone" THEN up
              ELSE [up EXCEPT ![k] = Append(@, [id |-> c, output |-> output])]

\* The tab has no such tool.
TabRefuse(k) ==
    /\ Read(k)
    /\ Head(down[k]) \in Calls
    /\ Page!Refuses(k, Head(down[k]))
    /\ Reply(k, Head(down[k]))
    /\ UNCHANGED <<bridge, goroutines, left>>

\* The execution of a request ends and its result leaves.
TabAnswer(t, c, k) ==
    /\ Page!Answers(t, c, k)
    /\ Reply(k, c)
    /\ UNCHANGED <<bridge, goroutines, down, left>>

\* No socket is open when the execution ends: both sends of the broker throw.
TabAnswerLost(t, c) ==
    /\ Page!Loses(t, c)
    /\ UNCHANGED <<bridge, goroutines, up, down, left>>

Shut(k) ==
    /\ Page!Shuts(k)
    /\ down' = [down EXCEPT ![k] = <<>>]

\* The tab closes its socket, or the network does.
TabClose(k) ==
    /\ Shut(k)
    /\ left' = [left EXCEPT ![ConnSession[k]] = TRUE]
    /\ UNCHANGED <<bridge, goroutines, up>>

\* The tab notices that the handler closed the socket.
TabDropped(k) ==
    /\ rpc[k] = "gone"
    /\ Shut(k)
    /\ UNCHANGED <<bridge, goroutines, up, left>>

-----------------------------------------------------------------------------

Handler(k) ==
    \/ HandlerConnect(k)
    \/ HandleCapabilities(k)
    \/ HandleResult(k)
    \/ HandleResultSend(k)
    \/ HandleUnknownResult(k)
    \/ ReadFails(k)
    \/ HandlerDisconnect(k)
    \/ \E c \in Calls : HandlerCloseResponse(k, c)
    \/ HandlerClose(k)

Writer(k) ==
    \/ WriteCapabilities(k)
    \/ WriterReceive(k)
    \/ WriteRequest(k)
    \/ WriteFails(k)
    \/ WriterCancelled(k)

Tab(t) ==
    \E c \in Calls : TabAnswerLost(t, c) \/ \E k \in Conns : TabAnswer(t, c, k)

Next ==
    \/ \E k \in Conns :
          \/ Accept(k)
          \/ Handler(k)
          \/ Writer(k)
          \/ TabReceive(k)
          \/ TabRefuse(k)
          \/ TabClose(k)
          \/ TabDropped(k)
    \/ \E c \in Calls : CallStep(c)
    \/ \E t \in Tabs : Tab(t)

Spec == Init /\ [][Next]_vars

\* Goroutines that can run do.  Contexts need not end, tabs need not close.
BackendFairness ==
    /\ \A k \in Conns : WF_vars(Handler(k)) /\ WF_vars(Writer(k))
    /\ \A c \in Calls : WF_vars(CallStep(c) /\ Bridge!Caller(c))

\* Tabs read their socket, finish what they execute and see their socket
\* closed; the timers of the workers bound an execution (worker-client.ts).
TabFairness ==
    /\ \A k \in Conns : WF_vars(TabReceive(k)) /\ WF_vars(TabDropped(k))
    /\ \A t \in Tabs : WF_vars(Tab(t))

BackendFairSpec == Spec /\ BackendFairness

-----------------------------------------------------------------------------
(* Correctness.                                                            *)

\* Type invariant of the endpoint's own state.
TypeOK ==
    /\ rpc \in [Conns -> {"off", "accepted", "reading", "leaving", "closing",
                          "gone"}]
    /\ wpc \in [Conns -> {"off", "caps", "select", "write", "done"}]
    /\ writing \in [Conns -> Calls \cup {None}]
    /\ cancelled \in [Conns -> BOOLEAN]
    /\ open \in [Conns -> BOOLEAN]
    /\ up \in [Conns -> Seq(Caps \cup Bridge!Results)]
    /\ down \in [Conns -> Seq(Calls \cup Caps \cup {None})]
    /\ running \in [Tabs -> SUBSET Calls]
    /\ delivered \in [Calls -> Nat]
    /\ lost \subseteq Calls
    /\ left \in [Sessions -> BOOLEAN]

\* A session counts as connected only while a handler of it has yet to run
\* its deferred Disconnect: however a handler ends, it leaves no session
\* behind that accepts calls nobody can deliver.
NoGhostConnection ==
    \A s \in Sessions : connected[s] =>
        \E k \in Conns : ConnSession[k] = s /\ rpc[k] \in {"reading", "leaving"}

\* A browser executes a request at most once, whatever connections come and
\* go, and a call is answered only after its request reached a tab.
DeliveredOnce ==
    \A c \in Calls :
        /\ delivered[c] <= 1
        /\ accepted[c] # None => delivered[c] = 1

\* Nothing has failed at connection k.
Healthy(k) == open[k] /\ rpc[k] = "reading" /\ ~cancelled[k]

\* The request of call c is on its way over k, or executes, or its result is
\* on its way back over the same socket.
Underway(c, k) ==
    \/ writing[k] = c
    \/ \E i \in DOMAIN down[k] : down[k][i] = c
    \/ c \in running[ConnTab[k]]
    \/ \E i \in DOMAIN up[k] : up[k][i] \in Bridge!Results /\ up[k][i].id = c

\* No call is forgotten while its response channel is in the map: a handler
\* has its Disconnect before it and will close the channel at the latest; a
\* request that was sent and not received is in the session's channel; and
\* one that a connection received is underway as long as nothing failed there.
NoCallForgotten ==
    \A s \in Sessions : \A c \in responses[s] :
        /\ \E k \in Conns : ConnSession[k] = s /\ rpc[k] \in {"reading", "leaving"}
        /\ pc[c] = "wait" /\ taken[c] = None
              => \E i \in DOMAIN requests[s] : requests[s][i] = c
        /\ \A k \in Conns : taken[c] = k /\ Healthy(k) => Underway(c, k)

\* Neither goroutine of a connection outlives the other: a handler that
\* returned stops its writer, even one blocked on a full socket, and a writer
\* that failed brings the handler to return and to disconnect.
GoroutinesEndTogether ==
    \A k \in Conns :
        /\ rpc[k] = "gone" ~> wpc[k] = "done"
        /\ wpc[k] = "done" ~> rpc[k] = "gone"

\* A writer took the request of call c and ended before a tab had it.
Swallowed(c) ==
    /\ taken[c] # None
    /\ wpc[taken[c]] = "done"
    /\ delivered[c] = 0

\* The channel has no room for the request of call c.
Blocked(c) ==
    pc[c] = "send" /\ Len(requests[CallSession[c]]) = QueueCap

\* A registered call returns, by an answer or by a disconnect, though its
\* context may never end: as long as tabs do their part, only a full channel
\* and a writer that ends with the request in its hands keep it waiting.
EveryCallReturns ==
    TabFairness =>
        \A c \in Calls : pc[c] \in {"send", "wait"} ~>
            pc[c] = "done" \/ Swallowed(c) \/ Blocked(c)

\* What the reference says of CLIENT_UNAVAILABLE: no browser is attached.  So
\* no call is refused while a handler serves a socket of its session.
RefusedMeansAbsent ==
    [][\A c \in Calls : Bridge!CallRefused(c) =>
          \A k \in Conns :
              ConnSession[k] = CallSession[c] => rpc[k] # "reading"]_vars

\* Nor does a call in flight fail with that code, unless a tab of its session
\* closed its socket.
UnavailableMeansAbsent ==
    [][\A c \in Calls : Bridge!CallClosed(c) => left[CallSession[c]]]_vars

\* What the diary says of a pending request: it is cleaned up on completion
\* or timeout.  So once a call is over and every handler has returned, no
\* browser that comes later executes its request.
OverNotExecuted ==
    \A c \in Calls :
        [](/\ pc[c] = "done"
           /\ delivered[c] = 0
           /\ \A k \in Conns : rpc[k] \in {"off", "gone"}
           => [](\A t \in Tabs : c \notin running[t]))
=============================================================================
