---------------------------- MODULE BrowserBridge ----------------------------
(***************************************************************************)
(* The rendezvous between the backend and the browsers                     *)
(* (src/backend/internal/chat/browserbridge.go): one mutex-protected       *)
(* record per session, a buffered channel of requests that outlives every  *)
(* connection, and one response channel of capacity 1 per pending call.    *)
(*                                                                         *)
(* Actors: a goroutine per Call (an HTTP handler that runs a turn), and a  *)
(* websocket handler per browser connection, which calls Connect,          *)
(* SubmitResult and Disconnect in program order, while its writer          *)
(* goroutine receives from Requests.  What the lock protects is one action;*)
(* every channel operation outside of it is an action of its own.          *)
(*                                                                         *)
(* A record that sessions does not hold yet reads like one that was never  *)
(* connected, so the map is total here.  Call identifiers never repeat     *)
(* within a process (nextCallID): a member of Calls is one execution of    *)
(* Call, and a member of Conns one BrowserConnection.  The tool and the    *)
(* arguments of a request are carried along untouched, so a request is its *)
(* identifier; a result is its identifier and an output.                   *)
(***************************************************************************)
EXTENDS Naturals, Sequences

CONSTANTS
    Sessions,       \* chat sessions
    Calls,          \* executions of Call, by call identifier
    Conns,          \* browser connections, each used once
    CallSession,    \* the session a call is made for
    ConnSession,    \* the session a connection is opened for
    Outputs,        \* what a tool.result may carry (ok or error alike)
    Caps,           \* what a browser may publish as its capabilities
    QueueCap,       \* capacity of a session's request channel
    Unavailable,    \* the result of unavailableToolResult
    Timeout,        \* the result of timeoutToolResult
    None            \* no value

Results == [id : Calls, output : Outputs]

ASSUME BridgeAssumption ==
    /\ CallSession \in [Calls -> Sessions]
    /\ ConnSession \in [Conns -> Sessions]
    /\ QueueCap \in Nat
    /\ None \notin Results \cup Caps \cup Conns \cup {Unavailable, Timeout}
    /\ {Unavailable, Timeout} \cap Results = {}

VARIABLES
    connected,      \* browserSession.connected
    capabilities,   \* browserSession.capabilities
    requests,       \* browserSession.requests: what the channel holds
    responses,      \* browserSession.responses: its keys
    pc,             \* pc[c]: where the goroutine of call c is
    ctxDone,        \* ctxDone[c]: the context of call c is done
    outcome,        \* outcome[c]: what Call returns
    buf,            \* buf[c]: what the response channel of call c holds
    closed,         \* closed[c]: the response channel of call c is closed
    conn,           \* conn[k]: "new", "attached", "detached"
    submitting,     \* submitting[k]: result k removed from the map, not yet sent
    closing,        \* closing[k]: channels Disconnect of k has yet to close
    accepted,       \* accepted[c]: the result that claimed call c (history)
    taken           \* taken[c]: the connection that received request c (history)

session == <<connected, capabilities, requests, responses>>
caller == <<pc, ctxDone, outcome>>
channel == <<buf, closed>>
handler == <<conn, submitting, closing>>
history == <<accepted, taken>>
vars == <<session, caller, channel, handler, history>>

Init ==
    /\ connected = [s \in Sessions |-> FALSE]
    /\ capabilities = [s \in Sessions |-> None]
    /\ requests = [s \in Sessions |-> <<>>]
    /\ responses = [s \in Sessions |-> {}]
    /\ pc = [c \in Calls |-> "idle"]
    /\ ctxDone = [c \in Calls |-> FALSE]
    /\ outcome = [c \in Calls |-> None]
    /\ buf = [c \in Calls |-> None]
    /\ closed = [c \in Calls |-> FALSE]
    /\ conn = [k \in Conns |-> "new"]
    /\ submitting = [k \in Conns |-> None]
    /\ closing = [k \in Conns |-> {}]
    /\ accepted = [c \in Calls |-> None]
    /\ taken = [c \in Calls |-> None]

-----------------------------------------------------------------------------
(* The connection: the calls a websocket handler makes.                    *)

\* The handler's goroutine runs none of the steps below.
Free(k) == submitting[k] = None /\ closing[k] = {}

Connect(k) ==
    /\ conn[k] = "new"
    /\ conn' = [conn EXCEPT ![k] = "attached"]
    /\ connected' = [connected EXCEPT ![ConnSession[k]] = TRUE]
    /\ UNCHANGED <<capabilities, requests, responses, submitting, closing,
                   caller, channel, history>>

PublishCapabilities(k, caps) ==
    /\ conn[k] = "attached"
    /\ Free(k)
    /\ capabilities' = [capabilities EXCEPT ![ConnSession[k]] = caps]
    /\ UNCHANGED <<connected, requests, responses, caller, channel, handler,
                   history>>

\* Mutants of Disconnect: the flag left set; the pending channels of every
\* session taken.
DisconnectStaysConnected(k) ==
    LET s == ConnSession[k] IN
    /\ conn[k] = "attached"
    /\ Free(k)
    /\ conn' = [conn EXCEPT ![k] = "detached"]
    /\ closing' = [closing EXCEPT ![k] = responses[s]]
    /\ responses' = [responses EXCEPT ![s] = {}]
    /\ UNCHANGED <<connected, capabilities, requests, submitting, caller,
                   channel, history>>

DisconnectEverySession(k) ==
    /\ conn[k] = "attached"
    /\ Free(k)
    /\ conn' = [conn EXCEPT ![k] = "detached"]
    /\ connected' = [connected EXCEPT ![ConnSession[k]] = FALSE]
    /\ closing' = [closing EXCEPT ![k] = UNION {responses[s] : s \in Sessions}]
    /\ responses' = [s \in Sessions |-> {}]
    /\ UNCHANGED <<capabilities, requests, submitting, caller, channel,
                   history>>

\* The part of Disconnect under the lock: the whole map of pending channels
\* is swapped for an empty one.
Disconnect(k) ==
    LET s == ConnSession[k] IN
    /\ conn[k] = "attached"
    /\ Free(k)
    /\ conn' = [conn EXCEPT ![k] = "detached"]
    /\ connected' = [connected EXCEPT ![s] = FALSE]
    /\ closing' = [closing EXCEPT ![k] = responses[s]]
    /\ responses' = [responses EXCEPT ![s] = {}]
    /\ UNCHANGED <<capabilities, requests, submitting, caller, channel,
                   history>>

\* Mutant of CloseResponse: the channel is dropped and never closed.
CloseResponseForgets(k, c) ==
    /\ c \in closing[k]
    /\ closing' = [closing EXCEPT ![k] = @ \ {c}]
    /\ UNCHANGED <<session, caller, channel, conn, submitting, history>>

\* The loop of Disconnect after the lock: map iteration order is unspecified.
CloseResponse(k, c) ==
    /\ c \in closing[k]
    /\ closing' = [closing EXCEPT ![k] = @ \ {c}]
    /\ closed' = [closed EXCEPT ![c] = TRUE]
    /\ UNCHANGED <<session, caller, buf, conn, submitting, history>>

\* SubmitResult finds no pending channel and reports an error.
SubmitUnknown(k, result) ==
    /\ conn[k] = "attached"
    /\ Free(k)
    /\ result.id \notin responses[ConnSession[k]]

\* Mutants of SubmitLookup: the entry is kept; any session is searched.
SubmitLookupKeepsEntry(k, result) ==
    /\ conn[k] = "attached"
    /\ Free(k)
    /\ result.id \in responses[ConnSession[k]]
    /\ submitting' = [submitting EXCEPT ![k] = result]
    /\ accepted' = [accepted EXCEPT ![result.id] = result]
    /\ UNCHANGED <<session, caller, channel, conn, closing, taken>>

SubmitLookupAnySession(k, result) ==
    /\ conn[k] = "attached"
    /\ Free(k)
    /\ \E s \in Sessions : result.id \in responses[s]
    /\ responses' = [s \in Sessions |-> responses[s] \ {result.id}]
    /\ submitting' = [submitting EXCEPT ![k] = result]
    /\ accepted' = [accepted EXCEPT ![result.id] = result]
    /\ UNCHANGED <<connected, capabilities, requests, caller, channel, conn,
                   closing, taken>>

\* SubmitResult under the lock: look the channel up and delete its entry.
SubmitLookup(k, result) ==
    LET s == ConnSession[k] IN
    /\ conn[k] = "attached"
    /\ Free(k)
    /\ result.id \in responses[s]
    /\ responses' = [responses EXCEPT ![s] = @ \ {result.id}]
    /\ submitting' = [submitting EXCEPT ![k] = result]
    /\ accepted' = [accepted EXCEPT ![result.id] = result]
    /\ UNCHANGED <<connected, capabilities, requests, caller, channel, conn,
                   closing, taken>>

\* SubmitResult after the lock: a send that gives up when the buffer is full.
SubmitSend(k) ==
    LET c == submitting[k].id IN
    /\ submitting[k] # None
    /\ ~closed[c]
    /\ buf' = [buf EXCEPT ![c] = IF @ = None THEN submitting[k] ELSE @]
    /\ submitting' = [submitting EXCEPT ![k] = None]
    /\ UNCHANGED <<session, caller, closed, conn, closing, history>>

\* Mutant of ReceiveRequest: the request is read and stays in the queue.
ReceiveRequestPeeks(k) ==
    LET s == ConnSession[k] IN
    /\ conn[k] # "new"
    /\ requests[s] # <<>>
    /\ taken' = [taken EXCEPT ![Head(requests[s])] = k]
    /\ UNCHANGED <<session, caller, channel, handler, accepted>>

\* The writer goroutine of k receives a request.  It may still do so once k
\* is detached: its select picks any of the ready cases.
ReceiveRequest(k) ==
    LET s == ConnSession[k] IN
    /\ conn[k] # "new"
    /\ requests[s] # <<>>
    /\ taken' = [taken EXCEPT ![Head(requests[s])] = k]
    /\ requests' = [requests EXCEPT ![s] = Tail(@)]
    /\ UNCHANGED <<connected, capabilities, responses, caller, channel,
                   handler, accepted>>

-----------------------------------------------------------------------------
(* The caller: the body of Call.                                           *)

\* The end of the select statements: the result is chosen and the deferred
\* delete is still to run.
Finish(c, result) ==
    /\ pc' = [pc EXCEPT ![c] = "return"]
    /\ outcome' = [outcome EXCEPT ![c] = result]

CallRefused(c) ==
    /\ pc[c] = "idle"
    /\ ~connected[CallSession[c]]
    /\ pc' = [pc EXCEPT ![c] = "done"]
    /\ outcome' = [outcome EXCEPT ![c] = Unavailable]
    /\ UNCHANGED <<session, ctxDone, channel, handler, history>>

CallRegister(c) ==
    LET s == CallSession[c] IN
    /\ pc[c] = "idle"
    /\ connected[s]
    /\ pc' = [pc EXCEPT ![c] = "send"]
    /\ responses' = [responses EXCEPT ![s] = @ \cup {c}]
    /\ UNCHANGED <<connected, capabilities, requests, ctxDone, outcome,
                   channel, handler, history>>

CallSend(c) ==
    LET s == CallSession[c] IN
    /\ pc[c] = "send"
    /\ Len(requests[s]) < QueueCap
    /\ pc' = [pc EXCEPT ![c] = "wait"]
    /\ requests' = [requests EXCEPT ![s] = Append(@, c)]
    /\ UNCHANGED <<connected, capabilities, responses, ctxDone, outcome,
                   channel, handler, history>>

CallReceive(c) ==
    /\ pc[c] = "wait"
    /\ buf[c] # None
    /\ buf' = [buf EXCEPT ![c] = None]
    /\ Finish(c, buf[c])
    /\ UNCHANGED <<session, ctxDone, closed, handler, history>>

CallClosed(c) ==
    /\ pc[c] = "wait"
    /\ buf[c] = None
    /\ closed[c]
    /\ Finish(c, Unavailable)
    /\ UNCHANGED <<session, ctxDone, channel, handler, history>>

\* Mutant of CallCancelled: only the second select watches the context.
CallCancelledWhileWaiting(c) ==
    /\ pc[c] = "wait"
    /\ ctxDone[c]
    /\ Finish(c, Timeout)
    /\ UNCHANGED <<session, ctxDone, channel, handler, history>>

CallCancelled(c) ==
    /\ pc[c] \in {"send", "wait"}
    /\ ctxDone[c]
    /\ Finish(c, Timeout)
    /\ UNCHANGED <<session, ctxDone, channel, handler, history>>

\* Mutant of CallReturn: the entry stays in the map.
CallReturnKeepsEntry(c) ==
    /\ pc[c] = "return"
    /\ pc' = [pc EXCEPT ![c] = "done"]
    /\ UNCHANGED <<session, ctxDone, outcome, channel, handler, history>>

\* The deferred delete.
CallReturn(c) ==
    /\ pc[c] = "return"
    /\ pc' = [pc EXCEPT ![c] = "done"]
    /\ responses' = [responses EXCEPT ![CallSession[c]] = @ \ {c}]
    /\ UNCHANGED <<connected, capabilities, requests, ctxDone, outcome,
                   channel, handler, history>>

\* The HTTP request whose handler runs call c goes away.
CancelContext(c) ==
    /\ ~ctxDone[c]
    /\ pc[c] # "done"
    /\ ctxDone' = [ctxDone EXCEPT ![c] = TRUE]
    /\ UNCHANGED <<session, pc, outcome, channel, handler, history>>

-----------------------------------------------------------------------------

Caller(c) ==
    \/ CallSend(c)
    \/ CallReceive(c)
    \/ CallClosed(c)
    \/ CallCancelled(c)
    \/ CallReturn(c)

Next ==
    \/ \E k \in Conns :
          \/ Connect(k)
          \/ \E caps \in Caps : PublishCapabilities(k, caps)
          \/ Disconnect(k)
          \/ \E c \in Calls : CloseResponse(k, c)
          \/ \E result \in Results : SubmitLookup(k, result)
          \/ SubmitSend(k)
          \/ ReceiveRequest(k)
    \/ \E c \in Calls :
          \/ CallRefused(c)
          \/ CallRegister(c)
          \/ Caller(c)
          \/ CancelContext(c)

Spec == Init /\ [][Next]_vars

\* A goroutine that can run runs: the bodies of Call, of SubmitResult and of
\* the loop in Disconnect.  That browsers answer, that writers read and that
\* contexts end is not assumed.
Fairness ==
    /\ \A c \in Calls : WF_vars(Caller(c))
    /\ \A k \in Conns : WF_vars(SubmitSend(k))
    /\ \A k \in Conns, c \in Calls : WF_vars(CloseResponse(k, c))

FairSpec == Spec /\ Fairness

-----------------------------------------------------------------------------
(* Correctness.                                                            *)

\* Type invariant.
TypeOK ==
    /\ connected \in [Sessions -> BOOLEAN]
    /\ capabilities \in [Sessions -> Caps \cup {None}]
    /\ requests \in [Sessions -> Seq(Calls)]
    /\ responses \in [Sessions -> SUBSET Calls]
    /\ pc \in [Calls -> {"idle", "send", "wait", "return", "done"}]
    /\ ctxDone \in [Calls -> BOOLEAN]
    /\ outcome \in [Calls -> Results \cup {Unavailable, Timeout, None}]
    /\ buf \in [Calls -> Results \cup {None}]
    /\ closed \in [Calls -> BOOLEAN]
    /\ conn \in [Conns -> {"new", "attached", "detached"}]
    /\ submitting \in [Conns -> Results \cup {None}]
    /\ closing \in [Conns -> SUBSET Calls]
    /\ accepted \in [Calls -> Results \cup {None}]
    /\ taken \in [Calls -> Conns \cup {None}]

\* SubmitResult sends and Disconnect closes without the lock, on channels
\* they took out of the map under it.  Neither may find the channel already
\* closed, which would panic, nor a send the buffer full ("response channel is
\* full"), whatever the order of two connections and a call.
NoChannelPanic ==
    /\ \A k \in Conns : submitting[k] # None =>
          ~closed[submitting[k].id] /\ buf[submitting[k].id] = None
    /\ \A k \in Conns : \A c \in closing[k] : ~closed[c]

\* The map of pending responses never outlives the calls or the connection:
\* an entry belongs to a call of that session that has not returned, and a
\* session without a connection has none.
PendingIsLive ==
    \A s \in Sessions : \A c \in responses[s] :
        /\ CallSession[c] = s
        /\ connected[s]
        /\ pc[c] \in {"send", "wait", "return"}

\* A request that one writer received stays received by that writer: it is
\* never handed to a second connection, however often the browser reconnects.
HandedOutOnce ==
    [][\A c \in Calls : taken[c] # None => taken'[c] = taken[c]]_vars

\* Sessions do not leak into each other although all of them share the
\* bridge: a request is queued for, received by and answered from
\* connections of its own session only.
StaysInSession ==
    \A c \in Calls, s \in Sessions, k \in Conns :
        /\ (\E i \in DOMAIN requests[s] : requests[s][i] = c)
              => CallSession[c] = s
        /\ taken[c] = k => CallSession[c] = ConnSession[k]
        /\ (submitting[k] # None /\ submitting[k].id = c)
              => CallSession[c] = ConnSession[k]
        /\ c \in closing[k] => CallSession[c] = ConnSession[k]

-----------------------------------------------------------------------------
(* The inductive strengthening of the invariants above.                    *)

Revoked(c) == closed[c] \/ \E k \in Conns : c \in closing[k]

\* A pending entry has been neither claimed by a result nor by a disconnect.
PendingInv ==
    \A s \in Sessions : \A c \in responses[s] :
        /\ CallSession[c] = s
        /\ connected[s]
        /\ pc[c] \in {"send", "wait", "return"}
        /\ accepted[c] = None
        /\ ~Revoked(c)

\* The result that claimed a call is its own, is the only one, and excludes
\* a disconnect.
ClaimInv ==
    /\ \A c \in Calls :
          /\ buf[c] # None => buf[c] = accepted[c]
          /\ accepted[c] # None =>
                accepted[c].id = c /\ pc[c] # "idle" /\ ~Revoked(c)
    /\ \A k \in Conns : submitting[k] # None =>
          /\ accepted[submitting[k].id] = submitting[k]
          /\ buf[submitting[k].id] = None
          /\ \A j \in Conns \ {k} : submitting[j] # None =>
                submitting[j].id # submitting[k].id

\* The disconnect that claimed a call is the only one.
ClosingInv ==
    \A c \in Calls :
        /\ Revoked(c) => pc[c] # "idle"
        /\ \A k \in Conns : c \in closing[k] =>
              ~closed[c] /\ \A j \in Conns \ {k} : c \notin closing[j]

\* A call that waits and was claimed by nobody can still be found.
OpenInv ==
    \A c \in Calls :
        pc[c] \in {"send", "wait"} /\ accepted[c] = None /\ ~Revoked(c)
            => c \in responses[CallSession[c]]

\* The result that claimed a call that waits is in its channel or about to be.
AnswerInv ==
    \A c \in Calls :
        pc[c] \in {"send", "wait"} /\ accepted[c] # None
            => buf[c] # None \/ \E k \in Conns : submitting[k] = accepted[c]

\* A request is in the queue of its session at most once, after it was sent
\* and before it is received.
QueueInv ==
    /\ \A c \in Calls : taken[c] # None => pc[c] \notin {"idle", "send"}
    /\ \A s \in Sessions : \A i \in 1 .. Len(requests[s]) :
          /\ CallSession[requests[s][i]] = s
          /\ taken[requests[s][i]] = None
          /\ pc[requests[s][i]] \notin {"idle", "send"}
          /\ \A j \in 1 .. Len(requests[s]) :
                requests[s][j] = requests[s][i] => j = i

SessionInv ==
    \A c \in Calls, k \in Conns :
        /\ taken[c] = k => CallSession[c] = ConnSession[k]
        /\ submitting[k] # None /\ submitting[k].id = c
              => CallSession[c] = ConnSession[k]
        /\ c \in closing[k] => CallSession[c] = ConnSession[k]

\* The inductive invariant.
BridgeInv ==
    /\ TypeOK
    /\ PendingInv
    /\ ClaimInv
    /\ ClosingInv
    /\ OpenInv
    /\ AnswerInv
    /\ QueueInv
    /\ SessionInv

-----------------------------------------------------------------------------
(* The promise to the callers.                                             *)

CallPhase ==
    [c \in Calls |->
        CASE pc[c] = "idle"               -> "idle"
          [] pc[c] \in {"return", "done"} -> "returned"
          [] OTHER -> IF accepted[c] # None THEN "answered"
                      ELSE IF Revoked(c) THEN "revoked" ELSE "open"]

CallValue ==
    [c \in Calls |-> IF pc[c] \in {"return", "done"} THEN outcome[c]
                     ELSE accepted[c]]

Remote == INSTANCE RemoteCall WITH
              attached <- connected,
              phase <- CallPhase,
              value <- CallValue,
              abandoned <- {c \in Calls : ctxDone[c]}

\* The bridge keeps the promise of RemoteCall: the first of an answer and a
\* detach decides a call, a decided call returns just that unless its caller
\* gave up, an answer reaches the call it names and no other, and a detach
\* decides all open calls of its session and none of another.
KeepsPromise == Remote!Spec

\* A call whose context is done returns, wherever it was blocked: on a full
\* request channel or on a browser that never answers.
CancelledCallReturns ==
    \A c \in Calls : ctxDone[c] /\ pc[c] # "idle" ~> pc[c] = "done"

\* A call that was put on the request channel and was then answered, or
\* whose session was disconnected, returns without further help.
DecidedCallReturns ==
    \A c \in Calls :
        pc[c] = "wait" /\ (accepted[c] # None \/ Revoked(c)) ~> pc[c] = "done"
=============================================================================
