---------------------------- MODULE BrowserSession ----------------------------
(***************************************************************************)
(* The browser's side of a session: WebSocketSessionClient                 *)
(* (session/websocket-session-client.ts), which owns the current socket,   *)
(* FrontendToolBroker (tool-broker/broker.ts), which answers tool.request  *)
(* frames, and runWorkerTask (tool-broker/worker-client.ts), which runs    *)
(* each of them in a worker of its own.                                    *)
(*                                                                         *)
(* The page has one thread: an action is one task of its event loop with   *)
(* the promise continuations it triggers.  Between two tasks anything else *)
(* may happen, so a handler that closes over an old socket may run when    *)
(* the field socket holds a newer one.                                     *)
(*                                                                         *)
(* The peer of a socket and the browser's WebSocket and Worker objects are *)
(* external; the peer sends a request once (DeliveredOnce of               *)
(* WebSocketTransport).  A result is the code it reports.                  *)
(***************************************************************************)
EXTENDS Naturals

CONSTANTS
    Sockets,        \* WebSocket objects
    Requests,       \* tool.request frames, by call identifier
    Known,          \* the requests that name a tool of the registry
    Lost,           \* the answer of a request whose result was not sent
    None            \* no socket, no result

Codes == {"ok", "TOOL_FAILED", "UNKNOWN_TOOL"}
Posted == {"ok", "TOOL_FAILED"}

ASSUME SessionAssumption ==
    /\ Known \subseteq Requests
    /\ None \notin Sockets
    /\ \A code \in Codes : code \notin {None, Lost}
    /\ None # Lost

VARIABLES
    socket,         \* WebSocketSessionClient.socket
    state,          \* state[k]: readyState, or "unused"
    promise,        \* promise[k]: what connect returned when it made k
    published,      \* published[k]: capabilities were sent over k
    hasty,          \* the sockets made before the last one had closed (history)
    worker,         \* worker[r]: "none", "busy", what it posted, or "gone"
    answer          \* answer[r]: the code of the tool.result that was sent for r

client == <<socket, state, promise, published, hasty>>
broker == <<worker, answer>>
vars == <<client, broker>>

Init ==
    /\ socket = None
    /\ state = [k \in Sockets |-> "unused"]
    /\ promise = [k \in Sockets |-> "none"]
    /\ published = [k \in Sockets |-> FALSE]
    /\ hasty = {}
    /\ worker = [r \in Requests |-> "none"]
    /\ answer = [r \in Requests |-> None]

-----------------------------------------------------------------------------
(* The socket.                                                             *)

\* Every socket has closed, its onclose included, or was never made.
AllOver == \A k \in Sockets : state[k] \in {"unused", "closed"}

\* Mutant of Connect: the field is not set.
ConnectForgetsSocket(k) ==
    /\ socket = None
    /\ state[k] = "unused"
    /\ state' = [state EXCEPT ![k] = "connecting"]
    /\ promise' = [promise EXCEPT ![k] = "pending"]
    /\ hasty' = IF AllOver THEN hasty ELSE hasty \cup {k}
    /\ UNCHANGED <<socket, published, broker>>

\* A second connect while there is a socket returns at once.  One that comes
\* after close and before the onclose of the old socket does not.
Connect(k) ==
    /\ socket = None
    /\ state[k] = "unused"
    /\ socket' = k
    /\ state' = [state EXCEPT ![k] = "connecting"]
    /\ promise' = [promise EXCEPT ![k] = "pending"]
    /\ hasty' = IF AllOver THEN hasty ELSE hasty \cup {k}
    /\ UNCHANGED <<published, broker>>

\* onopen: the capabilities go to the current socket, if that one is open;
\* if not, the send throws into a discarded promise.  connect resolves.
SocketOpens(k) ==
    /\ state[k] = "connecting"
    /\ state' = [state EXCEPT ![k] = "open"]
    /\ promise' = [promise EXCEPT ![k] = "resolved"]
    /\ published' = [j \in Sockets |->
                       published[j] \/ (j = socket /\ state'[j] = "open")]
    /\ UNCHANGED <<socket, hasty, broker>>

\* The peer starts to close: until onclose the field holds a socket over which
\* nothing can be sent, and connect returns because of it.
SocketClosing(k) ==
    /\ state[k] = "open"
    /\ state' = [state EXCEPT ![k] = "closing"]
    /\ UNCHANGED <<socket, promise, published, hasty, broker>>

\* Mutants of SocketCloses: onclose keeps the field; onerror is not handled.
SocketClosesKeepsField(k) ==
    /\ state[k] \in {"connecting", "open", "closing"}
    /\ state' = [state EXCEPT ![k] = "closed"]
    /\ promise' = [promise EXCEPT ![k] = IF @ = "pending" THEN "rejected" ELSE @]
    /\ UNCHANGED <<socket, published, hasty, broker>>

SocketClosesSilently(k) ==
    /\ state[k] \in {"connecting", "open", "closing"}
    /\ state' = [state EXCEPT ![k] = "closed"]
    /\ socket' = None
    /\ UNCHANGED <<promise, published, hasty, broker>>

\* The connection failed or ended: onerror, if it was never open, and then
\* onclose, which clears the field whatever socket it holds.
SocketCloses(k) ==
    /\ state[k] \in {"connecting", "open", "closing"}
    /\ state' = [state EXCEPT ![k] = "closed"]
    /\ promise' = [promise EXCEPT ![k] = IF @ = "pending" THEN "rejected" ELSE @]
    /\ socket' = None
    /\ UNCHANGED <<published, hasty, broker>>

\* close: the socket starts to close and the field is cleared at once.
Close ==
    /\ socket # None
    /\ state' = [state EXCEPT ![socket] = IF @ = "closed" THEN @ ELSE "closing"]
    /\ socket' = None
    /\ UNCHANGED <<promise, published, hasty, broker>>

-----------------------------------------------------------------------------
(* The broker.                                                             *)

\* Mutant of Respond: a socket that is still connecting will do.
RespondUnready(r, code) ==
    answer' = [answer EXCEPT ![r] = IF socket # None THEN code ELSE Lost]

\* A result leaves over the current socket.  When there is none or it is not
\* open, the send throws; the catch block sends TOOL_FAILED, which throws too.
Respond(r, code) ==
    answer' = [answer EXCEPT ![r] =
        IF socket # None /\ state[socket] = "open" THEN code ELSE Lost]

Receive(k, r) ==
    /\ state[k] = "open"
    /\ worker[r] = "none"
    /\ answer[r] = None

\* handleToolRequest: a tool of the registry is executed by a new worker ...
ReceiveKnown(k, r) ==
    /\ Receive(k, r)
    /\ r \in Known
    /\ worker' = [worker EXCEPT ![r] = "busy"]
    /\ UNCHANGED <<client, answer>>

\* ... and any other refused.
ReceiveUnknown(k, r) ==
    /\ Receive(k, r)
    /\ r \notin Known
    /\ Respond(r, "UNKNOWN_TOOL")
    /\ UNCHANGED <<client, worker>>

\* The worker posts its response; the page has yet to see it.
WorkerPosts(r, code) ==
    /\ worker[r] = "busy"
    /\ worker' = [worker EXCEPT ![r] = code]
    /\ UNCHANGED <<client, answer>>

WorkerGone(r) == worker' = [worker EXCEPT ![r] = "gone"]

\* onmessage: the worker is terminated and what it posted is reported.
WorkerMessage(r) ==
    /\ worker[r] \in Posted
    /\ WorkerGone(r)
    /\ Respond(r, worker[r])
    /\ UNCHANGED client

\* onerror: the worker failed to initialize.
WorkerError(r) ==
    /\ worker[r] = "busy"
    /\ WorkerGone(r)
    /\ Respond(r, "TOOL_FAILED")
    /\ UNCHANGED client

\* Mutant of WorkerTimeout: the timer terminates the worker and that is all.
WorkerTimeoutSilent(r) ==
    /\ worker[r] \in {"busy"} \cup Posted
    /\ WorkerGone(r)
    /\ UNCHANGED <<client, answer>>

\* The timer: a response that was posted and not yet seen is discarded with
\* the worker.  The executor turns TIMEOUT into an Error and the broker that
\* into TOOL_FAILED.
WorkerTimeout(r) ==
    /\ worker[r] \in {"busy"} \cup Posted
    /\ WorkerGone(r)
    /\ Respond(r, "TOOL_FAILED")
    /\ UNCHANGED client

-----------------------------------------------------------------------------

Task(r) ==
    \/ WorkerMessage(r)
    \/ WorkerError(r)
    \/ WorkerTimeout(r)

Next ==
    \/ Close
    \/ \E k \in Sockets :
          \/ Connect(k)
          \/ SocketOpens(k)
          \/ SocketClosing(k)
          \/ SocketCloses(k)
          \/ \E r \in Requests : ReceiveKnown(k, r) \/ ReceiveUnknown(k, r)
    \/ \E r \in Requests :
          \/ Task(r)
          \/ \E code \in Posted : WorkerPosts(r, code)

Spec == Init /\ [][Next]_vars

\* A connection attempt ends one way or the other, and timers fire.  Workers
\* need not answer, sockets that are open need not close.
Fairness ==
    /\ \A k \in Sockets :
          /\ WF_vars(SocketOpens(k) \/ (state[k] # "open" /\ SocketCloses(k)))
    /\ \A r \in Requests : WF_vars(Task(r))

FairSpec == Spec /\ Fairness

-----------------------------------------------------------------------------
(* Correctness.                                                            *)

\* Type invariant.
TypeOK ==
    /\ socket \in Sockets \cup {None}
    /\ state \in [Sockets -> {"unused", "connecting", "open", "closing",
                              "closed"}]
    /\ promise \in [Sockets -> {"none", "pending", "resolved", "rejected"}]
    /\ published \in [Sockets -> BOOLEAN]
    /\ hasty \subseteq Sockets
    /\ worker \in [Requests -> {"none", "busy", "gone"} \cup Posted]
    /\ answer \in [Requests -> Codes \cup {None, Lost}]

\* A socket that was made after the onclose of all before it is never lost
\* sight of: the field holds it as long as it connects or is open, whatever
\* connect and close do meanwhile.  Only one that was made right after a close
\* can be, when the onclose of the older socket clears the field.  And the
\* field never holds a socket that has closed.
CurrentSocketOnly ==
    \A k \in Sockets :
       /\ state[k] \in {"connecting", "open"} /\ k \notin hasty => socket = k
       /\ socket = k => state[k] \in {"connecting", "open", "closing"}

\* The socket is open and out of sight: its successor in the field, if any, is
\* another one.
Orphan(k) == k \in hasty /\ socket # k

\* The result of a tool is lost only while the page is offline, or all it has
\* is an orphan: one that was started over an old socket leaves over the new.
LostMeansOffline ==
    [][\A r \in Requests : answer[r] # Lost /\ answer'[r] = Lost
          => \A k \in Sockets : state[k] = "open" => Orphan(k)]_vars

\* connect always settles, whether the server accepts, refuses or vanishes
\* and even when close is called while it is under way.
ConnectSettles ==
    \A k \in Sockets : promise[k] = "pending" ~> promise[k] # "pending"

\* A request that a worker works on is answered or lost in the end, however
\* long the worker hangs and whatever becomes of the sockets.
RequestSettles ==
    \A r \in Requests : worker[r] = "busy" ~> answer[r] # None

\* A socket that is open has had a capability snapshot, so the backend never
\* calls a page it knows nothing of.  The one exception is an orphan: connect
\* was called right after close, and the onclose of the old socket cleared the
\* field that held the new one before that was open.
ReadyMeansPublished ==
    \A k \in Sockets : state[k] = "open" => published[k] \/ Orphan(k)

\* The page as one tab of BrowserTab.  It executes what a worker has in hand,
\* posted or not; a request has reached it once a worker had it or an answer
\* left.
ThePage == [k \in Sockets |-> "page"]
Online == [k \in Sockets |-> state[k] = "open"]
Executing ==
    [t \in {"page"} |-> {r \in Requests : worker[r] \in {"busy"} \cup Posted}]
Reached == [r \in Requests |->
              IF worker[r] = "none" /\ answer[r] = None THEN 0 ELSE 1]
Dropped == {r \in Requests : answer[r] = Lost}

Tab == INSTANCE BrowserTab WITH
    Conns <- Sockets, Calls <- Requests, Tabs <- {"page"}, ConnTab <- ThePage,
    open <- Online, running <- Executing, delivered <- Reached,
    lost <- Dropped

\* The client, the broker and the workers together keep what the endpoint
\* takes for granted of a tab: no second socket is open, a request that was
\* taken up is answered once, over whatever socket is open by then, and is
\* lost only if none is.  It takes callers that wait for onclose: the promise
\* is good for as long as no socket was made before the last had closed.
BehavesAsTab ==
    /\ Tab!Init
    /\ [][hasty' = {} => [Tab!Next]_(Tab!vars)]_vars
=============================================================================
