# A verification project for the client-side tool broker

The repository is a chat whose backend (Go) owns the conversation and whose
browser (TypeScript) owns the tools that need local powers: the origin-private
file system and WebAssembly workers. This directory holds TLA+ models of it,
TLC configurations that check them on small instances, and theorems about them
that TLAPS proves for instances of any size. `PROJECT.json` lists the
components, the runs, the source lines each definition models, the mutants that
show each property has teeth, the hazards and the theorems.

    tlc -workers 2 -config bridge_reconnect.cfg MCBrowserBridge.tla
    tlapm BrowserBridgeProofs.tla

## The system

| Part | State | Operations | Talks to |
| --- | --- | --- | --- |
| Client bridge, `browserbridge.go` | per session: a flag, capabilities, a buffered channel of requests, a map of response channels; one lock for all | `Connect`, `PublishCapabilities`, `Disconnect`, `SubmitResult`, `Call` | the router calls `Call`, a websocket handler everything else |
| Websocket endpoint, `websocket.go` | per connection: a handler goroutine that reads, a writer goroutine, a context either may cancel | upgrade, dispatch of frames, deferred `cancel`, `Disconnect`, `Close` | the bridge; the browser's socket |
| Turn loop, `service.go`, `router.go` | the step counter and the snapshot of a turn | `HandleUserMessage`, `runTurn`, `RouteTool` | session, mock model, bridge |
| Session and store, `session.go` | a map of sessions and a counter for their identifiers; per session a transcript, pending calls, tools | `Create`, `Get`, `UpsertTool`, `Append...`, `Snapshot` | every turn of the session |
| Mock model, `mockmodel.go` | one atomic counter of call identifiers | `Generate` | |
| HTTP routes, `http.go` | none | create, read, post a message, upgrade | service, endpoint |
| Session client, `websocket-session-client.ts` | the current socket | `connect`, `close`, `send`, four event handlers | broker, socket |
| Tool broker, registry, executors | the tables of tools | `handle`, `execute` | session client, worker client |
| Worker client, `worker-client.ts` | per request: a worker and a timer | `runWorkerTask` | workers |
| OPFS, WASM and parser workers | the origin-private file system | list, read, write; grep, tokenize, embed, transcode; tokenize, parse, index | |
| Demo page, `browser-chat-demo.ts`, `ChatView.tsx` | the session it shows, its status line | start, send a prompt, destroy | HTTP, session client |

A prompt becomes a turn; the turn appends to the session, asks the model, and
routes a tool call. A client tool goes through `Call` into the request channel of
the session, from there through whichever writer goroutine receives it to a tab,
through the broker into a worker, and back as a `tool.result` frame that the
handler of whichever socket the tab has by then submits to the bridge, which
wakes the goroutine of the turn. The page sees none of this: it waits for the
response to its POST and shows the snapshot in it.

What is hard about it:

* three kinds of goroutine (turns, handlers, writers) meet in the bridge, which
  sends on and closes channels outside of its lock;
* the state of a session in the bridge belongs to no connection: two handlers of
  a session overlap whenever a tab reconnects or a second one opens;
* the request channel outlives both connections and calls;
* a call ends by an answer, a disconnect or its context, and any two of them race;
* two turns of a session share one transcript;
* a session is in the store before it has its tools, and its identifier is given
  out again by the next process, while pages survive that process;
* in the page, event handlers of an old socket run when a newer one is current,
  responses overtake each other, and `destroy` does not stop what is under way;
* the names of tools, the shape of their arguments and the meaning of a failure are
  written down in five places in two languages.

## The modules

| Module | Models | Role |
| --- | --- | --- |
| `RemoteCall` | no code: the contract of the bridge | abstract specification, used by `ChatService`, implemented by `BrowserBridge` |
| `BrowserBridge` | `browserbridge.go` | the core |
| `BrowserTab` | what a tab does, seen from its sockets | abstract specification, composed with by `WebSocketTransport`, implemented by `BrowserSession` |
| `WebSocketTransport` | `websocket.go`, sockets and frames | composes with `BrowserBridge` and `BrowserTab` (each call of the bridge and each step of a tab is one of their actions, conjoined) |
| `ChatService` | `service.go`, `router.go`, the session of `session.go`, the shape of `mockmodel.go` | composes with `RemoteCall` |
| `SessionStore` | the store of `session.go` and what a session keeps for others to read | extended by `DemoPage` |
| `DemoPage` | `browser-chat-demo.ts`, `http.go`, `seedSession`, restarts | the page and its backend |
| `BrowserSession` | `websocket-session-client.ts`, `broker.ts`, `worker-client.ts` | the socket of the page and what it executes; its peer is external |
| `OpfsWorker` | `opfs.worker.ts` under `worker-client.ts` | the tasks on the file system; its tree is external |
| `WorkerTasks` | `wasm.worker.ts`, `parser.worker.ts` | pure functions on texts, with a reference definition of a match |
| `ToolPath` | `mockmodel.go`, `mockbridge.go`, `registry.ts`, the executors | one call along all tables |
| `MC...` | | instances for TLC |
| `...Proofs` | | theorems |

**BrowserBridge.** What the lock protects is one action; each channel operation
outside of it is one more. `Call` is `CallRefused` or `CallRegister` (under the
lock), `CallSend` or `CallCancelled` (the first select), `CallReceive`,
`CallClosed` or `CallCancelled` (the second), and `CallReturn` (the deferred
delete). `SubmitResult` is `SubmitLookup`, which takes the channel out of the map,
and `SubmitSend`; `Disconnect` is the swap of the map and then one
`CloseResponse` per channel, in any order. A select with several ready cases picks
any of them, as in Go. `pc` stands for the position of the goroutine, `buf` and
`closed` for a response channel of capacity one. `accepted` and `taken` are
history: which result claimed a call, which connection received its request.

**RemoteCall** says what a caller may rely on: an open call is answered or
revoked, whichever comes first, and returns just that; only a call that was given
up may return TIMEOUT; a detach revokes all open calls of the session, at once, and
no other. The refinement mapping computes the phase of a call from `pc`, `accepted`
and whether a disconnect has claimed it: the moment of decision is the step under
the lock, not the channel operation that follows.

**WebSocketTransport** adds the goroutines of a connection and the frames in
flight. The deferred calls of the handler run in the order cancel, Disconnect,
Close. `Written` lets a write through while there is room, `WriteFails` lets it
fail once the context or the peer is gone; both are possible then, as in the
library. The tabs are those of `BrowserTab`: an endpoint action that a tab takes part in
conjoins its step with what becomes of the frame.

**BrowserTab** says what the endpoint may take for granted of a page: one socket is open
at a time, a request that arrives is taken up or refused at once, and what was taken up
is answered over whichever socket is open by then, or lost if none is.
`BrowserSession` implements it with its sockets, workers and timers: a request is running
while a worker has it in hand, a message it posted included, and the field `socket` has
to be right for the answer to leave over the open one.

**ChatService.** An action is one access to the session under its lock.
`Generate` looks at the last message of a snapshot only, so a message is reduced to
what that decision and the properties tell apart: whose prompt it is and which tool
the model plans for it, which call a result belongs to, which call or prompt a reply
is about. The bridge is the contract, not the implementation.

**SessionStore and DemoPage.** A page is where `start` is, what it shows and the state
of its socket. Every fetch is a record of where it is: sent, in one of the stations of
its handler, answered, or lost. `CreateSession`, `seedSession` (one tool per step, one
lock each) and `SessionAnswer` are the handler of a create; `HandleUserMessage`, `Plan`,
`Reply` or `TurnFails`, and `Respond` are what a turn does that other parties can see.
`BackendRestarts` ends all handlers, empties the store and sets the counter back, and
leaves the pages alone. `asked`, `born` and `destroyed` are history. A conversation
keeps its own name (the page that asked for it), so that two sessions under one
identifier can be told apart.

**BrowserSession.** An action is one task of the page's event loop with the promise
continuations it triggers. The peer may start to close a socket (`SocketClosing`), which
the field holds until `onclose`. `hasty` is history: the sockets that were made before the
last one had closed. The demo page connects once and makes none; a caller that connects
right after `close` does, and the properties say what remains true for it.

**OpfsWorker.** An action is one await of a task. The file system is modelled from how
the worker uses it: `getDirectoryHandle` and `getFileHandle` create at once, a stream
replaces the file as a whole when its close is committed. `Timer` and `PageCloses` may
terminate a worker between any two awaits; the commit of a close that was under way comes
all the same, later than anything else perhaps. A text is identified with the request that
wrote it, which is all that the properties ask of it. The tree starts as any of `OldTrees`,
since it outlives pages.

**WorkerTasks and ToolPath.** A text is a sequence of characters with the three kinds of
white space that the code tells apart; arguments are records whose missing fields are the
undefined ones. A line is told by the line feeds before and after it (`Lines`), so that no
definition recurses over a text; `Hits` is the reference: where the query begins without a
line feed before its end. `ToolPath` follows one call: planned by
the model from the words of a prompt or asked for by a client of the broker, through the
router, the registry, an executor and a worker, to the sentence the assistant says.

## What the runs show

| Run | Instance | Shows |
| --- | --- | --- |
| `bridge_reconnect` | 1 session, 2 connections, 2 calls, queue of 1, 2 outputs; 254 634 states | no panic, one writer per request, the inductive invariant (the types are a part of it), refinement of `RemoteCall`; calls that are cancelled or decided return |
| `bridge_sessions` | 2 sessions, 3 calls, 2 connections, queue of 2; 703 518 states | sessions do not leak into each other |
| `transport_reconnect` | 1 tab, 2 sockets, 1 call; 125 072 states | no ghost connection; a request executes once; no pending call is forgotten; reader and writer end together; every call returns while the tab takes part, but one that a dying writer swallowed (with one call there is always room; a full queue is what `bridge_reconnect` has) |
| `chat_concurrent` | 2 turns, together or in turn, a client and a server tool; 45 900 states | pending calls, transcript and responses agree; a turn nobody disturbs answers its own prompt; the depth bound is met only by turns that took up the prompts of others; turns end |
| `demo_page` | 2 pages, 1 prompt, 1 tool, 1 restart; 611 861 states | conversations are private within a life of the backend; a page's own turns plan with all tools; what comes back after `destroy` comes with a response to what was under way; what is shown goes back only by a response that was overtaken; the status line settles if no fetch rejects and tool calls return |
| `browser_reconnect` | 3 sockets, 3 requests, a caller that may or may not wait for `onclose`; 182 443 states | no socket is lost sight of, or open without a capability snapshot, but one that was made right after a `close`; results lost only while offline; refinement of `BrowserTab` as long as callers wait; `connect` and requests settle |
| `opfs_concurrent` | 2 writes and a read of one file, a listing; 3 959 571 states up to symmetry | acknowledged writes stay and are seen; texts are never lost; what is settled stays quiet; a listing that is not marked truncated is complete |
| `tool_path` | every prompt, every text up to four characters, arguments good and bad; 78 499 states | what the model plans is known to all parts; the assistant reports failures as failures; a search finds every line, as the parser worker does |

Four runs expect a violation. Each checks one sentence of the repository's documents
against the code and ends with a counterexample; `PROJECT.json` quotes the
sentences.

| Run | What the code does |
| --- | --- |
| `transport_stale_request` | the request of a call that is over, whose connection is gone, waits in the channel of the session; the browser that connects next receives and executes it |
| `transport_overlap` | the Disconnect of an old handler marks the session disconnected under a new socket, and calls are refused |
| `transport_late_answer` | a late answer tears its connection down and fails the other calls in flight |
| `tool_args` | the executor of `wasm.run_task` hands the worker the arguments around the field `args` of the manifest, where the worker finds neither query nor documents: every search the model plans reports no match |

More disagreements came up and have no run of their own, for a few steps of one
actor show them or a property says what remains true:

* `browserbridge.go:123`: a call that waits for room in the request channel is not woken
  by a disconnect (the diary, `02-diary.md:530`, says that pending calls are). `Blocked`
  in `EveryCallReturns` names the case.
* `websocket.go:44`: the writer of a dying connection takes a request it cannot deliver,
  and the call waits until its context ends. `Swallowed` names that case.
* `service.go:65`: a turn looks at the last message of the session, so overlapping
  turns answer each other's prompts. `UndisturbedAnswersOwn` states what remains true.
* `service.go:92`: a failed call leaves a tool call without a result in the transcript,
  and the model never learns of it. `PendingMatchesTranscript` states what remains true.
* `service.go:95`: the output of a `local_only` tool is stored in the transcript, where
  the design guide (line 294) wants a summary only.
* `websocket-session-client.ts:45`: `onclose` clears the field whichever socket it holds.
  If `connect` is called right after `close`, the onclose of the old socket clears the
  field that holds the new one, which then opens without a capability snapshot and cannot
  send. `Orphan` in `CurrentSocketOnly`, `ReadyMeansPublished` and `LostMeansOffline` names
  such a socket: without that exception `browser_reconnect` finds one.
* `browser-chat-demo.ts:179`: the status line stays at "sending prompt" when the fetch of a
  prompt rejects, and while the tool call of its turn does not return: the call waits on the
  context of the POST, which has no deadline (`http.go:82`), and the page never aborts its
  fetch. `StatusSettles` has both as its premise.
* `mockmodel.go`, `extractPath`: a path needs a file extension to be one, so that
  "Browse OPFS /notes" lists `/`.
* `opfs.worker.ts:118`: `list_dir` and `read_text` create the directories on the way to a
  path that does not exist.
* The manifests' maximum of 30000 for `timeout_ms` is enforced nowhere. The design guide
  lists tasks of `wasm.run_task` (`parse`, `index`) that `wasm.worker.ts` does not have.

**Bounds.** Two connections are what an overlap takes, two calls what a full queue of
one takes, and the third socket of `BrowserSession` is what a stale event after a
stale event takes. The capacity of the request channel is 16 in the code and 1 or 2
here: what matters is whether it is full. `MaxSteps` is 8 in the code and 2 here, so
that two turns can reach the bound; `DepthSuffices` says what it takes for any value.
In `demo_page` two pages and one restart are what a survivor and its successor under one
identifier take; one prompt suffices for a response that is overtaken, by the refresh of
`start`. Two prompts of one page were checked apart (134 000 states), and the theorems
cover the rest. Texts of four characters over two letters and the three kinds of white
space have every edge of a line: empty ones, CRLF, a lone carriage return, a match next
to a break, a text that ends in one.
The limit of the listing is 1, so that two
files exceed it, and the three earlier trees are an empty one, one with both files and one
with a file where the directory should be. `FrameCap` is 1: a tab that does not read blocks
its writer. Each socket and each call
is used once. No run sets a state constraint: the instances are finite by themselves. The two writes of
`opfs_concurrent` are symmetric: same task, same path, and no liveness is checked there.
`browser_reconnect` checks no types of its own, since `ClientTyped` proves them.
`CHECK_DEADLOCK` is off throughout: once all calls, sockets and turns are used up the
system rests.

**Fairness.** A goroutine that can run runs: weak fairness of each body of `Call`,
of each handler, each writer and each turn, as the Go scheduler gives. Not assumed: that
a browser answers, that a context ends, that a tab reads or closes its socket.
`EveryCallReturns` needs the tab to take part and has that as its premise
(`TabFairness`: its event loop runs, and its executions end, which the timers of the
workers bound). `TurnsEnd` has the premise that no call stays open for ever, since the
context of a POST has no deadline. In the page a connection attempt ends one way or the
other and timers fire (`BrowserSession`); handlers run and fetches are answered, while users
need not act, sockets need not open and the tool call of a turn need not return (`DemoPage`).
`StatusSettles` has the premise that no fetch of a prompt rejects and that no tool call stays
open for ever: the counterpart of the premise of `TurnsEnd`. `ToolPath` and `OpfsWorker` have safety
properties only.

## What is proved

For every set of sessions, calls, connections, sockets, requests, turns, pages and
prompts, every capacity, every depth of a turn, any number of restarts and every
assignment of calls, connections and turns to sessions:

| Module | Theorems |
| --- | --- |
| `BrowserBridgeProofs` | `TypeCorrect`, `BridgeInvariant`, and from it `NoPanic`, `NoPendingLeak`, `SessionsStayApart`, `AtMostOneWriter`, `WaitersCanBeWoken`; `BridgeKeepsPromise`: the bridge implements the contract |
| `WebSocketTransportProofs` | `EndpointTyped`, `NoGhost`; `EndpointDrivesBridge`: every behaviour of the endpoint is one of the bridge, hence `BridgeInvBehind` and `EndpointNoPanic`, and `EndpointKeepsPromise`: the endpoint implements the contract; `RequestsRunOnce`, `NothingForgotten`, `GoroutinesCanEnd` |
| `ChatServiceProofs` | `ChatTyped`, `PendingCorrect`, `ResultsInOrder`; `TurnsKeepContract`: every behaviour of the turns is one of the contract |
| `ChatTurnProofs` | `DepthTakesOthers`, `TurnsAnswerOwn`, `TurnsAskOnce`, `TurnsRunOut` |
| `BrowserSessionProofs` | `ClientTyped`, `NothingLeftOwing`, `AnswersAreFinal`, `ClientCorrect`, `OnlineMeansPublished`, `LostOnlyOffline`; `PageIsATab`: until a socket is made too early, a step of the page is one of the tab of the endpoint; `PatientPageIsATab`: with callers that wait for `onclose` the page implements that tab |
| `OpfsWorkerProofs` | `WorkersTyped`, `AcknowledgedStays`, `ReadsStayCurrent`, `TextsNeverLost`, `ListingsComplete`, `SettledStaysQuiet`, for any paths and earlier tree |
| `DemoPageProofs` | `DemoTyped`, `PrivateWithinALife`, `OwnTurnsSeeTools`, `DestroyIsFinal`, `ViewGoesBackWhenOvertaken`, `SendingIsOwed` |
| `ToolPathProofs` | `PlansServed`, `RepliesTellOutcomes`, `SearchesFindEveryLine`, for texts of any length over any characters |

They rest on the named assumptions of the modules: `BridgeAssumption` (calls and
connections belong to sessions, the capacity is a natural number, the outcomes are
distinct from results), `TransportAssumption`, `SessionAssumption`, `OpfsAssumption`,
`ChatAssumption` (turns belong to sessions, a prompt plans a known tool or none, the
outcomes differ from each other and from answers), `PageAssumption`, `AskedAssumption` (what
clients of the broker ask to search are texts). TLC evaluates all of them. A theorem
that has a run states the very property the run checks.

**The bridge.** None of the properties is inductive by itself: that
`SubmitSend` finds its channel open depends on who else could have taken the entry.
`BridgeInv` is about ownership. A pending call is in exactly one place: in the map
(`PendingInv`: then nobody has claimed it), claimed by one result (`ClaimInv`: then
its buffer is empty until the send, and no disconnect has it), or claimed by one
disconnect (`ClosingInv`: then it is not closed yet). `OpenInv` closes the circle: a
call that waits and nobody claimed is still in the map, so a result or a disconnect
will find it; without it `Detach` of the contract could miss a call. `QueueInv` says a
request is in the channel at most once and not after it was received; `SessionInv`
keeps sessions apart; `AnswerInv` says that a result which was accepted is in the channel of
its call or about to be, so that a call that waits can always be woken (`WaitersCanBeWoken`). Each part has a lemma, each lemma a step per action.

**The refinement.** `OneMoved` and `Unmoved` say when the mapped phase and value of
the calls stay as they are; `RefineStep` then takes the actions one at a time.

**The endpoint.** `RequestsRunOnce` follows the request of a call on its way (`WayInv`):
once a writer took it from the channel it is in the hands of that writer, in one frame on
its way down, delivered or lost, never in two of these places (`OnItsWay`); what a tab
executes and what it answers was delivered (`Arrived`, `Answers`).
`NothingForgotten` needs the converse (`ServedInv`): that a request which a connection took
is still somewhere (`TakenIsUnderway`). It rests on a tab having one socket open at a time
(`OneSocket`): the answer goes back over the connection that the request came by, if that
one is healthy. That the endpoint implements the contract is no consequence of the bridge
doing so step by step only: `EndpointDrivesBridge` gives the behaviour, `SamePromise` says
that the two refinement mappings are one.

**The tab.** What `WebSocketTransport` takes for granted of a browser, `BrowserSession` is
proved to do (`PageIsATab`), with a lemma per kind of step: connecting, closing to the end and
a worker that posts are stutters, a message, an error or a timer is an answer or a loss. It
takes both invariants of the client: that the field `socket` holds the open socket
(`ClientInv`), or an answer would be lost with a socket open, and that a request is in the
hands of a worker or answered, never both (`SettlingInv`), or it would be answered twice. The
first is about sockets that are not `hasty`, and rests on such a socket having no other beside
it whose `onclose` is still to come (`LiveAlone`). So the page is a tab as long as `hasty` is
empty (`PageIsATab`), and for good if it stays so (`PatientPageIsATab`); for a caller that
connects again before `onclose` the endpoint's theorems say nothing.

**The turns.** Pending calls, transcript and the phase of a call in the contract are tied
by the step of its turn (`Control` in `ChatServiceProofs`): a call is in the transcript
once its turn counted it (`CallsLogged`), its result once the turn took a step with it
(`ResultsLogged`), and it is pending in between (`PendingIsBetween`).
`DepthSuffices` takes an account (`SpentInv` in `ChatTurnProofs`): between two calls of a
turn somebody else must put a prompt at the end of the transcript, so a turn has made at
most one call more than there are prompts of others behind its own, and one that used up
its steps met that many. `TurnsAnswerOwn`
rests on what a turn finds at the end of its snapshot while nobody else writes behind its
prompt: that prompt, or the result of the tool for it (`Undisturbed`).

**The page.** The store knows the sessions of this life of the backend only (`LifeInv`). The
identifier a page was given is that of its own session while that life lasts (`Valid`), and
a page meets its own conversation or one of a later life (`Reach`); `PageInv`, `PromptInv` and `MessageInv`
carry this through fetches, turns and transcripts. `DestroyIsFinal` follows the chain by
which `start` goes on after `destroy` back to a response to what was under way (`Responded`,
`LeftOver`); that such a response is not undone takes that no fetch is made twice (`OnceInv`).
That the view only grows (`ViewInv`) is a matter of three
moments: what the page noted when it sent a fetch, what the handler found, and what the
transcript is now are beginnings of each other in this order.

**The file system.** `WriteInv` says where the text of a write is between its commit and
its acknowledgement (`LandedInv`) and that a request which was over when another began
takes no step any more and has no close under way (`BeforeInv`): so whoever commits later
is no older. `ReadInv` adds what a read holds, `FoundInv` and `ListInv` what a listing
has seen of the directory as it goes.

**The way of a call.** `PathInv` says what is known of a call at each stage of its way; that
the five tables of tools agree on the calls the model plans (`PlansServed`), and that the
assistant reports what became of one (`RepliesTellOutcomes`), follow from it. That a search
finds every line (`SearchesFindEveryLine`) is about the functions of `WorkerTasks`. What a
recursive definition computes is out of the prover's reach, so these define lines and matches
by positions. `Ascending` lists a finite set of numbers in order (`AscendingProperties`), and
is the only function that does (`AscendingUnique`); a line spans from one break to the next
(`LineSpan`, `LineText`); a hit of the reference lies in just one of them (`LineHasHit`).
`FlattenSeq` of the community modules is the one recursion left: that it joins its parts
(`FlattenJoins`) is by induction over a set of numbers (`SetInduction`), which takes no
operator as a parameter.

**Liveness, the safe half.** TLAPS proves no formula with fairness, but each property below
has a part that is a matter of states and steps, and that part is where such a property
usually breaks: something waits, and nobody is left who owes it the step it waits for. These
parts are proved for every instance, and TLC checks what remains.

| Liveness, by TLC | What is proved |
| --- | --- |
| `DecidedCallReturns` | `WaitersCanBeWoken`: a call that waits is in the map, or its result or its revocation is in the channel or on its way there |
| `EveryCallReturns` | `NothingForgotten`: a pending call has a handler that will disconnect, and its request is in the channel, or underway unless something failed |
| `GoroutinesEndTogether` | `GoroutinesCanEnd`: when one goroutine of a connection has ended, the other is not waiting for it |
| `TurnsEnd` | `TurnsAskOnce`: a turn waits only for a call the bridge knows; `TurnsRunOut`: its steps are bounded (`Fuel`), whatever other turns do |
| `ConnectSettles`, `RequestSettles` | `NothingLeftOwing`: what is pending has a socket or a worker that owes it an event |
| `StatusSettles` | `SendingIsOwed`: a page that says it is sending has a prompt to be answered, or one whose fetch rejected |

**Model-checked only.** The liveness properties themselves: those of this table, and
`CancelledCallReturns`.

## What is not modelled

* Frames that are no JSON or of an unknown type; the client sends none. Method checks,
  CORS, status codes beyond good and bad, the static files of the HTTP server, `chatd`.
* `HandleToolResult`: no route reaches it. The nil checks of the router and the unknown
  execution mode: main never builds such a router.
* The bytes of the sample module that `wasm.worker.ts` compiles, and the sum it reports.
* The layout of the page, its log and its diagnostics.
* The wording of replies, beyond which part of a result they tell; the cut at 120 bytes.
* The capabilities beyond their way through the bridge: nothing decides on them.

## Plan

Done: the bridge, its contract and its proofs; the endpoint; the turns; the store and the
page over restarts; the session client with broker and worker client, as the tab of the
endpoint; the OPFS worker; the tables of tools and the text tasks; the proofs of every
safety property that a run checks, and of the safe half of the liveness properties. Left:

1. `EndToEnd`: a page, an endpoint and a turn composed, on one call. The parts meet in
   contracts today (`RemoteCall` between turns and bridge, `BrowserTab` between endpoint and
   page); a composition would check that a response reaches the page that asked.
