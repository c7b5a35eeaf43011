------------------------------- MODULE DemoPage -------------------------------
(***************************************************************************)
(* The demo page (src/frontend/src/demo/browser-chat-demo.ts) and the HTTP *)
(* handlers that serve it (src/backend/internal/chat/http.go, service.go), *)
(* over the conversations of SessionStore.                                 *)
(*                                                                         *)
(* A page keeps the last snapshot of its session that a response brought.  *)
(* start() asks for a session, connects the websocket and refreshes; the   *)
(* buttons work as soon as there is a session, so prompts overlap with     *)
(* start() and with each other.  Responses arrive in any order or not at   *)
(* all.  A page survives a restart of the backend; sessions do not.        *)
(*                                                                         *)
(* A fetch is with the page ("idle", "settled", "rejected"), on its way    *)
(* ("sent", "answered", "lost") or in its handler.                         *)
(* Of a turn the steps that touch the session are kept, see ChatService    *)
(* for the rest; it may fail once it has planned, as its tool call may.    *)
(* Each page creates one session, so conversations are named by the page   *)
(* that asked for them.                                                    *)
(***************************************************************************)
EXTENDS SessionStore, SequencesExt

CONSTANTS
    Pages,          \* instances of BrowserChatDemo
    Prompts,        \* messages that users send
    MaxRestarts,    \* how often the backend process restarts
    None,
    Failure         \* a response with a status that is not ok

ASSUME PageAssumption ==
    /\ Conversations = Pages
    /\ MaxRestarts \in Nat
    /\ None \notin Pages

VARIABLES
    stage,          \* stage[p]: the await at which start() of page p is
    shown,          \* shown[p]: the field session
    status,         \* status[p]: statusText
    socket,         \* socket[p]: the socket of its session client
    author,         \* author[m]: the page that sent prompt m
    at,             \* at[f]: where fetch f is
    url,            \* url[f]: the session identifier in its URL
    asked,          \* asked[f]: what the page showed when it sent f (history)
    turn,           \* turn[m]: the Session that the handler of prompt m holds
    planned,        \* planned[m]: the tools that its turn may plan with
    reply,          \* reply[f]: a snapshot or Failure
    restarts,       \* restarts of the process (history)
    born,           \* born[p]: restarts when the session of p was stored (history)
    destroyed       \* destroyed[p]: what was under way when destroy() was called

page == <<stage, shown, status, socket, author, destroyed>>
request == <<at, url, asked, turn, planned, reply>>
life == <<restarts, born>>
vars == <<store, page, request, life>>

create(p) == <<"create", p>>
refresh(p) == <<"refresh", p>>
message(m) == <<"message", m>>
Fetches == ({"create", "refresh"} \X Pages) \cup ({"message"} \X Prompts)

Init ==
    /\ StoreInit
    /\ stage = [p \in Pages |-> "new"]
    /\ shown = [p \in Pages |-> None]
    /\ status = [p \in Pages |-> "idle"]
    /\ socket = [p \in Pages |-> "none"]
    /\ author = [m \in Prompts |-> None]
    /\ at = [f \in Fetches |-> "idle"]
    /\ url = [f \in Fetches |-> None]
    /\ asked = [f \in Fetches |-> None]
    /\ turn = [m \in Prompts |-> None]
    /\ planned = [m \in Prompts |-> None]
    /\ reply = [f \in Fetches |-> None]
    /\ restarts = 0
    /\ born = [p \in Pages |-> 0]
    /\ destroyed = [p \in Pages |-> None]

Set(var, key, val) == [var EXCEPT ![key] = val]

-----------------------------------------------------------------------------
(* fetch, as the page sees it.                                             *)

\* The request leaves; what the page shows now is noted.
Send(f, p, id) ==
    /\ at' = Set(at, f, "sent")
    /\ url' = Set(url, f, id)
    /\ asked' = Set(asked, f, shown[p])

\* The page is done with the fetch and all it held for it.
End(f, how) ==
    /\ at' = Set(at, f, how)
    /\ url' = Set(url, f, None)
    /\ asked' = Set(asked, f, None)
    /\ reply' = Set(reply, f, None)

Settle(f) == End(f, "settled")

\* The response is there, with a snapshot or with an error status.
Answered(f) == at[f] = "answered" /\ reply[f] # Failure
Errored(f) == at[f] = "answered" /\ reply[f] = Failure

\* The network fails before the request or after the response reached the
\* other side, or the backend went away in between: fetch rejects.
Rejected(f) == at[f] \in {"sent", "answered", "lost"}

-----------------------------------------------------------------------------
(* start().                                                                *)

start(p) ==
    /\ stage[p] = "new"
    /\ stage' = Set(stage, p, "creating")
    /\ status' = Set(status, p, "creating session")
    /\ Send(create(p), p, None)
    /\ UNCHANGED <<store, shown, socket, author, destroyed, turn, planned,
                   reply, life>>

\* The session is shown, its buttons work, and connect() is called, all in
\* one go, also when the page was destroyed meanwhile.
SessionCreated(p) ==
    /\ Answered(create(p))
    /\ Settle(create(p))
    /\ shown' = Set(shown, p, reply[create(p)])
    /\ stage' = Set(stage, p, "connecting")
    /\ socket' = Set(socket, p, "connecting")
    /\ UNCHANGED <<store, status, author, destroyed, turn, planned, life>>

\* start() rejects; nobody touches the status.
CreateFails(p) ==
    /\ Rejected(create(p))
    /\ Settle(create(p))
    /\ stage' = Set(stage, p, "ended")
    /\ UNCHANGED <<store, shown, status, socket, author, destroyed, turn,
                   planned, life>>

\* onopen: connect() resolves, and the session is read again.
Connected(p) ==
    /\ socket[p] = "connecting"
    /\ socket' = Set(socket, p, "open")
    /\ status' = Set(status, p, "connected")
    /\ IF shown[p] = None
       THEN /\ stage' = Set(stage, p, "ended")
            /\ UNCHANGED <<at, url, asked>>
       ELSE /\ stage' = Set(stage, p, "refreshing")
            /\ Send(refresh(p), p, shown[p].id)
    /\ UNCHANGED <<store, shown, author, destroyed, turn, planned, reply, life>>

\* onerror and onclose of a socket that was never open: start() rejects.
ConnectFails(p) ==
    /\ stage[p] = "connecting"
    /\ stage' = Set(stage, p, "ended")
    /\ socket' = Set(socket, p, "closed")
    /\ UNCHANGED <<store, shown, status, author, destroyed, request, life>>

\* onclose of one that was: the page takes no notice and does not reconnect.
SocketCloses(p) ==
    /\ socket[p] = "open"
    /\ socket' = Set(socket, p, "closed")
    /\ UNCHANGED <<store, stage, shown, status, author, destroyed, request,
                   life>>

Refreshed(p) ==
    /\ Answered(refresh(p))
    /\ Settle(refresh(p))
    /\ shown' = Set(shown, p, reply[refresh(p)])
    /\ stage' = Set(stage, p, "ended")
    /\ UNCHANGED <<store, status, socket, author, destroyed, turn, planned, life>>

RefreshFails(p) ==
    /\ Errored(refresh(p)) \/ Rejected(refresh(p))
    /\ Settle(refresh(p))
    /\ stage' = Set(stage, p, "ended")
    /\ UNCHANGED <<store, shown, status, socket, author, destroyed, turn,
                   planned, life>>

-----------------------------------------------------------------------------
(* The buttons, and destroy().                                             *)

\* A prompt goes to the session that is shown, whatever else is under way.
sendPrompt(p, m) ==
    /\ author[m] = None
    /\ shown[p] # None
    /\ author' = Set(author, m, p)
    /\ status' = Set(status, p, "sending prompt")
    /\ Send(message(m), p, shown[p].id)
    /\ UNCHANGED <<store, stage, shown, socket, destroyed, turn, planned, reply,
                   life>>

\* The response replaces what is shown, whether or not it is newer.
PromptAnswered(m) ==
    LET p == author[m] IN
    /\ Answered(message(m))
    /\ Settle(message(m))
    /\ shown' = Set(shown, p, reply[message(m)])
    /\ status' = Set(status, p, "assistant replied")
    /\ UNCHANGED <<store, stage, socket, author, destroyed, turn, planned, life>>

\* Mutant of PromptErrored: the status is left alone.
PromptErroredSilently(m) ==
    /\ Errored(message(m))
    /\ Settle(message(m))
    /\ UNCHANGED <<store, page, turn, planned, life>>

PromptErrored(m) ==
    /\ Errored(message(m))
    /\ Settle(message(m))
    /\ status' = Set(status, author[m], "error")
    /\ UNCHANGED <<store, stage, shown, socket, author, destroyed, turn, planned,
                   life>>

\* fetch throws before the status is touched.
PromptLost(m) ==
    /\ Rejected(message(m))
    /\ End(message(m), "rejected")
    /\ UNCHANGED <<store, page, turn, planned, life>>

\* The fetches of page p that are under way.
UnderWay(p) ==
    {f \in {create(p), refresh(p)}
              \cup {message(m) : m \in {m \in Prompts : author[m] = p}} :
        at[f] \notin {"idle", "settled", "rejected"}}

\* Mutant of destroy: the socket is left open.
destroyKeepsSocket(p) ==
    /\ stage[p] # "new"
    /\ destroyed[p] = None
    /\ destroyed' = Set(destroyed, p, UnderWay(p))
    /\ shown' = Set(shown, p, None)
    /\ status' = Set(status, p, "closed")
    /\ UNCHANGED <<store, stage, socket, author, request, life>>

\* The socket is closed and the session forgotten.  What is under way goes
\* on: start() and the handlers of fetches do not look whether they should.
\* Modelled once per page.
destroy(p) ==
    /\ stage[p] # "new"
    /\ destroyed[p] = None
    /\ destroyed' = Set(destroyed, p, UnderWay(p))
    /\ shown' = Set(shown, p, None)
    /\ status' = Set(status, p, "closed")
    /\ socket' = Set(socket, p, IF socket[p] \in {"connecting", "open"}
                                THEN "closed" ELSE socket[p])
    /\ UNCHANGED <<store, stage, author, request, life>>

-----------------------------------------------------------------------------
(* The handlers of the backend.                                            *)

Answer(f, what) ==
    /\ at' = Set(at, f, "answered")
    /\ reply' = Set(reply, f, what)

\* The handler of prompt m is done, and with it its locals.
Return(m) == turn' = Set(turn, m, None) /\ planned' = Set(planned, m, None)

\* POST /api/sessions: Store.Create ...
CreateSession(p) ==
    /\ at[create(p)] = "sent"
    /\ Create(p)
    /\ born' = Set(born, p, restarts)
    /\ url' = Set(url, create(p), nextID')
    /\ at' = Set(at, create(p), "stored")
    /\ UNCHANGED <<page, asked, turn, planned, reply, restarts>>

\* ... then seedSession, one lock per tool ...
seedSession(p) ==
    /\ at[create(p)] = "stored"
    /\ \E tool \in Tools \ tools[p] : UpsertTool(p, tool)
    /\ UNCHANGED <<page, request, life>>

\* Mutant of SessionAnswer: the response does not wait for the tools.
SessionAnswerEarly(p) ==
    /\ at[create(p)] = "stored"
    /\ Answer(create(p), Snapshot(url[create(p)], p))
    /\ UNCHANGED <<store, page, url, asked, turn, planned, life>>

\* ... and the first snapshot.
SessionAnswer(p) ==
    /\ at[create(p)] = "stored"
    /\ tools[p] = Tools
    /\ Answer(create(p), Snapshot(url[create(p)], p))
    /\ UNCHANGED <<store, page, url, asked, turn, planned, life>>

\* GET of a session: its snapshot, or 404.
Session(p) ==
    LET id == url[refresh(p)] IN
    /\ at[refresh(p)] = "sent"
    /\ Answer(refresh(p), IF id \in DOMAIN sessions
                          THEN Snapshot(id, sessions[id]) ELSE Failure)
    /\ UNCHANGED <<store, page, url, asked, turn, planned, life>>

\* POST of a message: the turn begins with the prompt in the transcript.
HandleUserMessage(m) ==
    LET id == url[message(m)] IN
    /\ at[message(m)] = "sent"
    /\ id \in DOMAIN sessions
    /\ AppendMessage(sessions[id], [kind |-> "user", of |-> m])
    /\ turn' = Set(turn, m, sessions[id])
    /\ at' = Set(at, message(m), "begun")
    /\ UNCHANGED <<page, url, asked, planned, reply, life>>

\* The session is unknown: 500.
UnknownSession(m) ==
    /\ at[message(m)] = "sent"
    /\ url[message(m)] \notin DOMAIN sessions
    /\ Answer(message(m), Failure)
    /\ UNCHANGED <<store, page, url, asked, turn, planned, life>>

\* runTurn takes a snapshot, and with it the tools the model may plan.
Plan(m) ==
    /\ at[message(m)] = "begun"
    /\ planned' = Set(planned, m, tools[turn[m]])
    /\ at' = Set(at, message(m), "planned")
    /\ UNCHANGED <<store, page, url, asked, turn, reply, life>>

\* The tool call fails, and with it the turn: 500.
TurnFails(m) ==
    /\ at[message(m)] = "planned"
    /\ Answer(message(m), Failure)
    /\ Return(m)
    /\ UNCHANGED <<store, page, url, asked, life>>

Reply(m) ==
    /\ at[message(m)] = "planned"
    /\ AppendMessage(turn[m], [kind |-> "reply", of |-> m])
    /\ at' = Set(at, message(m), "replied")
    /\ UNCHANGED <<page, url, asked, turn, planned, reply, life>>

Respond(m) ==
    /\ at[message(m)] = "replied"
    /\ Answer(message(m), Snapshot(url[message(m)], turn[m]))
    /\ Return(m)
    /\ UNCHANGED <<store, page, url, asked, life>>

InHandler == {"stored", "begun", "planned", "replied"}

\* The process ends with all handlers, and starts over.  Requests that are
\* still on their way reach the new one.
BackendRestarts ==
    /\ restarts < MaxRestarts
    /\ restarts' = restarts + 1
    /\ Restart
    /\ at' = [f \in Fetches |-> IF at[f] \in InHandler THEN "lost" ELSE at[f]]
    /\ turn' = [m \in Prompts |-> None]
    /\ planned' = [m \in Prompts |-> None]
    /\ UNCHANGED <<page, url, asked, reply, born>>

-----------------------------------------------------------------------------

PageStep(p) ==
    \/ start(p) \/ SessionCreated(p) \/ CreateFails(p)
    \/ Connected(p) \/ ConnectFails(p) \/ SocketCloses(p)
    \/ Refreshed(p) \/ RefreshFails(p)
    \/ destroy(p)
    \/ \E m \in Prompts : sendPrompt(p, m)

Respondent(m) == PromptAnswered(m) \/ PromptErrored(m) \/ PromptLost(m)

Handlers(p) == CreateSession(p) \/ seedSession(p) \/ SessionAnswer(p) \/ Session(p)

Turn(m) ==
    \/ HandleUserMessage(m) \/ UnknownSession(m)
    \/ Plan(m) \/ TurnFails(m) \/ Reply(m) \/ Respond(m)

Next ==
    \/ \E p \in Pages : PageStep(p) \/ Handlers(p)
    \/ \E m \in Prompts : Respondent(m) \/ Turn(m)
    \/ BackendRestarts

Spec == Init /\ [][Next]_vars

\* Handlers run and fetches end.  Users need not act, sockets need not open,
\* and the tool call of a turn need not return: it waits on the context of the
\* POST, which has no deadline, and the page never aborts its fetch.
Fairness ==
    /\ \A p \in Pages : WF_vars(Handlers(p))
    /\ \A m \in Prompts :
          /\ WF_vars(at[message(m)] # "planned" /\ Turn(m))
          /\ WF_vars(Respondent(m))

FairSpec == Spec /\ Fairness

-----------------------------------------------------------------------------
(* Correctness.                                                            *)

Snapshots ==
    [id : Nat \ {0}, conversation : Pages,
     messages : Seq([kind : {"user", "reply"}, of : Prompts])]

\* Type invariant.
TypeOK ==
    /\ nextID \in Nat
    /\ DOMAIN sessions = 1 .. nextID
    /\ \A id \in DOMAIN sessions : sessions[id] \in Pages
    /\ tools \in [Pages -> SUBSET Tools]
    /\ messages \in [Pages -> Seq([kind : {"user", "reply"}, of : Prompts])]
    /\ stage \in [Pages -> {"new", "creating", "connecting", "refreshing",
                            "ended"}]
    /\ shown \in [Pages -> Snapshots \cup {None}]
    /\ status \in [Pages -> {"idle", "creating session", "connected",
                             "sending prompt", "assistant replied", "error",
                             "closed"}]
    /\ socket \in [Pages -> {"none", "connecting", "open", "closed"}]
    /\ author \in [Prompts -> Pages \cup {None}]
    /\ at \in [Fetches -> {"idle", "sent", "answered", "lost", "settled",
                           "rejected"} \cup InHandler]
    /\ url \in [Fetches -> (Nat \ {0}) \cup {None}]
    /\ asked \in [Fetches -> Snapshots \cup {None}]
    /\ turn \in [Prompts -> Pages \cup {None}]
    /\ planned \in [Prompts -> (SUBSET Tools) \cup {None}]
    /\ reply \in [Fetches -> Snapshots \cup {None, Failure}]
    /\ restarts \in 0 .. MaxRestarts
    /\ born \in [Pages -> 0 .. MaxRestarts]
    /\ destroyed \in [Pages -> (SUBSET Fetches) \cup {None}]

\* Conversations are private to their pages as long as the backend lives: a
\* prompt in the conversation of another page, or a page that shows one, takes
\* a page that is older than the last restart and whose identifier was given
\* out again.
StrangersAreSurvivors ==
    \A p \in Pages :
        /\ \A i \in DOMAIN messages[p] :
              LET a == author[messages[p][i].of] IN
              a # p => born[a] < born[p]
        /\ shown[p] # None /\ shown[p].conversation # p
              => born[p] < born[shown[p].conversation]

\* A turn plans with all tools, though a session is in the store before its
\* tools are: who knows its identifier has seen it seeded.  Only a page that
\* survived a restart may come too early to a session it does not own.
OwnersSeeTools ==
    \A m \in Prompts : planned[m] \notin {None, Tools}
        => born[author[m]] < born[turn[m]]

\* What a page shows of a conversation never gets shorter, but by a response
\* that another one overtook on its way.
OnlyOvertakenGoBack ==
    [][\A p \in Pages :
         /\ shown[p] # None /\ shown'[p] # None
         /\ shown[p].conversation = shown'[p].conversation
         => \/ IsPrefix(shown[p].messages, shown'[p].messages)
            \/ \E f \in UnderWay(p) : at'[f] = "settled" /\ asked[f] # shown[p]]_vars

\* destroy() is final but for what was under way then: a socket comes back only
\* with the response to the fetch that was still creating the session, and a
\* session is shown again only after a response it had not seen then.
DestroyedStaysClosed ==
    \A p \in Pages : destroyed[p] # None =>
        /\ socket[p] \in {"connecting", "open"}
              => create(p) \in destroyed[p] /\ at[create(p)] = "settled"
        /\ shown[p] # None => \E f \in destroyed[p] : at[f] = "settled"

\* The status line does not stay at "sending prompt": a response, good or bad,
\* replaces it.  A fetch that rejects leaves it behind, and so does a turn
\* whose tool call never returns.
StatusSettles ==
    (\A m \in Prompts : /\ [](at[message(m)] # "rejected")
                        /\ []<>(at[message(m)] # "planned"))
        => \A p \in Pages :
              status[p] = "sending prompt" ~> status[p] # "sending prompt"
=============================================================================
