----------------------------- MODULE SessionStore -----------------------------
(***************************************************************************)
(* The conversations the backend holds in memory: Store and Session of     *)
(* src/backend/internal/chat/session.go, as CreateSession, Session and     *)
(* HandleUserMessage of service.go use them.                               *)
(*                                                                         *)
(* Every operator that changes state is what one method does under one     *)
(* lock.  The handlers that call them, and what happens between two calls, *)
(* are in DemoPage.  An identifier sess_0001, sess_0002, ... is its        *)
(* number.  Nothing is persisted: a restart of the process starts over.    *)
(***************************************************************************)
EXTENDS Naturals, Sequences

CONSTANTS
    Conversations,  \* Session objects, over all lives of the process
    Tools           \* the manifests that seedSession registers

VARIABLES
    nextID,         \* Store.nextID
    sessions,       \* Store.sessions: identifier -> Session
    tools,          \* tools[c]: the tools registered in Session c
    messages        \* messages[c]: its transcript

store == <<nextID, sessions, tools, messages>>

StoreInit ==
    /\ nextID = 0
    /\ sessions = <<>>
    /\ tools = [c \in Conversations |-> {}]
    /\ messages = [c \in Conversations |-> <<>>]

\* Mutant of Create: the next identifier is that of the last session.
CreateReusesID(c) ==
    /\ nextID' = 1
    /\ sessions' = [id \in DOMAIN sessions \cup {1} |-> c]
    /\ UNCHANGED <<tools, messages>>

\* Store.Create: a session without tools and messages under a new identifier.
Create(c) ==
    /\ nextID' = nextID + 1
    /\ sessions' = [id \in DOMAIN sessions \cup {nextID + 1} |->
                      IF id = nextID + 1 THEN c ELSE sessions[id]]
    /\ UNCHANGED <<tools, messages>>

\* Session.UpsertTool.
UpsertTool(c, tool) ==
    /\ tools' = [tools EXCEPT ![c] = @ \cup {tool}]
    /\ UNCHANGED <<nextID, sessions, messages>>

\* Session.AppendUserMessage and AppendAssistantMessage.
AppendMessage(c, message) ==
    /\ messages' = [messages EXCEPT ![c] = Append(@, message)]
    /\ UNCHANGED <<nextID, sessions, tools>>

\* Mutant of Snapshot: only what the last turn added.
SnapshotDelta(id, c) ==
    [id |-> id, conversation |-> c,
     messages |-> SelectSeq(messages[c],
                            LAMBDA m : m = messages[c][Len(messages[c])])]

\* Session.Snapshot.
Snapshot(id, c) == [id |-> id, conversation |-> c, messages |-> messages[c]]

\* Mutant of Restart: the sessions come back, the counter does not.
RestartForgetsCounter ==
    /\ nextID' = 0
    /\ UNCHANGED <<sessions, tools, messages>>

\* The process ends and starts again.
Restart ==
    /\ nextID' = 0
    /\ sessions' = <<>>
    /\ UNCHANGED <<tools, messages>>
=============================================================================
