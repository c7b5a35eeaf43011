----------------------------- MODULE ChatService -----------------------------
(***************************************************************************)
(* The turns of a conversation (src/backend/internal/chat/service.go,      *)
(* session.go, router.go and the mock model of mockmodel.go).              *)
(*                                                                         *)
(* Every POST of a message runs a turn in a goroutine of its own: append   *)
(* the prompt, then take a snapshot, let the model decide on the last      *)
(* message of it, and either append a tool call, route it and append its   *)
(* result, or append the reply and answer with a second snapshot.  Each    *)
(* access to the Session takes its lock once and is one action; between    *)
(* two of them any other turn of the session may run.                      *)
(*                                                                         *)
(* Client tools are called through the contract RemoteCall, which          *)
(* BrowserBridge is proved to keep.  The texts of messages are abstracted  *)
(* to what they are about: a prompt to the tool the model plans for it, a  *)
(* reply to the tool call it summarises or the prompt it needs no tool     *)
(* for.  Sessions exist and are seeded before their first turn: clients    *)
(* learn an identifier from CreateSession.                                 *)
(***************************************************************************)
EXTENDS Naturals, Sequences, FiniteSets

CONSTANTS
    Sessions,       \* chat sessions
    Turns,          \* executions of HandleUserMessage
    TurnSession,    \* the session a turn is posted to
    ServerTools,    \* tools with execution = server
    ClientTools,    \* tools with execution = client
    PromptTool,     \* the tool planned for the prompt of a turn, or None
    MaxSteps,       \* the bound of the turn loop: 8 in the code
    MaxOpen,        \* how many turns clients keep open at a time
    Outputs, ServerOutput, Unavailable, Timeout, TooDeep, None

\* nextCallID numbers calls from one counter; here the n-th call of turn t.
Calls == Turns \X (1 .. MaxSteps)
CallSession == [c \in Calls |-> TurnSession[c[1]]]

\* What stands in a transcript.
Messages ==
    [kind : {"user"}, turn : Turns]
      \cup [kind : {"call"}, id : Calls, tool : ServerTools \cup ClientTools]
      \cup [kind : {"result"}, id : Calls, tool : ServerTools \cup ClientTools,
            result : [id : Calls, output : Outputs \cup {ServerOutput}]]
      \cup [kind : {"reply"}, about : Turns \cup Calls \cup {None}]

ASSUME ChatAssumption ==
    /\ TurnSession \in [Turns -> Sessions]
    /\ PromptTool \in [Turns -> ServerTools \cup ClientTools \cup {None}]
    /\ MaxSteps \in Nat
    /\ {None, Unavailable, Timeout} \cap [id : Calls, output : Outputs] = {}
    /\ TooDeep \notin {None, Unavailable, Timeout}
    /\ TooDeep \notin [about : Turns \cup Calls \cup {None},
                      transcript : Seq(Messages)]

VARIABLES
    messages,       \* messages[s]: the transcript of session s
    Pending,        \* Pending[s]: calls appended and without a result
    tpc,            \* tpc[t]: where turn t is
    step,           \* step[t]: the loop counter of runTurn
    last,           \* last[t]: the last message of the snapshot of turn t
    call,           \* call[t]: the tool call turn t routes, with its tool
    calls,          \* calls[t]: how many calls turn t made
    response,       \* response[t]: what the POST returns
    attached, phase, value, abandoned   \* of the bridge

Remote == INSTANCE RemoteCall

session == <<messages, Pending>>
turn == <<tpc, step, last, call, calls, response>>
bridge == <<attached, phase, value, abandoned>>
vars == <<session, turn, bridge>>

Init ==
    /\ Remote!Init
    /\ messages = [s \in Sessions |-> <<>>]
    /\ Pending = [s \in Sessions |-> {}]
    /\ tpc = [t \in Turns |-> "new"]
    /\ step = [t \in Turns |-> 0]
    /\ last = [t \in Turns |-> None]
    /\ call = [t \in Turns |-> None]
    /\ calls = [t \in Turns |-> 0]
    /\ response = [t \in Turns |-> None]

Prompt(t) == [kind |-> "user", turn |-> t]
ToolCall(c, tool) == [kind |-> "call", id |-> c, tool |-> tool]
ToolResult(c, tool, result) ==
    [kind |-> "result", id |-> c, tool |-> tool, result |-> result]
Reply(subject) == [kind |-> "reply", about |-> subject]

Goto(t, place) == tpc' = [tpc EXCEPT ![t] = place]

-----------------------------------------------------------------------------
(* Session: what each method does under the lock.                          *)

AppendMessage(s, message) ==
    messages' = [messages EXCEPT ![s] = Append(@, message)]

\* Mutant of AppendToolCall: the call is registered and not in the transcript.
AppendToolCallSilent(s, c, tool) ==
    /\ Pending' = [Pending EXCEPT ![s] = @ \cup {c}]
    /\ UNCHANGED messages

AppendToolCall(s, c, tool) ==
    /\ AppendMessage(s, ToolCall(c, tool))
    /\ Pending' = [Pending EXCEPT ![s] = @ \cup {c}]

\* Mutant of AppendToolResult: the pending entry stays.
AppendToolResultKeepsPending(s, c, tool, result) ==
    /\ AppendMessage(s, ToolResult(c, tool, result))
    /\ UNCHANGED Pending

AppendToolResult(s, c, tool, result) ==
    /\ AppendMessage(s, ToolResult(c, tool, result))
    /\ Pending' = [Pending EXCEPT ![s] = @ \ {c}]

\* Mutant of LastMessage: off by one.
LastMessageButOne(s) ==
    messages[s][IF Len(messages[s]) = 1 THEN 1 ELSE Len(messages[s]) - 1]

LastMessage(s) == messages[s][Len(messages[s])]

-----------------------------------------------------------------------------
(* MockModel.Generate on the last message of a snapshot.                   *)

PlansTool(message) ==
    message.kind = "user" /\ PromptTool[message.turn] # None

\* What the text is about: a prompt that needs no tool, the result of a
\* call, or nothing ("I am waiting for a user message or tool result").
Subject(message) ==
    CASE message.kind = "user"   -> message.turn
      [] message.kind = "result" -> message.id
      [] OTHER                   -> None

-----------------------------------------------------------------------------
(* The turn.                                                               *)

Open == {t \in Turns : tpc[t] \notin {"new", "done", "failed"}}

HandleUserMessage(t) ==
    /\ tpc[t] = "new"
    /\ Cardinality(Open) < MaxOpen
    /\ AppendMessage(TurnSession[t], Prompt(t))
    /\ Goto(t, "loop")
    /\ UNCHANGED <<Pending, step, last, call, calls, response, bridge>>

Snapshot(t) ==
    /\ tpc[t] = "loop"
    /\ step[t] < MaxSteps
    /\ last' = [last EXCEPT ![t] = LastMessage(TurnSession[t])]
    /\ Goto(t, "decide")
    /\ UNCHANGED <<session, step, call, calls, response, bridge>>

\* Mutant of DepthExceeded: one step early.
DepthExceededEarly(t) ==
    /\ tpc[t] = "loop"
    /\ step[t] >= MaxSteps - 1
    /\ response' = [response EXCEPT ![t] = TooDeep]
    /\ Goto(t, "failed")
    /\ UNCHANGED <<session, step, last, call, calls, bridge>>

DepthExceeded(t) ==
    /\ tpc[t] = "loop"
    /\ step[t] >= MaxSteps
    /\ response' = [response EXCEPT ![t] = TooDeep]
    /\ Goto(t, "failed")
    /\ UNCHANGED <<session, step, last, call, calls, bridge>>

AppendReply(t) ==
    /\ tpc[t] = "decide"
    /\ ~PlansTool(last[t])
    /\ AppendMessage(TurnSession[t], Reply(Subject(last[t])))
    /\ Goto(t, "reply")
    /\ UNCHANGED <<Pending, step, last, call, calls, response, bridge>>

\* The response pairs the reply with a new snapshot of the session.
Respond(t) ==
    /\ tpc[t] = "reply"
    /\ response' = [response EXCEPT ![t] =
                      [about |-> Subject(last[t]),
                       transcript |-> messages[TurnSession[t]]]]
    /\ Goto(t, "done")
    /\ UNCHANGED <<session, step, last, call, calls, bridge>>

PlanCall(t) ==
    LET tool == PromptTool[last[t].turn]
        c == <<t, calls[t] + 1>>
    IN
    /\ tpc[t] = "decide"
    /\ PlansTool(last[t])
    /\ AppendToolCall(TurnSession[t], c, tool)
    /\ call' = [call EXCEPT ![t] = [id |-> c, tool |-> tool]]
    /\ calls' = [calls EXCEPT ![t] = @ + 1]
    /\ Goto(t, "route")
    /\ UNCHANGED <<step, last, response, bridge>>

\* The result is appended and the loop goes on.
Continue(t, result) ==
    /\ AppendToolResult(TurnSession[t], call[t].id, call[t].tool, result)
    /\ step' = [step EXCEPT ![t] = @ + 1]
    /\ Goto(t, "loop")
    /\ UNCHANGED <<last, call, calls, response>>

\* RouteTool runs a server tool in place.
RouteServer(t) ==
    /\ tpc[t] = "route"
    /\ call[t].tool \in ServerTools
    /\ Continue(t, [id |-> call[t].id, output |-> ServerOutput])
    /\ UNCHANGED bridge

\* RouteTool enters ClientBridge.Call.
RouteClient(t) ==
    /\ tpc[t] = "route"
    /\ call[t].tool \in ClientTools
    /\ Remote!Request(call[t].id) \/ Remote!Refuse(call[t].id)
    /\ Goto(t, "await")
    /\ UNCHANGED <<session, step, last, call, calls, response>>

\* Mutant of CallSucceeds: the error of the call is ignored.
CallSucceedsAlways(t) ==
    /\ tpc[t] = "await"
    /\ phase[call[t].id] = "returned"
    /\ Continue(t, value[call[t].id])
    /\ UNCHANGED bridge

CallSucceeds(t) ==
    /\ tpc[t] = "await"
    /\ phase[call[t].id] = "returned"
    /\ value[call[t].id] \notin {Unavailable, Timeout}
    /\ Continue(t, value[call[t].id])
    /\ UNCHANGED bridge

\* Mutant of CallFails: a timeout is no error.
CallFailsUnavailableOnly(t) ==
    /\ tpc[t] = "await"
    /\ phase[call[t].id] = "returned"
    /\ value[call[t].id] = Unavailable
    /\ response' = [response EXCEPT ![t] = Unavailable]
    /\ Goto(t, "failed")
    /\ UNCHANGED <<session, step, last, call, calls, bridge>>

\* Call returned an error: so does the turn, and nothing is appended.
CallFails(t) ==
    /\ tpc[t] = "await"
    /\ phase[call[t].id] = "returned"
    /\ value[call[t].id] \in {Unavailable, Timeout}
    /\ response' = [response EXCEPT ![t] = value[call[t].id]]
    /\ Goto(t, "failed")
    /\ UNCHANGED <<session, step, last, call, calls, bridge>>

\* The client of the POST goes away, and with it the context of the turn.
GiveUp(t) ==
    LET mine == {c \in Calls : c[1] = t} IN
    /\ t \in Open
    /\ ~(mine \subseteq abandoned)
    /\ Remote!Abandon(mine)
    /\ UNCHANGED <<session, turn>>

-----------------------------------------------------------------------------
(* The bridge, on behalf of browsers and connections.                      *)

BridgeStep ==
    /\ \/ \E s \in Sessions : ~attached[s] /\ Remote!Attach(s)
       \/ \E s \in Sessions : attached[s] /\ Remote!Detach(s)
       \/ \E c \in Calls :
             \/ \E answer \in Remote!Answers : Remote!Answer(c, answer)
             \/ Remote!ReturnAnswer(c)
             \/ Remote!ReturnRevoked(c)
             \/ Remote!ReturnAbandoned(c)
    /\ UNCHANGED <<session, turn>>

TurnStep(t) ==
    \/ Snapshot(t)
    \/ DepthExceeded(t)
    \/ AppendReply(t)
    \/ Respond(t)
    \/ PlanCall(t)
    \/ RouteServer(t)
    \/ RouteClient(t)
    \/ CallSucceeds(t)
    \/ CallFails(t)

Next ==
    \/ \E t \in Turns : HandleUserMessage(t) \/ TurnStep(t) \/ GiveUp(t)
    \/ BridgeStep

Spec == Init /\ [][Next]_vars

\* Turns run, and what the bridge has decided it returns.
Fairness ==
    /\ \A t \in Turns : WF_vars(TurnStep(t))
    /\ \A c \in Calls :
          /\ WF_vars(Remote!ReturnAnswer(c) /\ UNCHANGED <<session, turn>>)
          /\ WF_vars(Remote!ReturnRevoked(c) /\ UNCHANGED <<session, turn>>)
          /\ WF_vars(Remote!ReturnAbandoned(c) /\ UNCHANGED <<session, turn>>)

FairSpec == Spec /\ Fairness

-----------------------------------------------------------------------------
(* Correctness.                                                            *)

Transcript(s) == {messages[s][i] : i \in DOMAIN messages[s]}

\* Type invariant.
TypeOK ==
    /\ \A s \in Sessions : Transcript(s) \subseteq Messages
    /\ Pending \in [Sessions -> SUBSET Calls]
    /\ tpc \in [Turns -> {"new", "loop", "decide", "reply", "route", "await",
                          "done", "failed"}]
    /\ step \in [Turns -> 0 .. MaxSteps]
    /\ last \in [Turns -> Messages \cup {None}]
    /\ calls \in [Turns -> 0 .. MaxSteps]

\* The pending map and the transcript of a session agree, however its turns
\* interleave: a call is pending exactly while it stands in the transcript
\* without a result.
PendingMatchesTranscript ==
    \A s \in Sessions : Pending[s] =
        {c \in Calls :
            /\ \E m \in Transcript(s) : m.kind = "call" /\ m.id = c
            /\ ~\E m \in Transcript(s) : m.kind = "result" /\ m.id = c}

\* A result stands in the transcript of the session that asked for it, after
\* its call, once, for the same tool and with the identifier of the call.
ResultFollowsItsCall ==
    \A s \in Sessions : \A i \in DOMAIN messages[s] :
        messages[s][i].kind = "result" =>
            LET m == messages[s][i] IN
            /\ CallSession[m.id] = s
            /\ m.result.id = m.id
            /\ \E j \in 1 .. i - 1 : messages[s][j] = ToolCall(m.id, m.tool)
            /\ \A j \in DOMAIN messages[s] \ {i} :
                  messages[s][j].kind = "result" => messages[s][j].id # m.id

\* Turn t posts its prompt, calls a tool or is given a result with message m.
Mine(t, m) ==
    \/ m.kind = "user" /\ m.turn = t
    \/ m.kind \in {"call", "result"} /\ m.id[1] = t

\* Where transcript s has messages of turn t.
OwnTo(s, t) == {i \in DOMAIN messages[s] : Mine(t, messages[s][i])}

\* A turn calls one tool for its own prompt at most, and one more only for a
\* prompt that another turn posted after it: a turn that exceeds the depth of
\* 8 has eight such calls, so at least seven other prompts behind its own.
DepthSuffices ==
    \A t \in Turns : response[t] = TooDeep =>
        LET transcript == messages[TurnSession[t]] IN
        \E i \in DOMAIN transcript :
            /\ transcript[i] = Prompt(t)
            /\ Cardinality({j \in i + 1 .. Len(transcript) :
                   transcript[j].kind = "user"}) >= MaxSteps - 1

\* A turn answers the prompt it was posted with, about the tool call that it
\* made itself or about the prompt, unless another turn wrote to the session
\* between the prompt and the reply.  Turns that failed before count for
\* nothing: what they left in the transcript is not taken up again.
UndisturbedAnswersOwn ==
    \A t \in Turns : tpc[t] = "done" =>
        LET transcript == response[t].transcript
            posted ==
                CHOOSE i \in DOMAIN transcript : transcript[i] = Prompt(t)
        IN
        posted .. Len(transcript) - 1 \subseteq OwnTo(TurnSession[t], t) =>
            \/ response[t].about = t
            \/ /\ response[t].about \in Calls
               /\ response[t].about[1] = t
               /\ ToolCall(response[t].about, PromptTool[t])
                     \in Transcript(TurnSession[t])

\* Every turn ends, provided no call stays open for ever.
TurnsEnd ==
    (\A c \in Calls : []<>(phase[c] # "open"))
        => \A t \in Turns : t \in Open ~> t \notin Open
=============================================================================
