-------------------------- MODULE ChatServiceProofs --------------------------
(***************************************************************************)
(* Proofs about ChatService for any number of sessions and turns, posted   *)
(* to any sessions, with any prompts and any bound of the turn loop.       *)
(***************************************************************************)
EXTENDS ChatService, TLAPS

Tools == ServerTools \cup ClientTools
Outcomes == Remote!Answers \cup {Unavailable, Timeout}

\* Types, with those of what the turn and the contract keep.
ChatTypes ==
    /\ messages \in [Sessions -> Seq(Messages)]
    /\ Pending \in [Sessions -> SUBSET Calls]
    /\ tpc \in [Turns -> {"new", "loop", "decide", "reply", "route", "await",
                          "done", "failed"}]
    /\ step \in [Turns -> 0 .. MaxSteps]
    /\ last \in [Turns -> Messages \cup {None}]
    /\ call \in [Turns -> [id : Calls, tool : Tools] \cup {None}]
    /\ calls \in [Turns -> 0 .. MaxSteps]
    /\ phase \in [Calls -> Remote!Phases]
    /\ value \in [Calls -> Outcomes \cup {None}]

\* The contract: what a call is answered with is its own.
AnswersMatch ==
    \A c \in Calls :
        /\ phase[c] \in {"answered", "returned"} => value[c] \in Outcomes
        /\ value[c] \in Remote!Answers => value[c].id = c

\* A turn between two results has made as many calls as it took steps; one
\* that routes a call has made one more, and holds it.
Control ==
    \A t \in Turns :
        /\ tpc[t] \in {"new", "loop", "decide", "reply", "done"}
              => calls[t] = step[t]
        /\ tpc[t] \in {"route", "await"} =>
              /\ calls[t] = step[t] + 1
              /\ call[t] \in [id : Calls, tool : Tools]
              /\ call[t].id = <<t, calls[t]>>
        /\ tpc[t] \in {"decide", "reply"} => last[t] \in Messages
        /\ tpc[t] = "decide" => step[t] < MaxSteps
        /\ calls[t] \in {step[t], step[t] + 1}
        /\ tpc[t] # "new" => Len(messages[TurnSession[t]]) > 0

\* The calls that stand in transcript s are those its turns have made, the
\* results those they took a step with; what is between is pending.
CallsLogged(s) ==
    \A c \in Calls :
        (\E m \in Transcript(s) : m.kind = "call" /\ m.id = c)
            <=> CallSession[c] = s /\ c[2] <= calls[c[1]]

ResultsLogged(s) ==
    \A c \in Calls :
        (\E m \in Transcript(s) : m.kind = "result" /\ m.id = c)
            <=> CallSession[c] = s /\ c[2] <= step[c[1]]

PendingIsBetween(s) ==
    Pending[s] = {c \in Calls : /\ CallSession[c] = s
                                /\ c[2] <= calls[c[1]]
                                /\ ~(c[2] <= step[c[1]])}

\* The call a turn holds stands in its transcript.
HeldLogged ==
    \A t \in Turns : tpc[t] \in {"route", "await"} =>
        ToolCall(call[t].id, call[t].tool) \in Transcript(TurnSession[t])

\* The inductive invariant of the turns.
ChatInv ==
    /\ ChatTypes
    /\ AnswersMatch
    /\ Control
    /\ \A s \in Sessions :
          CallsLogged(s) /\ ResultsLogged(s) /\ PendingIsBetween(s)
    /\ HeldLogged
    /\ ResultFollowsItsCall

-----------------------------------------------------------------------------
(* Facts about messages and transcripts.                                   *)

\* The fields of a message are those of its kind.
LEMMA MessageFields ==
    ASSUME NEW m \in Messages
    PROVE  /\ m.kind \in {"user", "call", "result", "reply"}
           /\ m.kind = "user" => m.turn \in Turns
           /\ m.kind \in {"call", "result"} => m.id \in Calls /\ m.tool \in Tools
           /\ m.kind = "result" => m.result.id \in Calls
  BY DEF Messages, Tools

\* Every message the session writes is one.
LEMMA MessageTypes ==
    /\ \A t \in Turns : Prompt(t) \in Messages
    /\ \A c \in Calls, tool \in Tools : ToolCall(c, tool) \in Messages
    /\ \A c \in Calls, tool \in Tools :
          \A result \in [id : Calls, output : Outputs \cup {ServerOutput}] :
              ToolResult(c, tool, result) \in Messages
    /\ \A about \in Turns \cup Calls \cup {None} : Reply(about) \in Messages
  BY DEF Messages, Prompt, ToolCall, ToolResult, Reply, Tools

\* Appending a message adds it at the end and leaves the rest alone.
LEMMA Appended ==
    ASSUME messages \in [Sessions -> Seq(Messages)],
           NEW s \in Sessions, NEW m \in Messages, AppendMessage(s, m)
    PROVE  /\ messages' \in [Sessions -> Seq(Messages)]
           /\ \A r \in Sessions \ {s} : messages'[r] = messages[r]
           /\ Len(messages'[s]) = Len(messages[s]) + 1
           /\ DOMAIN messages'[s] = 1 .. Len(messages[s]) + 1
           /\ DOMAIN messages[s] = 1 .. Len(messages[s])
           /\ \A i \in 1 .. Len(messages[s]) : messages'[s][i] = messages[s][i]
           /\ messages'[s][Len(messages[s]) + 1] = m
           /\ Len(messages[s]) \in Nat
<1>1. messages[s] \in Seq(Messages)
  OBVIOUS
<1>2. messages' = [messages EXCEPT ![s] = Append(messages[s], m)]
  BY DEF AppendMessage
<1>3. messages'[s] = Append(messages[s], m)
  BY <1>2
<1>4. Append(messages[s], m) \in Seq(Messages)
  BY <1>1
<1> QED
  BY <1>1, <1>2, <1>3, <1>4

\* ... no transcript is empty that was not, nor is the one appended to.
LEMMA NoneEmptied ==
    ASSUME messages \in [Sessions -> Seq(Messages)],
           NEW s \in Sessions, NEW m \in Messages, AppendMessage(s, m)
    PROVE  /\ messages' \in [Sessions -> Seq(Messages)]
           /\ Len(messages'[s]) > 0
           /\ \A r \in Sessions : Len(messages[r]) > 0 => Len(messages'[r]) > 0
<1>1. /\ messages' \in [Sessions -> Seq(Messages)]
      /\ \A r \in Sessions \ {s} : messages'[r] = messages[r]
      /\ Len(messages'[s]) = Len(messages[s]) + 1
      /\ Len(messages[s]) \in Nat
  BY Appended
<1>2. Len(messages'[s]) > 0
  BY <1>1
<1> QED
  BY <1>1, <1>2

\* ... and the transcript has one message more.
LEMMA TranscriptGrows ==
    ASSUME messages \in [Sessions -> Seq(Messages)],
           NEW s \in Sessions, NEW m \in Messages, AppendMessage(s, m)
    PROVE  /\ Transcript(s)' = Transcript(s) \cup {m}
           /\ \A r \in Sessions \ {s} : Transcript(r)' = Transcript(r)
<1> DEFINE n == Len(messages[s])
<1>1. /\ DOMAIN messages[s] = 1 .. n
      /\ DOMAIN messages'[s] = 1 .. n + 1
      /\ n \in Nat
      /\ messages'[s][n + 1] = m
      /\ \A i \in 1 .. n : messages'[s][i] = messages[s][i]
      /\ \A r \in Sessions \ {s} : messages'[r] = messages[r]
  BY Appended
<1> HIDE DEF n
<1>2. \A i \in 1 .. n + 1 : i \in 1 .. n \/ i = n + 1
  BY <1>1
<1>3. \A i \in 1 .. n : i \in 1 .. n + 1
  BY <1>1
<1>4. n + 1 \in 1 .. n + 1
  BY <1>1
<1>5. Transcript(s) = {messages[s][i] : i \in 1 .. n}
  BY <1>1 DEF Transcript
<1>6. Transcript(s)' = {messages'[s][i] : i \in 1 .. n + 1}
  BY <1>1 DEF Transcript
<1>7. {messages'[s][i] : i \in 1 .. n + 1}
         = {messages[s][i] : i \in 1 .. n} \cup {m}
  BY <1>1, <1>2, <1>3, <1>4, Zenon
<1>8. \A r \in Sessions \ {s} : Transcript(r)' = Transcript(r)
  BY <1>1 DEF Transcript
<1> QED
  BY <1>5, <1>6, <1>7, <1>8

\* Appending keeps the order of calls and results, if what is appended is the
\* first result of a call that stands in the transcript, or no result.
LEMMA OrderKept ==
    ASSUME messages \in [Sessions -> Seq(Messages)], ResultFollowsItsCall,
           NEW s \in Sessions, NEW m \in Messages, AppendMessage(s, m),
           m.kind = "result" =>
              /\ CallSession[m.id] = s
              /\ m.result.id = m.id
              /\ ToolCall(m.id, m.tool) \in Transcript(s)
              /\ \A r \in Transcript(s) : r.kind = "result" => r.id # m.id
    PROVE  ResultFollowsItsCall'
<1> DEFINE n == Len(messages[s])
<1>1. /\ DOMAIN messages[s] = 1 .. n
      /\ DOMAIN messages'[s] = 1 .. n + 1
      /\ n \in Nat
      /\ messages'[s][n + 1] = m
      /\ \A i \in 1 .. n : messages'[s][i] = messages[s][i]
      /\ \A r \in Sessions \ {s} : messages'[r] = messages[r]
  BY Appended
<1> HIDE DEF n
<1> SUFFICES ASSUME NEW r \in Sessions, NEW i \in DOMAIN messages'[r],
                    messages'[r][i].kind = "result"
             PROVE  LET e == messages'[r][i] IN
                    /\ CallSession[e.id] = r
                    /\ e.result.id = e.id
                    /\ \E j \in 1 .. i - 1 :
                          messages'[r][j] = ToolCall(e.id, e.tool)
                    /\ \A j \in DOMAIN messages'[r] \ {i} :
                          messages'[r][j].kind = "result"
                             => messages'[r][j].id # e.id
  BY DEF ResultFollowsItsCall, ToolCall, CallSession, Calls
<1>2. CASE r # s
  <2>1. messages'[r] = messages[r]
    BY <1>1, <1>2
  <2> QED
    BY <2>1 DEF ResultFollowsItsCall
<1>3. CASE r = s /\ i # n + 1
  <2>1. i \in 1 .. n
    BY <1>1, <1>3
  <2> DEFINE e == messages[s][i]
  <2>2. e.kind = "result" /\ messages'[r][i] = e /\ e \in Transcript(s)
    BY <1>1, <1>3, <2>1 DEF Transcript
  <2>3. /\ CallSession[e.id] = s
        /\ e.result.id = e.id
        /\ \E j \in 1 .. i - 1 : messages[s][j] = ToolCall(e.id, e.tool)
        /\ \A j \in 1 .. n : j # i /\ messages[s][j].kind = "result"
              => messages[s][j].id # e.id
    BY <1>1, <2>1, <2>2 DEF ResultFollowsItsCall
  <2>4. \E j \in 1 .. i - 1 : messages'[s][j] = ToolCall(e.id, e.tool)
    <3>1. \A j \in 1 .. i - 1 : messages'[s][j] = messages[s][j]
      BY <1>1, <2>1
    <3> QED
      BY <2>3, <3>1
  <2>5. m.kind = "result" => m.id # e.id
    BY <2>2
  <2>6. \A j \in 1 .. n + 1 : j # i /\ messages'[s][j].kind = "result"
           => messages'[s][j].id # e.id
    BY <1>1, <2>3, <2>5
  <2> QED
    BY <1>1, <1>3, <2>2, <2>3, <2>4, <2>6
<1>4. CASE r = s /\ i = n + 1
  <2>1. messages'[r][i] = m /\ m.kind = "result"
    BY <1>1, <1>4
  <2>2. PICK j \in 1 .. n : messages[s][j] = ToolCall(m.id, m.tool)
    BY <1>1, <2>1 DEF Transcript
  <2>3. \E k \in 1 .. i - 1 : messages'[s][k] = ToolCall(m.id, m.tool)
    BY <1>1, <1>4, <2>2
  <2>4. \A k \in 1 .. n : messages[s][k] \in Transcript(s)
    BY <1>1 DEF Transcript
  <2>5. \A k \in 1 .. n + 1 : k # i /\ messages'[s][k].kind = "result"
           => messages'[s][k].id # m.id
    BY <1>1, <1>4, <2>1, <2>4
  <2> QED
    BY <1>1, <1>4, <2>1, <2>3, <2>5
<1> QED
  BY <1>2, <1>3, <1>4

-----------------------------------------------------------------------------
(* The contract behind the turns.                                          *)

\* Every step of the turns uses the bridge as its contract allows.
LEMMA RemoteStep ==
    ASSUME ChatTypes, Control, [Next]_vars
    PROVE  [Remote!Next]_(Remote!vars)
<1> USE DEF Remote!vars
<1>1. ASSUME NEW t \in Turns, RouteClient(t) PROVE Remote!Next
  <2>1. call[t].id \in Calls
    BY <1>1 DEF RouteClient, ChatTypes, Control
  <2> QED
    BY <1>1, <2>1 DEF RouteClient, Remote!Next
<1>2. ASSUME NEW t \in Turns, GiveUp(t) PROVE Remote!Next
  BY <1>2 DEF GiveUp, Remote!Next
<1>3. CASE BridgeStep
  BY <1>3 DEF BridgeStep, Remote!Next
<1>4. CASE UNCHANGED bridge
  BY <1>4 DEF bridge
<1> QED
  BY <1>1, <1>2, <1>3, <1>4
  DEF Next, TurnStep, HandleUserMessage, Snapshot, DepthExceeded, AppendReply,
      Respond, PlanCall, RouteServer, CallSucceeds, CallFails, vars

\* No step of the contract answers a call with the answer of another.
LEMMA AnswerStep ==
    ASSUME ChatTypes, AnswersMatch, [Remote!Next]_(Remote!vars)
    PROVE  /\ AnswersMatch'
           /\ phase' \in [Calls -> Remote!Phases]
           /\ value' \in [Calls -> Outcomes \cup {None}]
<1> USE ChatAssumption
    DEF ChatTypes, AnswersMatch, Outcomes, Remote!Phases, Remote!Answers
<1>1. ASSUME NEW s \in Sessions, Remote!Attach(s) \/ Remote!Detach(s)
      PROVE  /\ AnswersMatch'
             /\ phase' \in [Calls -> Remote!Phases]
             /\ value' \in [Calls -> Outcomes \cup {None}]
  BY <1>1 DEF Remote!Attach, Remote!Detach
<1>2. ASSUME NEW c \in Calls, NEW outcome \in Outcomes,
             outcome \in Remote!Answers => outcome.id = c,
             Remote!Return(c, outcome)
      PROVE  /\ AnswersMatch'
             /\ phase' \in [Calls -> Remote!Phases]
             /\ value' \in [Calls -> Outcomes \cup {None}]
  <2>1. /\ value' = [value EXCEPT ![c] = outcome]
        /\ phase' = [phase EXCEPT ![c] = "returned"]
    BY <1>2 DEF Remote!Return
  <2>2. \A d \in Calls : d # c => value'[d] = value[d] /\ phase'[d] = phase[d]
    BY <2>1
  <2>3. value'[c] = outcome
    BY <2>1
  <2> QED
    BY <1>2, <2>1, <2>2, <2>3
<1>3. ASSUME NEW c \in Calls, Remote!Request(c)
      PROVE  /\ AnswersMatch'
             /\ phase' \in [Calls -> Remote!Phases]
             /\ value' \in [Calls -> Outcomes \cup {None}]
  BY <1>3 DEF Remote!Request
<1>4. ASSUME NEW c \in Calls, NEW answer \in Remote!Answers,
             Remote!Answer(c, answer)
      PROVE  /\ AnswersMatch'
             /\ phase' \in [Calls -> Remote!Phases]
             /\ value' \in [Calls -> Outcomes \cup {None}]
  BY <1>4 DEF Remote!Answer
<1>5. CASE UNCHANGED <<phase, value>>
  BY <1>5
<1>6. /\ Unavailable \in Outcomes /\ Unavailable \notin Remote!Answers
      /\ Timeout \in Outcomes /\ Timeout \notin Remote!Answers
  OBVIOUS
<1>7. ASSUME NEW c \in Calls, Remote!Refuse(c) \/ Remote!ReturnRevoked(c)
      PROVE  Remote!Return(c, Unavailable)
  BY <1>7 DEF Remote!Refuse, Remote!ReturnRevoked
<1>8. ASSUME NEW c \in Calls, Remote!ReturnAbandoned(c)
      PROVE  Remote!Return(c, Timeout)
  BY <1>8 DEF Remote!ReturnAbandoned
<1>9. ASSUME NEW c \in Calls, Remote!ReturnAnswer(c)
      PROVE  /\ Remote!Return(c, value[c])
             /\ value[c] \in Outcomes
             /\ value[c] \in Remote!Answers => value[c].id = c
  BY <1>9 DEF Remote!ReturnAnswer
<1> HIDE DEF AnswersMatch, Outcomes, Remote!Phases, Remote!Answers
<1> QED
  BY <1>1, <1>2, <1>3, <1>4, <1>5, <1>6, <1>7, <1>8, <1>9
  DEF Remote!Next, Remote!Abandon, Remote!vars

-----------------------------------------------------------------------------
(* The turns.                                                              *)

\* The last message of a transcript that is not empty is a message.
LEMMA LastTyped ==
    ASSUME messages \in [Sessions -> Seq(Messages)], NEW s \in Sessions,
           Len(messages[s]) > 0
    PROVE  LastMessage(s) \in Messages
<1>1. messages[s] \in Seq(Messages)
  OBVIOUS
<1> QED
  BY <1>1 DEF LastMessage

\* What a reply is about is a turn, a call or nothing.
LEMMA SubjectTyped ==
    ASSUME NEW m \in Messages
    PROVE  Reply(Subject(m)) \in Messages
<1>1. Subject(m) \in Turns \cup Calls \cup {None}
  BY MessageFields DEF Subject
<1> QED
  BY <1>1, MessageTypes

\* A call that is planned is one of a tool, under the next identifier.
LEMMA PlanTyped ==
    ASSUME ChatTypes, Control, NEW t \in Turns, PlanCall(t)
    PROVE  /\ PromptTool[last[t].turn] \in Tools
           /\ <<t, calls[t] + 1>> \in Calls
           /\ calls[t] + 1 \in 0 .. MaxSteps
           /\ TurnSession[t] \in Sessions
<1> USE ChatAssumption DEF ChatTypes, Control
<1>1. last[t] \in Messages /\ last[t].kind = "user"
  BY DEF PlanCall, PlansTool
<1>2. PromptTool[last[t].turn] \in Tools
  <2>1. last[t].turn \in Turns
    BY <1>1, MessageFields
  <2> QED
    BY <2>1 DEF PlanCall, PlansTool, Tools
<1>3. calls[t] + 1 \in 1 .. MaxSteps
  BY DEF PlanCall
<1> QED
  BY <1>2, <1>3 DEF Calls

\* A result that is appended is one of the call the turn holds.
LEMMA ContinueTyped ==
    ASSUME ChatTypes, AnswersMatch, Control, NEW t \in Turns,
           RouteServer(t) \/ CallSucceeds(t)
    PROVE  \E result \in [id : Calls, output : Outputs \cup {ServerOutput}] :
              /\ Continue(t, result)
              /\ result.id = call[t].id
              /\ call[t].id = <<t, calls[t]>>
              /\ call[t].id \in Calls
              /\ call[t].tool \in Tools
              /\ calls[t] = step[t] + 1
              /\ tpc[t] \in {"route", "await"}
<1> USE DEF ChatTypes, Control
<1>1. /\ tpc[t] \in {"route", "await"}
      /\ call[t] \in [id : Calls, tool : Tools]
      /\ call[t].id = <<t, calls[t]>> /\ calls[t] = step[t] + 1
  BY DEF RouteServer, CallSucceeds
<1>2. call[t].id \in Calls /\ call[t].tool \in Tools
  BY <1>1
<1>3. CASE RouteServer(t)
  BY <1>1, <1>2, <1>3 DEF RouteServer
<1>4. CASE CallSucceeds(t)
  <2>1. value[call[t].id] \in Remote!Answers
    BY <1>2, <1>4 DEF CallSucceeds, AnswersMatch, Outcomes
  <2>2. /\ value[call[t].id] \in [id : Calls, output : Outputs \cup {ServerOutput}]
        /\ value[call[t].id].id = call[t].id
    BY <1>2, <2>1 DEF AnswersMatch, Remote!Answers
  <2> QED
    BY <1>1, <1>2, <1>4, <2>2 DEF CallSucceeds
<1> QED
  BY <1>3, <1>4

\* Every step keeps the types and the control of the turns.
LEMMA TurnStepTyped ==
    ASSUME ChatTypes, AnswersMatch, Control, [Next]_vars
    PROVE  ChatTypes' /\ AnswersMatch' /\ Control'
<1>1. /\ AnswersMatch'
      /\ phase' \in [Calls -> Remote!Phases]
      /\ value' \in [Calls -> Outcomes \cup {None}]
  BY RemoteStep, AnswerStep
<1> USE ChatAssumption DEF Goto
<1>2. ASSUME NEW t \in Turns, HandleUserMessage(t) PROVE ChatTypes' /\ Control'
  <2>1. Prompt(t) \in Messages /\ TurnSession[t] \in Sessions
    BY MessageTypes
  <2>2. /\ messages' \in [Sessions -> Seq(Messages)]
        /\ \A s \in Sessions : Len(messages[s]) > 0 => Len(messages'[s]) > 0
        /\ Len(messages'[TurnSession[t]]) > 0
    <3>1. AppendMessage(TurnSession[t], Prompt(t))
      BY <1>2 DEF HandleUserMessage
    <3> QED
      BY <2>1, <3>1, NoneEmptied DEF ChatTypes
  <2>3. /\ tpc' = [tpc EXCEPT ![t] = "loop"] /\ tpc[t] = "new"
        /\ UNCHANGED <<Pending, step, last, call, calls>>
    BY <1>2 DEF HandleUserMessage
  <2>4. ChatTypes'
    BY <1>1, <2>2, <2>3 DEF ChatTypes
  <2>5. Control'
    BY <2>2, <2>3 DEF ChatTypes, Control
  <2> QED
    BY <2>4, <2>5
<1>3. ASSUME NEW t \in Turns, Snapshot(t) PROVE ChatTypes' /\ Control'
  <2>1. LastMessage(TurnSession[t]) \in Messages
    BY <1>3, LastTyped DEF Snapshot, ChatTypes, Control
  <2>2. /\ tpc' = [tpc EXCEPT ![t] = "decide"] /\ tpc[t] = "loop"
        /\ last' = [last EXCEPT ![t] = LastMessage(TurnSession[t])]
        /\ step[t] < MaxSteps
        /\ UNCHANGED <<messages, Pending, step, call, calls>>
    BY <1>3 DEF Snapshot, session
  <2>3. ChatTypes'
    BY <1>1, <2>1, <2>2 DEF ChatTypes
  <2>4. Control'
    BY <2>1, <2>2 DEF ChatTypes, Control
  <2> QED
    BY <2>3, <2>4
<1>4. ASSUME NEW t \in Turns, DepthExceeded(t) \/ Respond(t) \/ CallFails(t)
      PROVE  ChatTypes' /\ Control'
  <2>1. /\ \/ tpc[t] = "reply" /\ tpc' = [tpc EXCEPT ![t] = "done"]
           \/ tpc' = [tpc EXCEPT ![t] = "failed"] /\ tpc[t] # "new"
        /\ UNCHANGED <<messages, Pending, step, last, call, calls>>
    BY <1>4 DEF DepthExceeded, Respond, CallFails, session
  <2>2. ChatTypes'
    BY <1>1, <2>1 DEF ChatTypes
  <2>3. Control'
    BY <2>1 DEF ChatTypes, Control
  <2> QED
    BY <2>2, <2>3
<1>5. ASSUME NEW t \in Turns, AppendReply(t) PROVE ChatTypes' /\ Control'
  <2>1. Reply(Subject(last[t])) \in Messages /\ TurnSession[t] \in Sessions
    BY <1>5, SubjectTyped DEF AppendReply, Control
  <2>2. /\ messages' \in [Sessions -> Seq(Messages)]
        /\ \A s \in Sessions : Len(messages[s]) > 0 => Len(messages'[s]) > 0
    <3>1. AppendMessage(TurnSession[t], Reply(Subject(last[t])))
      BY <1>5 DEF AppendReply
    <3> QED
      BY <2>1, <3>1, NoneEmptied DEF ChatTypes
  <2>3. /\ tpc' = [tpc EXCEPT ![t] = "reply"] /\ tpc[t] = "decide"
        /\ UNCHANGED <<Pending, step, last, call, calls>>
    BY <1>5 DEF AppendReply
  <2>4. ChatTypes'
    BY <1>1, <2>2, <2>3 DEF ChatTypes
  <2>5. Control'
    BY <2>2, <2>3 DEF ChatTypes, Control
  <2> QED
    BY <2>4, <2>5
<1>6. ASSUME NEW t \in Turns, PlanCall(t) PROVE ChatTypes' /\ Control'
  <2> DEFINE tool == PromptTool[last[t].turn]
             c == <<t, calls[t] + 1>>
  <2>1. /\ tool \in Tools /\ c \in Calls
        /\ calls[t] + 1 \in 0 .. MaxSteps
        /\ TurnSession[t] \in Sessions
    BY <1>6, PlanTyped
  <2>2. ToolCall(c, tool) \in Messages
    BY <2>1, MessageTypes
  <2>3. /\ messages' \in [Sessions -> Seq(Messages)]
        /\ \A s \in Sessions : Len(messages[s]) > 0 => Len(messages'[s]) > 0
    <3>1. AppendMessage(TurnSession[t], ToolCall(c, tool))
      BY <1>6 DEF PlanCall, AppendToolCall
    <3> QED
      BY <2>1, <2>2, <3>1, NoneEmptied DEF ChatTypes
  <2>4. /\ Pending' \in [Sessions -> SUBSET Calls]
        /\ call' = [call EXCEPT ![t] = [id |-> c, tool |-> tool]]
        /\ calls' = [calls EXCEPT ![t] = calls[t] + 1]
        /\ tpc' = [tpc EXCEPT ![t] = "route"] /\ tpc[t] = "decide"
        /\ UNCHANGED <<step, last>>
    BY <1>6, <2>1 DEF PlanCall, AppendToolCall, ChatTypes
  <2> HIDE DEF tool
  <2>5. ChatTypes'
    BY <1>1, <2>1, <2>3, <2>4 DEF ChatTypes
  <2>6. Control'
    BY <2>1, <2>3, <2>4 DEF ChatTypes, Control
  <2> QED
    BY <2>5, <2>6
<1>7. ASSUME NEW t \in Turns, RouteServer(t) \/ CallSucceeds(t)
      PROVE  ChatTypes' /\ Control'
  <2>1. PICK result \in [id : Calls, output : Outputs \cup {ServerOutput}] :
              /\ Continue(t, result)
              /\ call[t].id \in Calls
              /\ call[t].tool \in Tools
              /\ calls[t] = step[t] + 1
              /\ tpc[t] \in {"route", "await"}
    BY <1>7, ContinueTyped
  <2>2. ToolResult(call[t].id, call[t].tool, result) \in Messages
    BY <2>1, MessageTypes
  <2>3. /\ messages' \in [Sessions -> Seq(Messages)]
        /\ \A s \in Sessions : Len(messages[s]) > 0 => Len(messages'[s]) > 0
    <3>1. AppendMessage(TurnSession[t],
                       ToolResult(call[t].id, call[t].tool, result))
      BY <2>1 DEF Continue, AppendToolResult
    <3> QED
      BY <2>2, <3>1, NoneEmptied DEF ChatTypes
  <2>4. /\ Pending' \in [Sessions -> SUBSET Calls]
        /\ step' = [step EXCEPT ![t] = step[t] + 1]
        /\ tpc' = [tpc EXCEPT ![t] = "loop"]
        /\ UNCHANGED <<last, call, calls>>
    BY <2>1 DEF Continue, AppendToolResult, ChatTypes
  <2>5. step[t] + 1 \in 0 .. MaxSteps
    BY <2>1 DEF ChatTypes
  <2>6. ChatTypes'
    BY <1>1, <2>3, <2>4, <2>5 DEF ChatTypes
  <2>7. Control'
    BY <2>1, <2>3, <2>4, <2>5 DEF ChatTypes, Control
  <2> QED
    BY <2>6, <2>7
<1>8. ASSUME NEW t \in Turns, RouteClient(t) PROVE ChatTypes' /\ Control'
  <2>1. /\ tpc' = [tpc EXCEPT ![t] = "await"] /\ tpc[t] = "route"
        /\ UNCHANGED <<messages, Pending, step, last, call, calls>>
    BY <1>8 DEF RouteClient, session
  <2>2. ChatTypes'
    BY <1>1, <2>1 DEF ChatTypes
  <2>3. Control'
    BY <2>1 DEF ChatTypes, Control
  <2> QED
    BY <2>2, <2>3
<1>9. CASE UNCHANGED <<session, turn>>
  BY <1>1, <1>9 DEF session, turn, ChatTypes, Control
<1> QED
  BY <1>1, <1>2, <1>3, <1>4, <1>5, <1>6, <1>7, <1>8, <1>9
  DEF Next, TurnStep, GiveUp, BridgeStep, vars

-----------------------------------------------------------------------------
(* The transcripts.                                                        *)

Logged == \A s \in Sessions :
    CallsLogged(s) /\ ResultsLogged(s) /\ PendingIsBetween(s)

\* A prompt or a reply says nothing about calls.
LEMMA LogPlain ==
    ASSUME ChatInv, NEW s \in Sessions, NEW m \in Messages,
           AppendMessage(s, m), m.kind \notin {"call", "result"},
           UNCHANGED <<Pending, step, calls>>
    PROVE  /\ Logged'
           /\ ResultFollowsItsCall'
           /\ \A r \in Sessions : Transcript(r) \subseteq Transcript(r)'
<1>1. /\ Transcript(s)' = Transcript(s) \cup {m}
      /\ \A r \in Sessions \ {s} : Transcript(r)' = Transcript(r)
  BY TranscriptGrows DEF ChatInv, ChatTypes
<1>2. \A r \in Sessions, e \in {"call", "result"}, c \in Calls :
         (\E l \in Transcript(r)' : l.kind = e /\ l.id = c)
            <=> (\E l \in Transcript(r) : l.kind = e /\ l.id = c)
  BY <1>1
<1>3. Logged'
  BY <1>2 DEF ChatInv, Logged, CallsLogged, ResultsLogged, PendingIsBetween
<1>4. ResultFollowsItsCall'
  BY OrderKept DEF ChatInv, ChatTypes
<1> QED
  BY <1>1, <1>3, <1>4

\* A planned call is the next of its turn: it is logged and pending.
LEMMA LogCall ==
    ASSUME ChatInv, NEW t \in Turns, PlanCall(t)
    PROVE  Logged' /\ ResultFollowsItsCall' /\ HeldLogged'
<1> DEFINE s == TurnSession[t]
           c == <<t, calls[t] + 1>>
           tool == PromptTool[last[t].turn]
           m == ToolCall(c, tool)
<1> USE ChatAssumption
<1>1. /\ tool \in Tools /\ c \in Calls /\ s \in Sessions
      /\ calls[t] \in Nat
  BY PlanTyped DEF ChatInv, ChatTypes
<1>2. m \in Messages /\ m.kind = "call" /\ m.id = c
  BY <1>1, MessageTypes DEF ToolCall
<1>3. /\ AppendMessage(s, m)
      /\ Pending' = [Pending EXCEPT ![s] = Pending[s] \cup {c}]
      /\ call' = [call EXCEPT ![t] = [id |-> c, tool |-> tool]]
      /\ calls' = [calls EXCEPT ![t] = calls[t] + 1]
      /\ tpc' = [tpc EXCEPT ![t] = "route"]
      /\ tpc[t] = "decide"
      /\ step' = step
  BY DEF PlanCall, AppendToolCall, Goto
<1>4. /\ Transcript(s)' = Transcript(s) \cup {m}
      /\ \A r \in Sessions \ {s} : Transcript(r)' = Transcript(r)
  BY <1>1, <1>2, <1>3, TranscriptGrows DEF ChatInv, ChatTypes
<1>5. calls[t] = step[t]
  BY <1>3 DEF ChatInv, Control
<1> HIDE DEF tool, m
<1>6. ASSUME NEW d \in Calls
      PROVE  /\ calls'[d[1]] \in Nat /\ calls[d[1]] \in Nat
             /\ step[d[1]] \in Nat /\ d[2] \in Nat
             /\ d[2] <= calls'[d[1]] <=> d[2] <= calls[d[1]] \/ d = c
             /\ d = c => CallSession[d] = s /\ ~(d[2] <= step[d[1]])
  <2>1. d[1] \in Turns /\ d[2] \in 1 .. MaxSteps /\ d = <<d[1], d[2]>>
    BY DEF Calls
  <2>2. d = c <=> d[1] = t /\ d[2] = calls[t] + 1
    BY <2>1
  <2> QED
    BY <1>1, <1>3, <1>5, <2>1, <2>2 DEF ChatInv, ChatTypes, CallSession
<1>7. ASSUME NEW r \in Sessions PROVE CallsLogged(r)'
  <2> SUFFICES ASSUME NEW d \in Calls
               PROVE  (\E l \in Transcript(r)' : l.kind = "call" /\ l.id = d)
                        <=> CallSession[d] = r /\ d[2] <= calls'[d[1]]
    BY DEF CallsLogged, CallSession
  <2>1. (\E l \in Transcript(r) : l.kind = "call" /\ l.id = d)
           <=> CallSession[d] = r /\ d[2] <= calls[d[1]]
    BY DEF ChatInv, CallsLogged
  <2>2. (\E l \in Transcript(r)' : l.kind = "call" /\ l.id = d)
           <=> \/ \E l \in Transcript(r) : l.kind = "call" /\ l.id = d
               \/ r = s /\ d = c
    BY <1>2, <1>4
  <2> QED
    BY <1>6, <2>1, <2>2
<1>8. ASSUME NEW r \in Sessions PROVE ResultsLogged(r)'
  <2>1. \A d \in Calls :
           (\E l \in Transcript(r)' : l.kind = "result" /\ l.id = d)
              <=> (\E l \in Transcript(r) : l.kind = "result" /\ l.id = d)
    BY <1>2, <1>4
  <2> QED
    BY <1>3, <2>1 DEF ChatInv, ResultsLogged, CallSession
<1>9. ASSUME NEW r \in Sessions PROVE PendingIsBetween(r)'
  <2>1. Pending'[r] = IF r = s THEN Pending[r] \cup {c} ELSE Pending[r]
    BY <1>3 DEF ChatInv, ChatTypes
  <2>2. Pending[r] = {d \in Calls : /\ CallSession[d] = r
                                    /\ d[2] <= calls[d[1]]
                                    /\ ~(d[2] <= step[d[1]])}
    BY DEF ChatInv, PendingIsBetween
  <2>3. Pending'[r] = {d \in Calls : /\ CallSession[d] = r
                                     /\ d[2] <= calls'[d[1]]
                                     /\ ~(d[2] <= step[d[1]])}
    BY <1>1, <1>6, <2>1, <2>2
  <2> QED
    BY <1>3, <2>3 DEF PendingIsBetween, CallSession
<1>10. ResultFollowsItsCall'
  BY <1>1, <1>2, <1>3, OrderKept DEF ChatInv, ChatTypes
<1>11. HeldLogged'
  <2>1. ASSUME NEW u \in Turns, tpc'[u] \in {"route", "await"}
        PROVE  ToolCall(call'[u].id, call'[u].tool) \in Transcript(TurnSession[u])'
    <3>1. CASE u = t
      BY <1>3, <1>4, <3>1 DEF ChatInv, ChatTypes, m
    <3>2. CASE u # t
      <4>1. tpc'[u] = tpc[u] /\ call'[u] = call[u]
        BY <1>3, <3>2 DEF ChatInv, ChatTypes
      <4> QED
        BY <1>4, <2>1, <4>1 DEF ChatInv, HeldLogged
    <3> QED
      BY <3>1, <3>2
  <2> QED
    BY <2>1 DEF HeldLogged, ToolCall
<1> QED
  BY <1>7, <1>8, <1>9, <1>10, <1>11 DEF Logged

\* A result is that of the one call its turn has pending: it is logged once,
\* behind the call, and nothing of the turn is pending any more.
LEMMA LogResult ==
    ASSUME ChatInv, NEW t \in Turns, RouteServer(t) \/ CallSucceeds(t)
    PROVE  Logged' /\ ResultFollowsItsCall' /\ HeldLogged'
<1> DEFINE s == TurnSession[t]
           c == call[t].id
<1> USE ChatAssumption
<1>1. PICK result \in [id : Calls, output : Outputs \cup {ServerOutput}] :
         /\ Continue(t, result)
         /\ result.id = c
         /\ c = <<t, calls[t]>>
         /\ c \in Calls
         /\ call[t].tool \in Tools
         /\ calls[t] = step[t] + 1
         /\ tpc[t] \in {"route", "await"}
  BY ContinueTyped DEF ChatInv
<1> DEFINE m == ToolResult(c, call[t].tool, result)
<1>2. /\ m \in Messages /\ m.kind = "result" /\ m.id = c
      /\ m.result.id = c /\ m.tool = call[t].tool
  BY <1>1, MessageTypes DEF ToolResult
<1>3. /\ AppendMessage(s, m)
      /\ Pending' = [Pending EXCEPT ![s] = Pending[s] \ {c}]
      /\ step' = [step EXCEPT ![t] = step[t] + 1]
      /\ tpc' = [tpc EXCEPT ![t] = "loop"]
      /\ calls' = calls /\ call' = call
      /\ s \in Sessions
  BY <1>1 DEF Continue, AppendToolResult, Goto
<1> HIDE DEF m
<1>4. /\ Transcript(s)' = Transcript(s) \cup {m}
      /\ \A r \in Sessions \ {s} : Transcript(r)' = Transcript(r)
  BY <1>2, <1>3, TranscriptGrows DEF ChatInv, ChatTypes
<1>5. ASSUME NEW d \in Calls
      PROVE  /\ calls[d[1]] \in Nat /\ step'[d[1]] \in Nat
             /\ step[d[1]] \in Nat /\ d[2] \in Nat
             /\ d[2] <= step'[d[1]] <=> d[2] <= step[d[1]] \/ d = c
             /\ d = c => /\ CallSession[d] = s
                         /\ ~(d[2] <= step[d[1]]) /\ d[2] <= calls[d[1]]
  <2>1. d[1] \in Turns /\ d[2] \in 1 .. MaxSteps /\ d = <<d[1], d[2]>>
    BY DEF Calls
  <2>2. d = c <=> d[1] = t /\ d[2] = calls[t]
    BY <1>1, <2>1
  <2> QED
    BY <1>1, <1>3, <2>1, <2>2 DEF ChatInv, ChatTypes, CallSession
<1>6. ASSUME NEW r \in Sessions PROVE CallsLogged(r)'
  <2>1. \A d \in Calls :
           (\E l \in Transcript(r)' : l.kind = "call" /\ l.id = d)
              <=> (\E l \in Transcript(r) : l.kind = "call" /\ l.id = d)
    BY <1>2, <1>4
  <2> QED
    BY <1>3, <2>1 DEF ChatInv, CallsLogged, CallSession
<1>7. ASSUME NEW r \in Sessions PROVE ResultsLogged(r)'
  <2> SUFFICES ASSUME NEW d \in Calls
               PROVE  (\E l \in Transcript(r)' : l.kind = "result" /\ l.id = d)
                        <=> CallSession[d] = r /\ d[2] <= step'[d[1]]
    BY DEF ResultsLogged, CallSession
  <2>1. (\E l \in Transcript(r) : l.kind = "result" /\ l.id = d)
           <=> CallSession[d] = r /\ d[2] <= step[d[1]]
    BY DEF ChatInv, ResultsLogged
  <2>2. (\E l \in Transcript(r)' : l.kind = "result" /\ l.id = d)
           <=> \/ \E l \in Transcript(r) : l.kind = "result" /\ l.id = d
               \/ r = s /\ d = c
    BY <1>2, <1>4
  <2> QED
    BY <1>5, <2>1, <2>2
<1>8. ASSUME NEW r \in Sessions PROVE PendingIsBetween(r)'
  <2>1. Pending'[r] = IF r = s THEN Pending[r] \ {c} ELSE Pending[r]
    BY <1>3 DEF ChatInv, ChatTypes
  <2>2. Pending[r] = {d \in Calls : /\ CallSession[d] = r
                                    /\ d[2] <= calls[d[1]]
                                    /\ ~(d[2] <= step[d[1]])}
    BY DEF ChatInv, PendingIsBetween
  <2>3. Pending'[r] = {d \in Calls : /\ CallSession[d] = r
                                     /\ d[2] <= calls[d[1]]
                                     /\ ~(d[2] <= step'[d[1]])}
    BY <1>1, <1>5, <2>1, <2>2
  <2> QED
    BY <1>3, <2>3 DEF PendingIsBetween, CallSession
<1>9. ResultFollowsItsCall'
  <2>1. CallSession[c] = s /\ ~(c[2] <= step[c[1]])
    BY <1>1, <1>5
  <2>2. \A l \in Transcript(s) : l.kind = "result" => l.id # c
    BY <1>1, <1>3, <2>1 DEF ChatInv, ResultsLogged
  <2>3. ToolCall(c, call[t].tool) \in Transcript(s)
    BY <1>1 DEF ChatInv, HeldLogged
  <2> QED
    BY <1>2, <1>3, <2>1, <2>2, <2>3, OrderKept DEF ChatInv, ChatTypes
<1>10. HeldLogged'
  <2>1. ASSUME NEW u \in Turns, tpc'[u] \in {"route", "await"}
        PROVE  ToolCall(call[u].id, call[u].tool) \in Transcript(TurnSession[u])'
    <3>1. tpc'[u] = tpc[u]
      BY <1>3, <2>1 DEF ChatInv, ChatTypes
    <3> QED
      BY <1>4, <2>1, <3>1 DEF ChatInv, HeldLogged
  <2> QED
    BY <1>3, <2>1 DEF HeldLogged, ToolCall
<1> QED
  BY <1>6, <1>7, <1>8, <1>9, <1>10 DEF Logged

\* The other steps of a turn write no call and no result.
LEMMA LogOther ==
    ASSUME ChatInv, UNCHANGED session, UNCHANGED <<step, call, calls>>,
           \A t \in Turns : tpc'[t] \in {"route", "await"}
              => tpc[t] \in {"route", "await"}
    PROVE  Logged' /\ ResultFollowsItsCall' /\ HeldLogged'
<1>1. messages' = messages /\ Pending' = Pending
      /\ \A s \in Sessions : Transcript(s)' = Transcript(s)
  BY DEF session, Transcript
<1>2. Logged'
  BY <1>1 DEF ChatInv, Logged, CallsLogged, ResultsLogged, PendingIsBetween,
              CallSession
<1>3. ResultFollowsItsCall'
  BY <1>1 DEF ChatInv, ResultFollowsItsCall, ToolCall, CallSession
<1>4. HeldLogged'
  BY <1>1, ChatAssumption DEF ChatInv, HeldLogged, ToolCall
<1> QED
  BY <1>2, <1>3, <1>4

\* No step breaks the invariant.
LEMMA ChatStep == ChatInv /\ [Next]_vars => ChatInv'
<1> SUFFICES ASSUME ChatInv, [Next]_vars PROVE ChatInv'
  OBVIOUS
<1>1. ChatTypes' /\ AnswersMatch' /\ Control'
  BY TurnStepTyped DEF ChatInv
<1> SUFFICES Logged' /\ ResultFollowsItsCall' /\ HeldLogged'
  BY <1>1 DEF ChatInv, Logged
<1> USE ChatAssumption DEF Goto
<1>2. ASSUME NEW t \in Turns, HandleUserMessage(t)
      PROVE  Logged' /\ ResultFollowsItsCall' /\ HeldLogged'
  <2>1. /\ AppendMessage(TurnSession[t], Prompt(t))
        /\ tpc' = [tpc EXCEPT ![t] = "loop"]
        /\ UNCHANGED <<Pending, step, call, calls>>
    BY <1>2 DEF HandleUserMessage
  <2>2. /\ Prompt(t) \in Messages /\ Prompt(t).kind \notin {"call", "result"}
        /\ TurnSession[t] \in Sessions
    BY MessageTypes DEF Prompt
  <2>3. /\ Logged' /\ ResultFollowsItsCall'
        /\ \A r \in Sessions : Transcript(r) \subseteq Transcript(r)'
    BY <2>1, <2>2, LogPlain
  <2>4. \A u \in Turns : tpc'[u] \in {"route", "await"}
           => tpc[u] \in {"route", "await"}
    BY <2>1 DEF ChatInv, ChatTypes
  <2> QED
    BY <2>1, <2>3, <2>4 DEF ChatInv, HeldLogged, ToolCall
<1>3. ASSUME NEW t \in Turns, AppendReply(t)
      PROVE  Logged' /\ ResultFollowsItsCall' /\ HeldLogged'
  <2> DEFINE m == Reply(Subject(last[t]))
  <2>1. /\ AppendMessage(TurnSession[t], m)
        /\ tpc' = [tpc EXCEPT ![t] = "reply"] /\ tpc[t] = "decide"
        /\ UNCHANGED <<Pending, step, call, calls>>
    BY <1>3 DEF AppendReply
  <2>2. /\ m \in Messages /\ m.kind \notin {"call", "result"}
        /\ TurnSession[t] \in Sessions
    BY <2>1, SubjectTyped DEF ChatInv, Control, Reply
  <2> HIDE DEF m
  <2>3. /\ Logged' /\ ResultFollowsItsCall'
        /\ \A r \in Sessions : Transcript(r) \subseteq Transcript(r)'
    BY <2>1, <2>2, LogPlain
  <2>4. \A u \in Turns : tpc'[u] \in {"route", "await"}
           => tpc[u] \in {"route", "await"}
    BY <2>1 DEF ChatInv, ChatTypes
  <2> QED
    BY <2>1, <2>3, <2>4 DEF ChatInv, HeldLogged, ToolCall
<1>4. ASSUME NEW t \in Turns,
             Snapshot(t) \/ DepthExceeded(t) \/ Respond(t) \/ CallFails(t)
      PROVE  Logged' /\ ResultFollowsItsCall' /\ HeldLogged'
  BY <1>4, LogOther
  DEF Snapshot, DepthExceeded, Respond, CallFails, ChatInv, ChatTypes
<1>5. ASSUME NEW t \in Turns, RouteClient(t)
      PROVE  Logged' /\ ResultFollowsItsCall' /\ HeldLogged'
  BY <1>5, LogOther DEF RouteClient, ChatInv, ChatTypes
<1>6. CASE UNCHANGED <<session, turn>>
  BY <1>6, LogOther DEF turn
<1> QED
  BY <1>2, <1>3, <1>4, <1>5, <1>6, LogCall, LogResult
  DEF Next, TurnStep, GiveUp, BridgeStep, vars

\* Before the first turn all transcripts are empty.
LEMMA ChatInit == Init => ChatInv
<1> SUFFICES ASSUME Init PROVE ChatInv
  OBVIOUS
<1> USE ChatAssumption
<1>1. \A s \in Sessions : messages[s] = <<>> /\ Transcript(s) = {}
  BY DEF Init, Transcript
<1>2. ChatTypes
  BY DEF Init, ChatTypes, Remote!Init, Remote!Phases
<1>3. AnswersMatch
  BY DEF Init, AnswersMatch, Remote!Init, Remote!Answers
<1>4. Control /\ HeldLogged
  BY DEF Init, Control, HeldLogged
<1>5. ASSUME NEW c \in Calls
      PROVE  ~(c[2] <= calls[c[1]]) /\ ~(c[2] <= step[c[1]])
  BY DEF Init, Calls
<1>6. Logged
  BY <1>1, <1>5
  DEF Init, Logged, CallsLogged, ResultsLogged, PendingIsBetween
<1>7. ResultFollowsItsCall
  BY <1>1 DEF ResultFollowsItsCall
<1> QED
  BY <1>2, <1>3, <1>4, <1>6, <1>7 DEF ChatInv, Logged

\* ... so the invariant always holds.
LEMMA ChatInvariant == Spec => []ChatInv
  BY ChatInit, ChatStep, PTL DEF Spec

-----------------------------------------------------------------------------
(* The theorems.                                                           *)

\* Transcripts, pending calls and turns have the types of the code.
THEOREM ChatTyped == Spec => []TypeOK
<1>1. ChatInv => TypeOK
  <2>1. ASSUME ChatTypes, NEW s \in Sessions PROVE Transcript(s) \subseteq Messages
    <3>1. messages[s] \in Seq(Messages)
      BY <2>1 DEF ChatTypes
    <3> QED
      BY <3>1 DEF Transcript
  <2> QED
    BY <2>1 DEF ChatInv, ChatTypes, TypeOK
<1> QED
  BY <1>1, ChatInvariant, PTL

\* The pending map and the transcript of a session agree, whatever turns
\* interleave on it and however their calls end.
THEOREM PendingCorrect == Spec => []PendingMatchesTranscript
<1>1. ChatInv => PendingMatchesTranscript
  BY DEF ChatInv, CallsLogged, ResultsLogged, PendingIsBetween,
         PendingMatchesTranscript
<1> QED
  BY <1>1, ChatInvariant, PTL

\* A result stands once behind its call in the session that asked for it.
THEOREM ResultsInOrder == Spec => []ResultFollowsItsCall
<1>1. ChatInv => ResultFollowsItsCall
  BY DEF ChatInv
<1> QED
  BY <1>1, ChatInvariant, PTL

\* Turns use the bridge only as its contract allows: what BrowserBridge is
\* proved to promise is all that they see.
THEOREM TurnsKeepContract == Spec => Remote!Spec
<1>1. Init => Remote!Init
  BY DEF Init
<1>2. ChatInv /\ [Next]_vars => [Remote!Next]_(Remote!vars)
  BY RemoteStep DEF ChatInv
<1> QED
  BY <1>1, <1>2, ChatInvariant, PTL DEF Spec, Remote!Spec
=============================================================================
