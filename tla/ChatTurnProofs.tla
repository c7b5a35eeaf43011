---------------------------- MODULE ChatTurnProofs ----------------------------
(***************************************************************************)
(* Proofs about what a turn of ChatService answers and when it gives up,   *)
(* whatever other turns of its session do meanwhile.                       *)
(***************************************************************************)
EXTENDS ChatServiceProofs, FiniteSetTheorems

Responses == [about : Turns \cup Calls \cup {None}, transcript : Seq(Messages)]

\* What a POST returns, or will.
ResponseTyped ==
    response \in [Turns -> {None, Unavailable, Timeout, TooDeep} \cup Responses]

\* The prompts behind position i of the session of turn t, up to position p.
Others(t, i, p) ==
    {j \in i + 1 .. p : messages[TurnSession[t]][j].kind = "user"}

\* Turn t has a prompt at i; up to p there are enough prompts of others behind
\* it for the calls that the turn made, and for the one that it may plan.
Spent(t, i, p) ==
    LET M == messages[TurnSession[t]]
        others == Cardinality(Others(t, i, p))
    IN
    /\ i \in DOMAIN M /\ p \in i .. Len(M)
    /\ M[i] = Prompt(t)
    /\ calls[t] <= others + 1
    /\ tpc[t] = "loop" /\ calls[t] > 0 => p < Len(M)
    /\ tpc[t] = "decide" /\ last[t].kind = "user" => calls[t] <= others
    /\ response[t] = TooDeep => MaxSteps <= others + 1

SpentInv ==
    \A t \in Turns :
        /\ tpc[t] = "new" => calls[t] = 0
        /\ tpc[t] # "new" => \E i, p \in Nat : Spent(t, i, p)
        /\ response[t] = TooDeep => tpc[t] = "failed"

\* The message is the prompt of turn t, or the result of the tool for it.
Concerns(t, m) ==
    \/ m = Prompt(t)
    \/ /\ m \in Messages
       /\ m.kind = "result"
       /\ m.id[1] = t
       /\ ToolCall(m.id, PromptTool[t]) \in Transcript(TurnSession[t])

\* Nobody but turn t writes at the positions i to n of its session.
Alone(t, i, n) == i .. n \subseteq OwnTo(TurnSession[t], t)

\* While nobody else writes behind the prompt of a turn, the turn decides on
\* its own messages and calls its own tool.
UndisturbedFrom(t, i) ==
    LET M == messages[TurnSession[t]] IN
    /\ tpc[t] = "loop" /\ Alone(t, i, Len(M)) => Concerns(t, M[Len(M)])
    /\ tpc[t] = "decide" /\ Alone(t, i, Len(M)) => Concerns(t, last[t])
    /\ tpc[t] \in {"route", "await"} /\ Alone(t, i, Len(M))
          => call[t].tool = PromptTool[t]
    /\ tpc[t] = "reply" /\ Alone(t, i, Len(M) - 1) => Concerns(t, last[t])

Undisturbed(t) ==
    \A i \in DOMAIN messages[TurnSession[t]] :
        messages[TurnSession[t]][i] = Prompt(t) => UndisturbedFrom(t, i)

\* The answer of a turn, with the part of the transcript it came with.
Answered(t) ==
    LET M == messages[TurnSession[t]]
        transcript == response[t].transcript
    IN
    tpc[t] = "done" =>
        /\ transcript \in Seq(Messages)
        /\ Len(transcript) <= Len(M)
        /\ \A j \in 1 .. Len(transcript) : transcript[j] = M[j]
        /\ \E i \in 1 .. Len(transcript) : M[i] = Prompt(t)
        /\ \A i \in 1 .. Len(transcript) :
              M[i] = Prompt(t) /\ Alone(t, i, Len(transcript) - 1)
              => \E m : Concerns(t, m) /\ response[t].about = Subject(m)

TurnInv ==
    ResponseTyped /\ SpentInv /\ \A t \in Turns : Undisturbed(t) /\ Answered(t)

-----------------------------------------------------------------------------
(* What a step does to a turn and its transcript.                          *)

\* A transcript gets no message or one more, and what stood in it stays.
LEMMA Longer ==
    ASSUME messages \in [Sessions -> Seq(Messages)], NEW t \in Turns,
           \/ messages'[TurnSession[t]] = messages[TurnSession[t]]
           \/ \E m \in Messages : AppendMessage(TurnSession[t], m)
    PROVE  /\ Len(messages[TurnSession[t]]) \in Nat
           /\ DOMAIN messages[TurnSession[t]] = 1 .. Len(messages[TurnSession[t]])
           /\ Len(messages'[TurnSession[t]])
                 \in {Len(messages[TurnSession[t]]),
                      Len(messages[TurnSession[t]]) + 1}
           /\ DOMAIN messages'[TurnSession[t]]
                 = 1 .. Len(messages'[TurnSession[t]])
           /\ \A j \in 1 .. Len(messages[TurnSession[t]]) :
                 /\ messages'[TurnSession[t]][j] = messages[TurnSession[t]][j]
                 /\ j \in OwnTo(TurnSession[t], t)'
                       <=> j \in OwnTo(TurnSession[t], t)
           /\ Transcript(TurnSession[t]) \subseteq Transcript(TurnSession[t])'
<1> DEFINE s == TurnSession[t]
           n == Len(messages[s])
<1>1. s \in Sessions
  BY ChatAssumption
<1>2. /\ n \in Nat
      /\ DOMAIN messages[s] = 1 .. n
      /\ Len(messages'[s]) \in {n, n + 1}
      /\ DOMAIN messages'[s] = 1 .. Len(messages'[s])
      /\ \A j \in 1 .. n : messages'[s][j] = messages[s][j]
  <2>1. messages[s] \in Seq(Messages)
    BY <1>1
  <2>2. CASE messages'[s] = messages[s]
    BY <2>1, <2>2
  <2>3. ASSUME NEW m \in Messages, AppendMessage(s, m)
        PROVE  /\ n \in Nat
               /\ DOMAIN messages[s] = 1 .. n
               /\ Len(messages'[s]) \in {n, n + 1}
               /\ DOMAIN messages'[s] = 1 .. Len(messages'[s])
               /\ \A j \in 1 .. n : messages'[s][j] = messages[s][j]
    BY <1>1, <2>3, Appended
  <2> QED
    BY <2>2, <2>3
<1>3. \A j \in 1 .. n : j \in DOMAIN messages'[s] /\ j \in DOMAIN messages[s]
  BY <1>2
<1>4. \A j \in 1 .. n : j \in OwnTo(s, t)' <=> j \in OwnTo(s, t)
  BY <1>2, <1>3 DEF OwnTo
<1>5. Transcript(s) \subseteq Transcript(s)'
  BY <1>2, <1>3 DEF Transcript
<1> QED
  BY <1>2, <1>4, <1>5

\* What is appended is the turn's if it is its message.
LEMMA OwnAppended ==
    ASSUME messages \in [Sessions -> Seq(Messages)], NEW t \in Turns,
           NEW m \in Messages, AppendMessage(TurnSession[t], m)
    PROVE  /\ Len(messages'[TurnSession[t]]) = Len(messages[TurnSession[t]]) + 1
           /\ messages'[TurnSession[t]][Len(messages[TurnSession[t]]) + 1] = m
           /\ Len(messages[TurnSession[t]]) + 1 \in OwnTo(TurnSession[t], t)'
                 <=> Mine(t, m)
<1> DEFINE s == TurnSession[t]
           n == Len(messages[s])
<1>1. s \in Sessions
  BY ChatAssumption
<1>2. /\ n \in Nat /\ Len(messages'[s]) = n + 1
      /\ DOMAIN messages'[s] = 1 .. n + 1
      /\ messages'[s][n + 1] = m
  BY <1>1, Appended
<1>3. n + 1 \in DOMAIN messages'[s]
  BY <1>2
<1> QED
  BY <1>2, <1>3 DEF OwnTo, Mine

\* A turn takes a step of its own, or its locals stay as they are and its
\* transcript gets nothing, or a message of another turn.
LEMMA OwnStepOrNot ==
    ASSUME ChatInv, ResponseTyped, [Next]_vars, NEW t \in Turns
    PROVE  \/ HandleUserMessage(t) \/ TurnStep(t)
           \/ /\ tpc'[t] = tpc[t] /\ last'[t] = last[t]
              /\ call'[t] = call[t] /\ calls'[t] = calls[t]
              /\ response'[t] = response[t]
              /\ \/ messages'[TurnSession[t]] = messages[TurnSession[t]]
                 \/ \E m \in Messages : /\ ~Mine(t, m)
                                       /\ AppendMessage(TurnSession[t], m)
<1> DEFINE Away ==
             /\ tpc'[t] = tpc[t] /\ last'[t] = last[t]
             /\ call'[t] = call[t] /\ calls'[t] = calls[t]
             /\ response'[t] = response[t]
             /\ \/ messages'[TurnSession[t]] = messages[TurnSession[t]]
                \/ \E m \in Messages : /\ ~Mine(t, m)
                                      /\ AppendMessage(TurnSession[t], m)
<1> USE ChatAssumption DEF ChatInv, ResponseTyped
<1>1. ASSUME NEW u \in Turns, u # t, NEW m \in Messages, ~Mine(t, m),
             AppendMessage(TurnSession[u], m),
             \/ UNCHANGED <<last, call, calls, response>>
             \/ \E c : call' = [call EXCEPT ![u] = c] /\ UNCHANGED <<last, response>>
                      /\ calls' = [calls EXCEPT ![u] = @ + 1],
             \E place : Goto(u, place)
      PROVE  Away
  <2>1. /\ tpc'[t] = tpc[t] /\ last'[t] = last[t] /\ call'[t] = call[t]
        /\ calls'[t] = calls[t] /\ response'[t] = response[t]
    BY <1>1 DEF Goto, ChatTypes
  <2>2. CASE TurnSession[u] = TurnSession[t]
    BY <1>1, <2>1, <2>2
  <2>3. CASE TurnSession[u] # TurnSession[t]
    <3>1. messages'[TurnSession[t]] = messages[TurnSession[t]]
      BY <1>1, <2>3, Appended DEF ChatTypes
    <3> QED
      BY <2>1, <3>1
  <2> QED
    BY <2>2, <2>3
<1>2. ASSUME NEW u \in Turns, u # t, HandleUserMessage(u) PROVE Away
  <2>1. Prompt(u) \in Messages /\ ~Mine(t, Prompt(u))
    BY <1>2, MessageTypes DEF Mine, Prompt
  <2> QED
    BY <1>1, <1>2, <2>1 DEF HandleUserMessage
<1>3. ASSUME NEW u \in Turns, u # t, AppendReply(u) PROVE Away
  <2>1. /\ Reply(Subject(last[u])) \in Messages
        /\ ~Mine(t, Reply(Subject(last[u])))
    BY <1>3, SubjectTyped DEF AppendReply, Control, Mine, Reply
  <2> QED
    BY <1>1, <1>3, <2>1 DEF AppendReply
<1>4. ASSUME NEW u \in Turns, u # t, PlanCall(u) PROVE Away
  <2> DEFINE m == ToolCall(<<u, calls[u] + 1>>, PromptTool[last[u].turn])
  <2>1. m \in Messages
    BY <1>4, PlanTyped, MessageTypes
  <2>2. ~Mine(t, m)
    BY <1>4 DEF Mine, ToolCall
  <2>3. /\ AppendMessage(TurnSession[u], m)
        /\ \E c : call' = [call EXCEPT ![u] = c] /\ UNCHANGED <<last, response>>
                 /\ calls' = [calls EXCEPT ![u] = @ + 1]
        /\ Goto(u, "route")
    BY <1>4 DEF PlanCall, AppendToolCall
  <2> HIDE DEF m
  <2> QED
    BY <1>1, <1>4, <2>1, <2>2, <2>3
<1>5. ASSUME NEW u \in Turns, u # t, RouteServer(u) \/ CallSucceeds(u)
      PROVE  Away
  <2>1. PICK result \in [id : Calls, output : Outputs \cup {ServerOutput}] :
              /\ Continue(u, result)
              /\ call[u].id = <<u, calls[u]>>
              /\ call[u].id \in Calls
              /\ call[u].tool \in Tools
    BY <1>5, ContinueTyped
  <2> DEFINE m == ToolResult(call[u].id, call[u].tool, result)
  <2>2. m \in Messages
    BY <2>1, MessageTypes
  <2>3. ~Mine(t, m)
    BY <1>5, <2>1 DEF Mine, ToolResult
  <2>4. /\ AppendMessage(TurnSession[u], m)
        /\ UNCHANGED <<last, call, calls, response>>
        /\ Goto(u, "loop")
    BY <2>1 DEF Continue, AppendToolResult
  <2> HIDE DEF m
  <2> QED
    BY <1>1, <1>5, <2>2, <2>3, <2>4
<1>6. ASSUME NEW u \in Turns, u # t,
             Snapshot(u) \/ DepthExceeded(u) \/ Respond(u) \/ RouteClient(u)
                \/ CallFails(u)
      PROVE  Away
  <2>1. messages' = messages
    BY <1>6
    DEF Snapshot, DepthExceeded, Respond, RouteClient, CallFails, session
  <2>2. \/ Goto(u, "decide") \/ Goto(u, "failed") \/ Goto(u, "done")
        \/ Goto(u, "await")
    BY <1>6 DEF Snapshot, DepthExceeded, Respond, RouteClient, CallFails
  <2>3. tpc'[t] = tpc[t]
    BY <1>6, <2>2 DEF Goto, ChatTypes
  <2>4. last'[t] = last[t]
    BY <1>6
    DEF Snapshot, DepthExceeded, Respond, RouteClient, CallFails, ChatTypes
  <2>5. response'[t] = response[t] /\ call' = call /\ calls' = calls
    BY <1>6
    DEF Snapshot, DepthExceeded, Respond, RouteClient, CallFails, ChatTypes
  <2> QED
    BY <2>1, <2>3, <2>4, <2>5
<1>7. CASE UNCHANGED <<session, turn>>
  BY <1>7 DEF session, turn
<1> QED
  BY <1>2, <1>3, <1>4, <1>5, <1>6, <1>7
  DEF Next, TurnStep, GiveUp, BridgeStep, vars

\* A turn responds with what it answers, or with an error.
LEMMA ResponseStep ==
    ASSUME ChatInv, ResponseTyped, [Next]_vars
    PROVE  ResponseTyped'
<1> USE DEF ResponseTyped
<1>1. ASSUME NEW t \in Turns, Respond(t) PROVE ResponseTyped'
  <2>1. TurnSession[t] \in Sessions
    BY ChatAssumption
  <2>2. last[t] \in Messages /\ messages[TurnSession[t]] \in Seq(Messages)
    BY <1>1, <2>1 DEF Respond, ChatInv, ChatTypes, Control
  <2>3. Subject(last[t]) \in Turns \cup Calls \cup {None}
    BY <2>2, MessageFields DEF Subject
  <2> QED
    BY <1>1, <2>2, <2>3 DEF Respond, Responses
<1>2. ASSUME NEW t \in Turns, DepthExceeded(t) \/ CallFails(t)
      PROVE  ResponseTyped'
  BY <1>2 DEF DepthExceeded, CallFails
<1>3. CASE UNCHANGED response
  BY <1>3
<1> QED
  BY <1>1, <1>2, <1>3
  DEF Next, TurnStep, HandleUserMessage, Snapshot, AppendReply, PlanCall,
      RouteServer, RouteClient, CallSucceeds, Continue, GiveUp, BridgeStep,
      turn, vars

-----------------------------------------------------------------------------
(* The depth of a turn.                                                    *)

\* A turn has finitely many prompts of others behind its own.
LEMMA OthersFinite ==
    ASSUME NEW t \in Turns, NEW i \in Nat, NEW p \in Nat
    PROVE  /\ IsFiniteSet(Others(t, i, p))
           /\ Cardinality(Others(t, i, p)) \in Nat
<1>1. IsFiniteSet(i + 1 .. p)
  BY FS_Interval
<1>2. Others(t, i, p) \in SUBSET (i + 1 .. p)
  BY DEF Others
<1>3. IsFiniteSet(Others(t, i, p))
  BY <1>1, <1>2, FS_Subset
<1> QED
  BY <1>3, FS_CardinalityType

\* The further one looks the more prompts there are.
LEMMA OthersMonotone ==
    ASSUME NEW t \in Turns, NEW i \in Nat, NEW p \in Nat, NEW q \in Nat, p <= q
    PROVE  Cardinality(Others(t, i, p)) <= Cardinality(Others(t, i, q))
<1>1. Others(t, i, p) \in SUBSET Others(t, i, q)
  BY DEF Others
<1> QED
  BY <1>1, OthersFinite, FS_Subset

\* ... one more at least if the last one looked at is a prompt.
LEMMA OthersMore ==
    ASSUME NEW t \in Turns, NEW i \in Nat, NEW p \in Nat, NEW q \in Nat,
           i <= p, p < q, messages[TurnSession[t]][q].kind = "user"
    PROVE  Cardinality(Others(t, i, p)) + 1 <= Cardinality(Others(t, i, q))
<1>1. Others(t, i, p) \cup {q} \in SUBSET Others(t, i, q)
  BY DEF Others
<1>2. q \notin Others(t, i, p)
  BY DEF Others
<1>3. Cardinality(Others(t, i, p) \cup {q})
         = Cardinality(Others(t, i, p)) + 1
  BY <1>2, OthersFinite, FS_AddElement
<1>4. Cardinality(Others(t, i, p) \cup {q}) <= Cardinality(Others(t, i, q))
  BY <1>1, OthersFinite, FS_Subset
<1> QED
  BY <1>3, <1>4

\* A longer transcript has the same prompts up to where it ended.
LEMMA OthersStay ==
    ASSUME messages \in [Sessions -> Seq(Messages)], NEW t \in Turns,
           \/ messages'[TurnSession[t]] = messages[TurnSession[t]]
           \/ \E m \in Messages : AppendMessage(TurnSession[t], m),
           NEW i \in Nat, NEW p \in Nat, p <= Len(messages[TurnSession[t]])
    PROVE  Others(t, i, p)' = Others(t, i, p)
<1> DEFINE s == TurnSession[t]
<1>1. /\ Len(messages[s]) \in Nat
      /\ \A j \in 1 .. Len(messages[s]) : messages'[s][j] = messages[s][j]
  BY Longer
<1>2. \A j \in i + 1 .. p : messages'[s][j] = messages[s][j]
  BY <1>1
<1>3. Others(t, i, p)' = {j \in i + 1 .. p : messages'[s][j].kind = "user"}
  BY DEF Others
<1>4. Others(t, i, p) = {j \in i + 1 .. p : messages[s][j].kind = "user"}
  BY DEF Others
<1> QED
  BY <1>2, <1>3, <1>4, Zenon

\* A step that makes no call that it has no prompt for keeps the account.
LEMMA SpentKept ==
    ASSUME messages \in [Sessions -> Seq(Messages)], NEW t \in Turns,
           \/ messages'[TurnSession[t]] = messages[TurnSession[t]]
           \/ \E m \in Messages : AppendMessage(TurnSession[t], m),
           NEW i \in DOMAIN messages[TurnSession[t]],
           NEW p \in i .. Len(messages[TurnSession[t]]),
           messages[TurnSession[t]][i] = Prompt(t),
           calls'[t] <= Cardinality(Others(t, i, p)) + 1,
           tpc'[t] = "loop" /\ calls'[t] > 0
              => p < Len(messages'[TurnSession[t]]),
           tpc'[t] = "decide" /\ last'[t].kind = "user"
              => calls'[t] <= Cardinality(Others(t, i, p)),
           response'[t] = TooDeep
              => MaxSteps <= Cardinality(Others(t, i, p)) + 1
    PROVE  Spent(t, i, p)'
<1> DEFINE s == TurnSession[t]
<1>1. /\ Len(messages[s]) \in Nat
      /\ DOMAIN messages[s] = 1 .. Len(messages[s])
      /\ Len(messages'[s]) \in {Len(messages[s]), Len(messages[s]) + 1}
      /\ DOMAIN messages'[s] = 1 .. Len(messages'[s])
      /\ \A j \in 1 .. Len(messages[s]) : messages'[s][j] = messages[s][j]
  BY Longer
<1>2. i \in Nat /\ p \in Nat /\ p <= Len(messages[s])
  BY <1>1
<1>3. Others(t, i, p)' = Others(t, i, p)
  BY <1>1, <1>2, OthersStay
<1>4. /\ i \in DOMAIN messages'[s] /\ p \in i .. Len(messages'[s])
      /\ messages'[s][i] = Prompt(t)
  BY <1>1, <1>2
<1> QED
  BY <1>3, <1>4 DEF Spent, Prompt

\* Each step accounts for the calls it makes.
LEMMA SpentStep ==
    ASSUME ChatInv, ResponseTyped, SpentInv, [Next]_vars
    PROVE  SpentInv'
<1> USE ChatAssumption
<1>1. ResponseTyped' /\ messages \in [Sessions -> Seq(Messages)]
  BY ResponseStep DEF ChatInv, ChatTypes
<1> SUFFICES ASSUME NEW t \in Turns
             PROVE  /\ tpc'[t] = "new" => calls'[t] = 0
                    /\ tpc'[t] # "new" => \E i, p \in Nat : Spent(t, i, p)'
                    /\ response'[t] = TooDeep => tpc'[t] = "failed"
  BY DEF SpentInv
<1> DEFINE s == TurnSession[t]
<1>0. Len(messages[s]) \in Nat
  BY <1>1, Longer
<1> PICK n \in Nat : n = Len(messages[s])
  BY <1>0
<1>2. /\ tpc[t] = "new" => calls[t] = 0
      /\ tpc[t] # "new" => \E i, p \in Nat : Spent(t, i, p)
      /\ response[t] = TooDeep => tpc[t] = "failed"
      /\ calls[t] \in Nat /\ step[t] \in Nat /\ MaxSteps \in Nat
      /\ n \in Nat /\ n = Len(messages[s])
  BY DEF SpentInv, ChatInv, ChatTypes
<1>3. CASE HandleUserMessage(t)
  <2>1. /\ AppendMessage(s, Prompt(t)) /\ Prompt(t) \in Messages
        /\ tpc'[t] = "loop" /\ tpc[t] = "new"
        /\ calls' = calls /\ response' = response
    BY <1>3, MessageTypes DEF HandleUserMessage, Goto, ChatInv, ChatTypes
  <2>2. Len(messages'[s]) = n + 1 /\ messages'[s][n + 1] = Prompt(t)
    BY <1>1, <2>1, OwnAppended
  <2>3. DOMAIN messages'[s] = 1 .. n + 1
    BY <1>1, <2>1, <2>2, Longer
  <2>4. Spent(t, n + 1, n + 1)'
    <3>1. Cardinality(Others(t, n + 1, n + 1)') = 0
      <4>1. Others(t, n + 1, n + 1)' = {}
        BY <1>2, <2>2 DEF Others
      <4> QED
        BY <4>1, FS_EmptySet, Zenon
    <3> QED
      BY <1>2, <2>1, <2>2, <2>3, <3>1 DEF Spent
  <2> QED
    BY <1>2, <2>1, <2>4
<1>4. ASSUME tpc[t] # "new"
      PROVE  \E i, p \in Nat :
                /\ Spent(t, i, p)
                /\ Cardinality(Others(t, i, p)) \in Nat
                /\ i <= p /\ p <= n
  <2>1. PICK i \in Nat, p \in Nat : Spent(t, i, p)
    BY <1>2, <1>4
  <2>2. Cardinality(Others(t, i, p)) \in Nat
    BY OthersFinite
  <2>3. i <= p /\ p <= n
    BY <1>2, <2>1 DEF Spent
  <2> QED
    BY <2>1, <2>2, <2>3
<1>5. CASE Snapshot(t)
  <2>1. /\ messages' = messages /\ tpc'[t] = "decide" /\ tpc[t] = "loop"
        /\ last'[t] = messages[s][n]
        /\ calls' = calls /\ response' = response
    BY <1>5
    DEF Snapshot, Goto, ChatInv, ChatTypes, session, LastMessage
  <2>2. PICK i \in Nat, p \in Nat : /\ Spent(t, i, p)
                                  /\ Cardinality(Others(t, i, p)) \in Nat
                                  /\ i <= p /\ p <= n
    BY <1>4, <2>1
  <2>3. CASE last'[t].kind = "user"
    <3>1. /\ Cardinality(Others(t, i, p)) <= Cardinality(Others(t, i, n))
          /\ Cardinality(Others(t, i, n)) \in Nat
      BY <1>2, <2>2, OthersMonotone, OthersFinite
    <3>2. calls[t] <= Cardinality(Others(t, i, n))
      <4>1. CASE calls[t] = 0
        BY <3>1, <4>1
      <4>2. CASE calls[t] > 0
        <5>1. p < n
          BY <2>1, <2>2, <4>2 DEF Spent
        <5>2. Cardinality(Others(t, i, p)) + 1 <= Cardinality(Others(t, i, n))
          BY <1>2, <2>1, <2>2, <2>3, <5>1, OthersMore
        <5> QED
          BY <1>2, <2>2, <3>1, <5>2 DEF Spent
      <4> QED
        BY <1>2, <4>1, <4>2
    <3>3. /\ i \in DOMAIN messages[s] /\ n \in i .. Len(messages[s])
          /\ messages[s][i] = Prompt(t)
      BY <1>2, <2>2 DEF Spent
    <3>4. Spent(t, i, n)'
      BY <1>1, <1>2, <2>1, <3>1, <3>2, <3>3, SpentKept
    <3> QED
      BY <1>2, <2>1, <3>4
  <2>4. CASE last'[t].kind # "user"
    <3>1. Spent(t, i, p)'
      BY <1>1, <1>2, <2>1, <2>2, <2>4, SpentKept DEF Spent
    <3> QED
      BY <1>2, <2>1, <3>1
  <2> QED
    BY <2>3, <2>4
<1>6. CASE DepthExceeded(t)
  <2>1. /\ messages' = messages /\ tpc'[t] = "failed" /\ tpc[t] = "loop"
        /\ calls' = calls /\ MaxSteps <= calls[t]
    BY <1>2, <1>6
    DEF DepthExceeded, Goto, ChatInv, ChatTypes, Control, session
  <2>2. PICK i \in Nat, p \in Nat : /\ Spent(t, i, p)
                                  /\ Cardinality(Others(t, i, p)) \in Nat
    BY <1>4, <2>1
  <2>3. Spent(t, i, p)'
    BY <1>1, <1>2, <2>1, <2>2, SpentKept DEF Spent
  <2> QED
    BY <2>1, <2>3
<1>7. ASSUME tpc[t] # "new", tpc'[t] \notin {"new", "loop", "decide"},
             calls'[t] = calls[t], response'[t] # TooDeep,
             \/ messages'[s] = messages[s]
             \/ \E m \in Messages : AppendMessage(s, m)
      PROVE  \E i, p \in Nat : Spent(t, i, p)'
  <2>1. PICK i \in Nat, p \in Nat : Spent(t, i, p)
    BY <1>4, <1>7
  <2>2. Spent(t, i, p)'
    BY <1>1, <1>7, <2>1, SpentKept DEF Spent
  <2> QED
    BY <2>2
<1>8. CASE Respond(t) \/ CallFails(t)
  <2>1. /\ messages' = messages /\ tpc'[t] \in {"done", "failed"}
        /\ tpc[t] \in {"reply", "await"} /\ calls' = calls
    BY <1>8 DEF Respond, CallFails, Goto, ChatInv, ChatTypes, session
  <2>2. response'[t] # TooDeep
    <3>1. CASE Respond(t)
      <4>1. /\ s \in Sessions
            /\ response'[t] = [about |-> Subject(last[t]),
                               transcript |-> messages[s]]
        BY <3>1 DEF Respond, ResponseTyped
      <4>2. last[t] \in Messages /\ messages[s] \in Seq(Messages)
        BY <3>1, <4>1 DEF Respond, ChatInv, ChatTypes, Control
      <4>3. Subject(last[t]) \in Turns \cup Calls \cup {None}
        BY <4>2, MessageFields DEF Subject
      <4> QED
        BY <4>1, <4>2, <4>3
    <3>2. CASE CallFails(t)
      BY <3>2 DEF CallFails, ResponseTyped
    <3> QED
      BY <1>8, <3>1, <3>2
  <2> QED
    BY <1>7, <2>1, <2>2
<1>9. CASE AppendReply(t)
  <2>1. /\ AppendMessage(s, Reply(Subject(last[t])))
        /\ Reply(Subject(last[t])) \in Messages
    BY <1>9, SubjectTyped DEF AppendReply, ChatInv, Control
  <2>2. /\ tpc'[t] = "reply" /\ tpc[t] = "decide" /\ calls' = calls
        /\ response' = response
    BY <1>9 DEF AppendReply, Goto, ChatInv, ChatTypes
  <2> QED
    BY <1>2, <1>7, <2>1, <2>2
<1>10. CASE RouteClient(t)
  <2>1. /\ messages' = messages /\ tpc'[t] = "await" /\ tpc[t] = "route"
        /\ calls' = calls /\ response' = response
    BY <1>10 DEF RouteClient, Goto, ChatInv, ChatTypes, session
  <2> QED
    BY <1>2, <1>7, <2>1
<1>11. CASE PlanCall(t)
  <2> DEFINE m == ToolCall(<<t, calls[t] + 1>>, PromptTool[last[t].turn])
  <2>1. AppendMessage(s, m) /\ m \in Messages
    BY <1>11, PlanTyped, MessageTypes
    DEF PlanCall, AppendToolCall, ChatInv
  <2> HIDE DEF m
  <2>2. /\ tpc'[t] = "route" /\ tpc[t] = "decide" /\ last[t].kind = "user"
        /\ calls'[t] = calls[t] + 1 /\ response' = response
    BY <1>11 DEF PlanCall, PlansTool, Goto, ChatInv, ChatTypes
  <2>3. PICK i \in Nat, p \in Nat : /\ Spent(t, i, p)
                                  /\ Cardinality(Others(t, i, p)) \in Nat
    BY <1>4, <2>2
  <2>4. calls[t] + 1 <= Cardinality(Others(t, i, p)) + 1
    BY <1>2, <2>2, <2>3 DEF Spent
  <2>5. Spent(t, i, p)'
    BY <1>1, <1>2, <2>1, <2>2, <2>3, <2>4, SpentKept DEF Spent
  <2> QED
    BY <1>2, <2>2, <2>5
<1>12. CASE RouteServer(t) \/ CallSucceeds(t)
  <2>1. PICK result \in [id : Calls, output : Outputs \cup {ServerOutput}] :
              /\ Continue(t, result)
              /\ call[t].id \in Calls /\ call[t].tool \in Tools
              /\ tpc[t] \in {"route", "await"}
    BY <1>12, ContinueTyped DEF ChatInv
  <2> DEFINE m == ToolResult(call[t].id, call[t].tool, result)
  <2>2. AppendMessage(s, m) /\ m \in Messages
    BY <2>1, MessageTypes DEF Continue, AppendToolResult
  <2> HIDE DEF m
  <2>3. tpc'[t] = "loop" /\ calls' = calls /\ response' = response
    BY <2>1 DEF Continue, Goto, ChatInv, ChatTypes
  <2>4. Len(messages'[s]) = n + 1
    BY <1>1, <2>2, OwnAppended
  <2>5. PICK i \in Nat, p \in Nat : Spent(t, i, p) /\ p <= n
    BY <1>4, <2>1
  <2>6. p < n + 1
    BY <1>2, <2>5
  <2>7. Spent(t, i, p)'
    BY <1>1, <1>2, <2>1, <2>2, <2>3, <2>4, <2>5, <2>6, SpentKept DEF Spent
  <2> QED
    BY <1>2, <2>1, <2>3, <2>7
<1>13. CASE /\ tpc'[t] = tpc[t] /\ last'[t] = last[t]
            /\ call'[t] = call[t] /\ calls'[t] = calls[t]
            /\ response'[t] = response[t]
            /\ \/ messages'[s] = messages[s]
               \/ \E m \in Messages : ~Mine(t, m) /\ AppendMessage(s, m)
  <2>1. ASSUME tpc[t] # "new" PROVE \E i, p \in Nat : Spent(t, i, p)'
    <3>1. PICK i \in Nat, p \in Nat : Spent(t, i, p) /\ p <= n
      BY <1>4, <2>1
    <3>2. n <= Len(messages'[s])
      BY <1>1, <1>2, <1>13, Longer
    <3>3. tpc'[t] = "loop" /\ calls'[t] > 0 => p < Len(messages'[s])
      <4>1. Len(messages'[s]) \in {n, n + 1}
        BY <1>1, <1>13, Longer
      <4> QED
        BY <1>2, <1>13, <3>1, <4>1 DEF Spent
    <3>4. Spent(t, i, p)'
      BY <1>1, <1>13, <3>1, <3>3, SpentKept DEF Spent
    <3> QED
      BY <3>4
  <2> QED
    BY <1>2, <1>13, <2>1
<1> HIDE DEF s
<1> QED
  <2>1. \/ HandleUserMessage(t) \/ TurnStep(t)
        \/ /\ tpc'[t] = tpc[t] /\ last'[t] = last[t]
           /\ call'[t] = call[t] /\ calls'[t] = calls[t]
           /\ response'[t] = response[t]
           /\ \/ messages'[s] = messages[s]
              \/ \E m \in Messages : ~Mine(t, m) /\ AppendMessage(s, m)
    BY OwnStepOrNot DEF s
  <2> QED
    BY <1>3, <1>5, <1>6, <1>8, <1>9, <1>10, <1>11, <1>12, <1>13, <2>1
    DEF TurnStep

-----------------------------------------------------------------------------
(* The answer of a turn.                                                   *)

\* What a turn is about it stays about as the transcript grows.
LEMMA ConcernsStays ==
    ASSUME messages \in [Sessions -> Seq(Messages)], NEW t \in Turns,
           \/ messages'[TurnSession[t]] = messages[TurnSession[t]]
           \/ \E m \in Messages : AppendMessage(TurnSession[t], m),
           NEW m, Concerns(t, m)
    PROVE  Concerns(t, m)'
<1>1. Transcript(TurnSession[t]) \subseteq Transcript(TurnSession[t])'
  BY Longer
<1> QED
  BY <1>1 DEF Concerns, Prompt, ToolCall

\* A prompt posted before stands where it stood, and if the turn is alone
\* behind it now it was before.
LEMMA AloneBefore ==
    ASSUME messages \in [Sessions -> Seq(Messages)], NEW t \in Turns,
           \/ messages'[TurnSession[t]] = messages[TurnSession[t]]
           \/ \E m \in Messages : AppendMessage(TurnSession[t], m),
           NEW i \in DOMAIN messages[TurnSession[t]],
           messages'[TurnSession[t]][i] = Prompt(t),
           NEW k \in Nat, k <= Len(messages[TurnSession[t]]),
           NEW l \in Nat, k <= l, Alone(t, i, l)'
    PROVE  /\ messages[TurnSession[t]][i] = Prompt(t)
           /\ Alone(t, i, k)
<1> DEFINE s == TurnSession[t]
<1>1. /\ Len(messages[s]) \in Nat
      /\ DOMAIN messages[s] = 1 .. Len(messages[s])
      /\ \A j \in 1 .. Len(messages[s]) :
            /\ messages'[s][j] = messages[s][j]
            /\ j \in OwnTo(s, t)' <=> j \in OwnTo(s, t)
  BY Longer
<1>2. messages[s][i] = Prompt(t)
  BY <1>1
<1>3. ASSUME NEW j \in i .. k PROVE j \in OwnTo(s, t)
  <2>1. j \in i .. l /\ j \in 1 .. Len(messages[s])
    BY <1>1
  <2> QED
    BY <1>1, <2>1 DEF Alone
<1> QED
  BY <1>2, <1>3 DEF Alone

\* No step of another turn goes unnoticed behind the prompt, and the turn's
\* own steps follow from each other.
LEMMA UndisturbedStep ==
    ASSUME ChatInv, ResponseTyped, [Next]_vars, NEW t \in Turns, Undisturbed(t)
    PROVE  Undisturbed(t)'
<1> DEFINE s == TurnSession[t]
<1>0. messages \in [Sessions -> Seq(Messages)] /\ s \in Sessions
  BY ChatAssumption DEF ChatInv, ChatTypes
<1>1. /\ messages[s] \in Seq(Messages) /\ Len(messages[s]) \in Nat
      /\ DOMAIN messages[s] = 1 .. Len(messages[s])
  BY <1>0
<1> PICK n \in Nat : n = Len(messages[s])
  BY <1>1
<1> SUFFICES ASSUME NEW i \in DOMAIN messages'[s], messages'[s][i] = Prompt(t)
             PROVE  UndisturbedFrom(t, i)'
  BY DEF Undisturbed, Prompt
\* What holds behind the prompt before the step, once it stands there.
<1>2. ASSUME i \in DOMAIN messages[s],
             \/ messages'[s] = messages[s]
             \/ \E m \in Messages : AppendMessage(s, m),
             NEW k \in Nat, k <= n, NEW l \in Nat, k <= l, Alone(t, i, l)'
      PROVE  UndisturbedFrom(t, i) /\ Alone(t, i, k)
  <2>1. messages[s][i] = Prompt(t) /\ Alone(t, i, k)
    BY <1>0, <1>2, AloneBefore
  <2> QED
    BY <1>2, <2>1 DEF Undisturbed
<1>3. ASSUME NEW m \in Messages, AppendMessage(s, m), m # Prompt(t)
      PROVE  /\ i \in DOMAIN messages[s]
             /\ Len(messages'[s]) = n + 1
             /\ messages'[s][n + 1] = m
  <2>1. /\ Len(messages'[s]) = n + 1 /\ messages'[s][n + 1] = m
        /\ DOMAIN messages'[s] = 1 .. n + 1
    BY <1>0, <1>3, OwnAppended, Longer
  <2>2. i # n + 1
    BY <1>3, <2>1
  <2> QED
    BY <1>1, <2>1, <2>2
<1>4. CASE HandleUserMessage(t)
  <2>1. AppendMessage(s, Prompt(t)) /\ Prompt(t) \in Messages
    BY <1>4, MessageTypes DEF HandleUserMessage
  <2>2. tpc'[t] = "loop"
    BY <1>4 DEF HandleUserMessage, Goto, ChatInv, ChatTypes
  <2>3. Len(messages'[s]) = n + 1 /\ messages'[s][n + 1] = Prompt(t)
    BY <1>0, <2>1, OwnAppended
  <2> QED
    BY <2>2, <2>3 DEF UndisturbedFrom, Concerns, Prompt
<1>5. CASE Snapshot(t)
  <2>1. /\ messages' = messages /\ tpc'[t] = "decide" /\ tpc[t] = "loop"
        /\ last'[t] = messages[s][n]
    BY <1>5 DEF Snapshot, Goto, ChatInv, ChatTypes, session, LastMessage
  <2> PICK m : m = messages[s][n]
    OBVIOUS
  <2>2. ASSUME Alone(t, i, n)' PROVE Concerns(t, m)'
    <3>1. Concerns(t, m)
      BY <1>2, <2>1, <2>2 DEF UndisturbedFrom
    <3> QED
      BY <1>0, <2>1, <3>1, ConcernsStays
  <2> QED
    BY <2>1, <2>2 DEF UndisturbedFrom
<1>6. CASE AppendReply(t)
  <2> PICK m : m = last[t]
    OBVIOUS
  <2>1. /\ AppendMessage(s, Reply(Subject(m))) /\ Reply(Subject(m)) \in Messages
        /\ Reply(Subject(m)) # Prompt(t)
    BY <1>6, SubjectTyped DEF AppendReply, ChatInv, Control, Reply, Prompt
  <2>2. /\ tpc'[t] = "reply" /\ tpc[t] = "decide" /\ last'[t] = m
    BY <1>6 DEF AppendReply, Goto, ChatInv, ChatTypes
  <2>3. i \in DOMAIN messages[s] /\ Len(messages'[s]) = n + 1
    BY <1>3, <2>1
  <2>4. ASSUME Alone(t, i, n)' PROVE Concerns(t, m)'
    <3>1. Concerns(t, m)
      BY <1>2, <2>1, <2>2, <2>3, <2>4 DEF UndisturbedFrom
    <3> QED
      BY <1>0, <2>1, <3>1, ConcernsStays
  <2>5. Len(messages'[s]) - 1 = n
    BY <2>3
  <2> QED
    BY <2>2, <2>4, <2>5 DEF UndisturbedFrom
<1>7. CASE PlanCall(t)
  <2> DEFINE tool == PromptTool[last[t].turn]
             m == ToolCall(<<t, calls[t] + 1>>, tool)
  <2>1. AppendMessage(s, m) /\ m \in Messages /\ m # Prompt(t)
    BY <1>7, PlanTyped, MessageTypes
    DEF PlanCall, AppendToolCall, ChatInv, ToolCall, Prompt
  <2>2. /\ tpc'[t] = "route" /\ tpc[t] = "decide" /\ last[t].kind = "user"
        /\ call'[t].tool = tool
    BY <1>7 DEF PlanCall, PlansTool, Goto, ChatInv, ChatTypes
  <2>3. i \in DOMAIN messages[s] /\ Len(messages'[s]) = n + 1
    <3> HIDE DEF m
    <3> QED
      BY <1>3, <2>1
  <2>4. ASSUME Alone(t, i, n + 1)' PROVE tool = PromptTool[t]
    <3>1. Concerns(t, last[t])
      <4> HIDE DEF m
      <4> QED
        BY <1>2, <2>1, <2>2, <2>3, <2>4 DEF UndisturbedFrom
    <3>2. last[t] = Prompt(t)
      BY <2>2, <3>1 DEF Concerns
    <3> QED
      BY <3>2 DEF Prompt
  <2> HIDE DEF tool, m
  <2> QED
    BY <2>2, <2>3, <2>4 DEF UndisturbedFrom
<1>8. CASE RouteServer(t) \/ CallSucceeds(t)
  <2> PICK c \in Calls, tool \in Tools :
              /\ c = call[t].id /\ tool = call[t].tool
              /\ c[1] = t
              /\ tpc[t] \in {"route", "await"}
              /\ \E result \in [id : Calls, output : Outputs \cup {ServerOutput}] :
                    Continue(t, result)
    BY <1>8, ContinueTyped DEF ChatInv
  <2> PICK result \in [id : Calls, output : Outputs \cup {ServerOutput}] :
              Continue(t, result)
    OBVIOUS
  <2> DEFINE m == ToolResult(c, tool, result)
  <2>1. AppendMessage(s, m) /\ m \in Messages /\ m # Prompt(t)
    BY MessageTypes DEF Continue, AppendToolResult, ToolResult, Prompt
  <2>2. tpc'[t] = "loop"
    BY DEF Continue, Goto, ChatInv, ChatTypes
  <2>3. m.kind = "result" /\ m.id = c
    BY DEF ToolResult
  <2> HIDE DEF m
  <2>4. /\ i \in DOMAIN messages[s] /\ Len(messages'[s]) = n + 1
        /\ messages'[s][n + 1] = m
    BY <1>3, <2>1
  <2>5. ASSUME Alone(t, i, n + 1)' PROVE Concerns(t, m)'
    <3>1. tool = PromptTool[t]
      BY <1>2, <2>1, <2>4, <2>5 DEF UndisturbedFrom
    <3>2. ToolCall(c, tool) \in Transcript(s)
      BY DEF ChatInv, HeldLogged
    <3>3. Concerns(t, m)
      BY <2>1, <2>3, <3>1, <3>2 DEF Concerns
    <3> QED
      BY <1>0, <2>1, <3>3, ConcernsStays
  <2> QED
    BY <2>2, <2>4, <2>5 DEF UndisturbedFrom
<1>9. CASE RouteClient(t)
  <2>1. /\ messages' = messages /\ tpc'[t] = "await" /\ tpc[t] = "route"
        /\ call' = call
    BY <1>9 DEF RouteClient, Goto, ChatInv, ChatTypes, session
  <2>2. ASSUME Alone(t, i, n)' PROVE call[t].tool = PromptTool[t]
    BY <1>2, <2>1, <2>2 DEF UndisturbedFrom
  <2> QED
    BY <2>1, <2>2 DEF UndisturbedFrom
<1>10. CASE DepthExceeded(t) \/ Respond(t) \/ CallFails(t)
  <2>1. tpc'[t] \in {"done", "failed"}
    BY <1>10 DEF DepthExceeded, Respond, CallFails, Goto, ChatInv, ChatTypes
  <2> QED
    BY <2>1 DEF UndisturbedFrom
<1>11. CASE /\ tpc'[t] = tpc[t] /\ last'[t] = last[t]
            /\ call'[t] = call[t]
            /\ \/ messages'[s] = messages[s]
               \/ \E m \in Messages : ~Mine(t, m) /\ AppendMessage(s, m)
  <2> PICK seen : seen = last[t]
    OBVIOUS
  <2> PICK end : end = messages[s][n]
    OBVIOUS
  <2>1. /\ i \in DOMAIN messages[s] /\ n >= 1
        /\ \/ messages'[s] = messages[s]
           \/ Len(messages'[s]) = n + 1 /\ n + 1 \notin OwnTo(s, t)'
    <3>1. CASE messages'[s] = messages[s]
      BY <1>1, <3>1
    <3>2. ASSUME NEW m \in Messages, ~Mine(t, m), AppendMessage(s, m)
          PROVE  /\ i \in DOMAIN messages[s] /\ n >= 1
                 /\ Len(messages'[s]) = n + 1 /\ n + 1 \notin OwnTo(s, t)'
      <4>1. m # Prompt(t)
        BY <3>2 DEF Mine, Prompt
      <4>2. n + 1 \notin OwnTo(s, t)'
        BY <1>0, <3>2, OwnAppended
      <4> QED
        BY <1>1, <1>3, <3>2, <4>1, <4>2
    <3> QED
      BY <1>11, <3>1, <3>2
  <2>2. \/ messages'[s] = messages[s]
        \/ \E m \in Messages : AppendMessage(s, m)
    BY <1>11
  <2>3. ASSUME NEW k \in {n - 1, n}, NEW l \in {k, k + 1}, Alone(t, i, l)'
        PROVE  UndisturbedFrom(t, i) /\ Alone(t, i, k)
    BY <1>2, <2>1, <2>2, <2>3
  <2>4. Len(messages'[s]) \in {n, n + 1}
    BY <2>1
  <2>5. ASSUME NEW m, Concerns(t, m) PROVE Concerns(t, m)'
    BY <1>0, <2>2, <2>5, ConcernsStays
  <2>6. ASSUME tpc[t] = "loop", NEW l \in {n, n + 1}, l = Len(messages'[s]),
               Alone(t, i, l)'
        PROVE  Concerns(t, end)' /\ messages'[s][l] = end
    <3>1. messages'[s] = messages[s]
      <4>1. n + 1 \in i .. n + 1
        BY <1>1, <2>1
      <4> QED
        BY <2>1, <2>6, <4>1 DEF Alone
    <3>2. Concerns(t, end)
      BY <2>3, <2>6, <3>1 DEF UndisturbedFrom
    <3> QED
      BY <2>5, <2>6, <3>1, <3>2
  <2>7. ASSUME tpc[t] = "decide", NEW l \in {n, n + 1}, Alone(t, i, l)'
        PROVE  Concerns(t, seen)'
    <3>1. Concerns(t, seen)
      BY <2>3, <2>7 DEF UndisturbedFrom
    <3> QED
      BY <2>5, <3>1
  <2>8. ASSUME tpc[t] \in {"route", "await"}, NEW l \in {n, n + 1},
               Alone(t, i, l)'
        PROVE  call'[t].tool = PromptTool[t]
    BY <1>11, <2>3, <2>8 DEF UndisturbedFrom
  <2>9. ASSUME tpc[t] = "reply", NEW l \in {n - 1, n}, Alone(t, i, l)'
        PROVE  Concerns(t, seen)'
    <3>1. Concerns(t, seen)
      BY <2>3, <2>9 DEF UndisturbedFrom
    <3> QED
      BY <2>5, <3>1
  <2>10. PICK l \in {n, n + 1} : l = Len(messages'[s]) /\ l - 1 \in {n - 1, n}
    BY <2>4
  <2> QED
    BY <1>11, <2>6, <2>7, <2>8, <2>9, <2>10 DEF UndisturbedFrom
<1>12. \/ HandleUserMessage(t) \/ TurnStep(t)
       \/ /\ tpc'[t] = tpc[t] /\ last'[t] = last[t]
          /\ call'[t] = call[t]
          /\ \/ messages'[s] = messages[s]
             \/ \E m \in Messages : ~Mine(t, m) /\ AppendMessage(s, m)
  BY OwnStepOrNot
<1> HIDE DEF s
<1> QED
  BY <1>4, <1>5, <1>6, <1>7, <1>8, <1>9, <1>10, <1>11, <1>12 DEF TurnStep

\* An answer is given for what the turn decided on, and stays as it is.
LEMMA AnsweredStep ==
    ASSUME ChatInv, ResponseTyped, SpentInv, [Next]_vars, NEW t \in Turns,
           Undisturbed(t), Answered(t)
    PROVE  Answered(t)'
<1> DEFINE s == TurnSession[t]
<1>0. messages \in [Sessions -> Seq(Messages)] /\ s \in Sessions
  BY ChatAssumption DEF ChatInv, ChatTypes
<1>1. /\ messages[s] \in Seq(Messages) /\ Len(messages[s]) \in Nat
      /\ DOMAIN messages[s] = 1 .. Len(messages[s])
  BY <1>0
<1> PICK n \in Nat : n = Len(messages[s])
  BY <1>1
<1>2. CASE Respond(t)
  <2> PICK m : m = last[t]
    OBVIOUS
  <2>1. /\ messages' = messages /\ tpc[t] = "reply"
        /\ response'[t] = [about |-> Subject(m), transcript |-> messages[s]]
    BY <1>2 DEF Respond, session, ResponseTyped
  <2>2. \E i \in 1 .. n : messages[s][i] = Prompt(t)
    BY <1>1, <2>1 DEF SpentInv, Spent
  <2>3. ASSUME NEW i \in 1 .. n, messages[s][i] = Prompt(t), Alone(t, i, n - 1)'
        PROVE  Concerns(t, m)'
    <3>1. i \in DOMAIN messages[s] /\ n - 1 \in Nat /\ n - 1 <= n
      BY <1>1
    <3>2. Alone(t, i, n - 1)
      BY <1>0, <2>1, <2>3, <3>1, AloneBefore
    <3>3. Concerns(t, m)
      BY <2>1, <2>3, <3>1, <3>2 DEF Undisturbed, UndisturbedFrom
    <3> QED
      BY <1>0, <2>1, <3>3, ConcernsStays
  <2> QED
    BY <1>1, <2>1, <2>2, <2>3 DEF Answered, Prompt
<1>3. ASSUME tpc'[t] = tpc[t], response'[t] = response[t],
             \/ messages'[s] = messages[s]
             \/ \E m \in Messages : AppendMessage(s, m)
      PROVE  Answered(t)'
  <2> SUFFICES ASSUME tpc[t] = "done" PROVE Answered(t)'
    BY <1>3 DEF Answered
  <2> PICK answer : answer = response[t]
    OBVIOUS
  <2>1. /\ answer.transcript \in Seq(Messages)
        /\ Len(answer.transcript) <= n
        /\ \A j \in 1 .. Len(answer.transcript) :
              answer.transcript[j] = messages[s][j]
        /\ \E i \in 1 .. Len(answer.transcript) : messages[s][i] = Prompt(t)
        /\ \A i \in 1 .. Len(answer.transcript) :
              messages[s][i] = Prompt(t)
                 /\ Alone(t, i, Len(answer.transcript) - 1)
              => \E m : Concerns(t, m) /\ answer.about = Subject(m)
    BY DEF Answered
  <2> PICK k \in Nat : k = Len(answer.transcript) /\ k <= n
    BY <2>1
  <2>2. /\ Len(messages'[s]) \in {n, n + 1}
        /\ \A j \in 1 .. n : messages'[s][j] = messages[s][j]
    BY <1>0, <1>3, Longer
  <2>3. k <= Len(messages'[s])
    BY <2>1, <2>2
  <2>4. \A j \in 1 .. k : messages'[s][j] = messages[s][j]
    BY <2>1, <2>2
  <2>5. ASSUME NEW i \in 1 .. k, messages'[s][i] = Prompt(t), Alone(t, i, k - 1)'
        PROVE  \E m : Concerns(t, m)' /\ answer.about = Subject(m)
    <3>1. i \in DOMAIN messages[s]
      BY <1>1
    <3> PICK h : h = k - 1
      OBVIOUS
    <3> h \in Nat /\ h <= n
      OBVIOUS
    <3>2. /\ h <= h /\ h <= Len(messages[s])
          /\ messages'[s][i] = Prompt(t) /\ Alone(t, i, h)'
      BY <2>5
    <3>3. messages[s][i] = Prompt(t) /\ Alone(t, i, h)
      BY <1>0, <1>3, <3>1, <3>2, AloneBefore
    <3>4. PICK m : Concerns(t, m) /\ answer.about = Subject(m)
      BY <2>1, <3>3
    <3>5. Concerns(t, m)'
      BY <1>0, <1>3, <3>4, ConcernsStays
    <3> QED
      BY <3>4, <3>5
  <2> QED
    BY <1>3, <2>1, <2>3, <2>4, <2>5 DEF Answered, Prompt
<1>4. CASE tpc'[t] # "done"
  BY <1>4 DEF Answered
<1>5. ASSUME TurnStep(t) \/ HandleUserMessage(t), ~Respond(t)
      PROVE  tpc'[t] # "done"
  BY <1>5
  DEF TurnStep, HandleUserMessage, Snapshot, DepthExceeded, AppendReply, PlanCall,
      RouteServer, RouteClient, CallSucceeds, CallFails, Continue, Goto, ChatInv,
      ChatTypes
<1>6. \/ HandleUserMessage(t) \/ TurnStep(t)
      \/ /\ tpc'[t] = tpc[t] /\ response'[t] = response[t]
         /\ \/ messages'[s] = messages[s]
            \/ \E m \in Messages : AppendMessage(s, m)
  BY OwnStepOrNot
<1> HIDE DEF s
<1> QED
  BY <1>2, <1>3, <1>4, <1>5, <1>6

\* The invariant of turns always holds.
LEMMA TurnInvariant == Spec => []TurnInv
<1>1. Init => TurnInv
  <2> SUFFICES ASSUME Init PROVE TurnInv
    OBVIOUS
  <2> USE ChatAssumption DEF Init
  <2>1. ResponseTyped
    BY DEF ResponseTyped
  <2>2. SpentInv
    BY DEF SpentInv
  <2>3. \A t \in Turns : DOMAIN messages[TurnSession[t]] = {}
    OBVIOUS
  <2>4. \A t \in Turns : Undisturbed(t) /\ Answered(t)
    BY <2>3 DEF Undisturbed, Answered
  <2> QED
    BY <2>1, <2>2, <2>4 DEF TurnInv
<1>2. ChatInv /\ TurnInv /\ [Next]_vars => TurnInv'
  BY ResponseStep, SpentStep, UndisturbedStep, AnsweredStep DEF TurnInv
<1> QED
  BY <1>1, <1>2, ChatInvariant, PTL DEF Spec

-----------------------------------------------------------------------------
(* The theorems.                                                           *)

\* Whatever the bound of the loop, a turn that exceeds it has at least as many
\* prompts of other turns behind its own, but one.
THEOREM DepthTakesOthers == Spec => []DepthSuffices
<1>1. ChatInv /\ TurnInv => DepthSuffices
  <2> SUFFICES ASSUME ChatInv, TurnInv, NEW t \in Turns, response[t] = TooDeep
               PROVE  LET M == messages[TurnSession[t]] IN
                      \E i \in DOMAIN M :
                          /\ M[i] = Prompt(t)
                          /\ Cardinality({j \in i + 1 .. Len(M) :
                                 M[j].kind = "user"}) >= MaxSteps - 1
    BY DEF DepthSuffices
  <2>1. PICK i \in Nat, p \in Nat : Spent(t, i, p)
    BY DEF TurnInv, SpentInv
  <2>2. /\ Len(messages[TurnSession[t]]) \in Nat
        /\ MaxSteps \in Nat
    BY ChatAssumption, Longer DEF ChatInv, ChatTypes
  <2> PICK n \in Nat : n = Len(messages[TurnSession[t]])
    BY <2>2
  <2>3. /\ i \in DOMAIN messages[TurnSession[t]] /\ p <= n
        /\ messages[TurnSession[t]][i] = Prompt(t)
        /\ MaxSteps <= Cardinality(Others(t, i, p)) + 1
    BY <2>1 DEF Spent
  <2>4. /\ Cardinality(Others(t, i, p)) <= Cardinality(Others(t, i, n))
        /\ Cardinality(Others(t, i, p)) \in Nat
        /\ Cardinality(Others(t, i, n)) \in Nat
    BY <2>3, OthersMonotone, OthersFinite
  <2>5. Cardinality(Others(t, i, n)) >= MaxSteps - 1
    BY <2>2, <2>3, <2>4
  <2> QED
    BY <2>3, <2>5 DEF Others
<1> QED
  BY <1>1, ChatInvariant, TurnInvariant, PTL

\* A turn that nobody disturbs answers its own prompt, with its own tool.
THEOREM TurnsAnswerOwn == Spec => []UndisturbedAnswersOwn
<1>1. ChatInv /\ TurnInv => UndisturbedAnswersOwn
  <2> SUFFICES ASSUME ChatInv, TurnInv, NEW t \in Turns, tpc[t] = "done",
                      NEW posted,
                      posted = CHOOSE i \in DOMAIN response[t].transcript :
                                   response[t].transcript[i] = Prompt(t),
                      posted .. Len(response[t].transcript) - 1
                         \subseteq OwnTo(TurnSession[t], t)
               PROVE  \/ response[t].about = t
                      \/ /\ response[t].about \in Calls
                         /\ response[t].about[1] = t
                         /\ ToolCall(response[t].about, PromptTool[t])
                               \in Transcript(TurnSession[t])
    BY DEF UndisturbedAnswersOwn
  <2> DEFINE transcript == response[t].transcript
  <2>1. Answered(t)
    BY DEF TurnInv
  <2>2. /\ transcript \in Seq(Messages)
        /\ DOMAIN transcript = 1 .. Len(transcript)
    BY <2>1 DEF Answered
  <2>3. \E i \in DOMAIN transcript : transcript[i] = Prompt(t)
    BY <2>1, <2>2 DEF Answered
  <2>4. posted \in DOMAIN transcript /\ transcript[posted] = Prompt(t)
    BY <2>3
  <2>5. PICK m : Concerns(t, m) /\ response[t].about = Subject(m)
    BY <2>1, <2>2, <2>4 DEF Answered, Alone
  <2>6. CASE m = Prompt(t)
    BY <2>5, <2>6 DEF Subject, Prompt
  <2>7. CASE m # Prompt(t)
    <3>1. /\ m \in Messages /\ m.kind = "result" /\ m.id[1] = t
          /\ ToolCall(m.id, PromptTool[t]) \in Transcript(TurnSession[t])
      BY <2>5, <2>7 DEF Concerns
    <3>2. Subject(m) = m.id /\ m.id \in Calls
      BY <3>1, MessageFields DEF Subject
    <3> QED
      BY <2>5, <3>1, <3>2
  <2> QED
    BY <2>6, <2>7
<1> QED
  BY <1>1, ChatInvariant, TurnInvariant, PTL

-----------------------------------------------------------------------------
(* The end of a turn: what TurnsEnd needs beside fairness.                 *)

\* A turn that routes a call has yet to ask the bridge for it, and one that
\* awaits a call has asked: it never waits for a call the bridge has not heard
\* of, and never asks twice.
AskedOnce ==
    \A t \in Turns :
        /\ tpc[t] = "route" => phase[call[t].id] = "idle"
        /\ tpc[t] = "await" => phase[call[t].id] # "idle"

\* The steps that a turn has before it, at most.
Fuel(t) ==
    5 * (MaxSteps - step[t])
        + CASE tpc[t] = "new"               -> 5
            [] tpc[t] = "loop"              -> 4
            [] tpc[t] = "decide"            -> 3
            [] tpc[t] \in {"route", "reply"} -> 2
            [] tpc[t] = "await"             -> 1
            [] OTHER                        -> 0

\* Whatever is done to the sessions and the bridge, a step of a turn uses some
\* of it up, and no step gives any back.
FuelBurns ==
    [][\A t \in Turns :
          IF tpc'[t] = tpc[t] THEN Fuel(t)' = Fuel(t) ELSE Fuel(t)' < Fuel(t)]_vars

\* The bridge knows only calls that were made, and not the one being routed.
CallsKnown ==
    \A c \in Calls : phase[c] # "idle" =>
        /\ c[2] <= calls[c[1]]
        /\ tpc[c[1]] = "route" => c[2] # calls[c[1]]

\* Every step keeps what the bridge knows behind what turns have asked.
LEMMA KnownStep ==
    ChatInv /\ CallsKnown /\ AskedOnce /\ [Next]_vars => CallsKnown' /\ AskedOnce'
<1> SUFFICES ASSUME ChatInv, CallsKnown, AskedOnce, [Next]_vars
             PROVE  CallsKnown' /\ AskedOnce'
  OBVIOUS
<1> USE ChatAssumption
<1>0. ChatTypes /\ Control
  BY DEF ChatInv
<1>1. \A c \in Calls : c[1] \in Turns /\ c[2] \in Nat
  BY DEF Calls
<1>2. ASSUME phase' = phase, calls' = calls, call' = call,
             \A t \in Turns : /\ tpc'[t] = "route" => tpc[t] = "route"
                              /\ tpc'[t] = "await" => tpc[t] = "await"
      PROVE  CallsKnown' /\ AskedOnce'
  BY <1>1, <1>2 DEF CallsKnown, AskedOnce
<1>3. ASSUME NEW t \in Turns, RouteClient(t) PROVE CallsKnown' /\ AskedOnce'
  <2> DEFINE d == call[t].id
  <2>1. d \in Calls /\ d = <<t, calls[t]>> /\ tpc[t] = "route"
    BY <1>0, <1>3 DEF RouteClient, Control
  <2>2. /\ phase' = [phase EXCEPT ![d] = "open"]
           \/ phase' = [phase EXCEPT ![d] = "returned"]
        /\ tpc' = [tpc EXCEPT ![t] = "await"]
        /\ UNCHANGED <<call, calls>>
    BY <1>3 DEF RouteClient, Goto, Remote!Request, Remote!Refuse, Remote!Return
  <2> HIDE DEF d
  <2>3. \A c \in Calls : phase'[c] # "idle" => phase[c] # "idle" \/ c = d
    BY <1>0, <2>2 DEF ChatTypes
  <2>4. phase'[d] # "idle"
    BY <1>0, <2>1, <2>2 DEF ChatTypes
  <2>5. \A u \in Turns : tpc'[u] = IF u = t THEN "await" ELSE tpc[u]
    BY <1>0, <2>2 DEF ChatTypes
  <2>6. CallsKnown'
    BY <1>0, <1>1, <2>1, <2>2, <2>3, <2>5 DEF CallsKnown, ChatTypes
  <2>7. AskedOnce'
    <3> SUFFICES ASSUME NEW u \in Turns
                 PROVE  /\ tpc'[u] = "route" => phase'[call[u].id] = "idle"
                        /\ tpc'[u] = "await" => phase'[call[u].id] # "idle"
      BY <2>2 DEF AskedOnce
    <3>1. CASE u = t
      BY <2>4, <2>5, <3>1 DEF d
    <3>2. CASE u # t
      <4>1. tpc[u] \in {"route", "await"} =>
               call[u].id \in Calls /\ call[u].id # d
        BY <1>0, <2>1, <3>2 DEF Control
      <4> QED
        BY <1>0, <2>2, <2>5, <3>2, <4>1 DEF AskedOnce, ChatTypes
    <3> QED
      BY <3>1, <3>2
  <2> QED
    BY <2>6, <2>7
<1>4. ASSUME NEW t \in Turns, PlanCall(t) PROVE CallsKnown' /\ AskedOnce'
  <2> DEFINE new == <<t, calls[t] + 1>>
  <2>1. PICK tool : /\ call' = [call EXCEPT ![t] = [id |-> new, tool |-> tool]]
                    /\ calls' = [calls EXCEPT ![t] = @ + 1]
                    /\ tpc' = [tpc EXCEPT ![t] = "route"]
                    /\ phase' = phase
                    /\ tpc[t] = "decide"
    BY <1>4 DEF PlanCall, Goto, bridge
  <2>2. calls[t] \in Nat /\ calls[t] + 1 \in 1 .. MaxSteps /\ new \in Calls
    BY <1>0, <2>1 DEF ChatTypes, Control, Calls
  <2>3. phase[new] = "idle"
    <3> SUFFICES ASSUME phase[new] # "idle" PROVE FALSE
      OBVIOUS
    <3>1. calls[t] + 1 <= calls[t]
      BY <2>2 DEF CallsKnown
    <3> QED
      BY <2>2, <3>1
  <2>4. CallsKnown'
    <3> SUFFICES ASSUME NEW c \in Calls, phase[c] # "idle"
                 PROVE  /\ c[2] <= calls'[c[1]]
                        /\ tpc'[c[1]] = "route" => c[2] # calls'[c[1]]
      BY <2>1 DEF CallsKnown
    <3>1. /\ c[1] \in Turns /\ c[2] \in Nat /\ c[2] <= calls[c[1]]
          /\ calls[c[1]] \in Nat
      BY <1>0, <1>1 DEF CallsKnown, ChatTypes
    <3>2. CASE c[1] = t
      BY <1>0, <2>1, <3>1, <3>2 DEF ChatTypes
    <3>3. CASE c[1] # t
      BY <1>0, <2>1, <3>1, <3>3 DEF ChatTypes, CallsKnown
    <3> QED
      BY <3>2, <3>3
  <2>5. AskedOnce'
    <3>1. \A u \in Turns : /\ call'[u].id = IF u = t THEN new ELSE call[u].id
                           /\ tpc'[u] = IF u = t THEN "route" ELSE tpc[u]
      BY <1>0, <2>1 DEF ChatTypes
    <3> HIDE DEF new
    <3> QED
      BY <2>1, <2>3, <3>1 DEF AskedOnce
  <2> QED
    BY <2>4, <2>5
<1>5. ASSUME NEW t \in Turns, TurnStep(t) PROVE CallsKnown' /\ AskedOnce'
  <2>1. CASE Snapshot(t) \/ DepthExceeded(t) \/ AppendReply(t) \/ Respond(t)
    BY <1>0, <1>2, <2>1
    DEF Snapshot, DepthExceeded, AppendReply, Respond, Goto, bridge, ChatTypes
  <2>2. CASE RouteServer(t) \/ CallSucceeds(t) \/ CallFails(t)
    BY <1>0, <1>2, <2>2
    DEF RouteServer, CallSucceeds, CallFails, Continue, Goto, bridge, ChatTypes
  <2> QED
    BY <1>3, <1>4, <1>5, <2>1, <2>2 DEF TurnStep
<1>6. ASSUME NEW t \in Turns, HandleUserMessage(t) PROVE CallsKnown' /\ AskedOnce'
  BY <1>0, <1>2, <1>6 DEF HandleUserMessage, Goto, bridge, ChatTypes
<1>7. ASSUME NEW t \in Turns, GiveUp(t) PROVE CallsKnown' /\ AskedOnce'
  BY <1>2, <1>7 DEF GiveUp, Remote!Abandon, turn
<1>8. CASE BridgeStep
  <2>1. \A c \in Calls : phase'[c] # "idle" <=> phase[c] # "idle"
    BY <1>0, <1>8 DEF BridgeStep, Remote!Attach, Remote!Detach, Remote!Answer,
       Remote!ReturnAnswer, Remote!ReturnRevoked, Remote!ReturnAbandoned,
       Remote!Return, ChatTypes
  <2>2. UNCHANGED <<tpc, call, calls>>
    BY <1>8 DEF BridgeStep, turn
  <2>3. \A t \in Turns : tpc[t] \in {"route", "await"} => call[t].id \in Calls
    BY <1>0 DEF Control
  <2> QED
    BY <1>1, <2>1, <2>2, <2>3 DEF CallsKnown, AskedOnce
<1>9. CASE UNCHANGED vars
  BY <1>2, <1>9 DEF vars, turn, bridge
<1> QED
  BY <1>5, <1>6, <1>7, <1>8, <1>9 DEF Next

\* A turn never waits for a call the bridge has not been asked for.
THEOREM TurnsAskOnce == Spec => []AskedOnce
<1>1. Init => CallsKnown /\ AskedOnce
  BY DEF Init, Remote!Init, CallsKnown, AskedOnce
<1> QED
  BY <1>1, KnownStep, ChatInvariant, PTL DEF Spec

\* A turn takes no more than 5 * MaxSteps + 5 steps.
THEOREM TurnsRunOut == Spec => [](\A t \in Turns : Fuel(t) \in Nat) /\ FuelBurns
<1>1. ChatInv => \A t \in Turns : Fuel(t) \in Nat
  BY ChatAssumption DEF ChatInv, ChatTypes, Fuel
<1>2. ChatInv /\ [Next]_vars =>
         [\A t \in Turns : IF tpc'[t] = tpc[t] THEN Fuel(t)' = Fuel(t)
                           ELSE Fuel(t)' < Fuel(t)]_vars
  <2> SUFFICES ASSUME ChatInv, [Next]_vars, NEW t \in Turns
               PROVE  IF tpc'[t] = tpc[t] THEN Fuel(t)' = Fuel(t)
                      ELSE Fuel(t)' < Fuel(t)
    OBVIOUS
  <2>0. ChatTypes /\ MaxSteps \in Nat
    BY ChatAssumption DEF ChatInv
  <2>1. ASSUME tpc'[t] = tpc[t], step'[t] = step[t] PROVE Fuel(t)' = Fuel(t)
    BY <2>1 DEF Fuel
  <2>2. ASSUME NEW u \in Turns, TurnStep(u), u # t
        PROVE  tpc'[t] = tpc[t] /\ step'[t] = step[t]
    BY <2>0, <2>2 DEF TurnStep, Snapshot, DepthExceeded, AppendReply, Respond,
       PlanCall, RouteServer, RouteClient, CallSucceeds, CallFails, Continue,
       Goto, ChatTypes
  <2>3. ASSUME TurnStep(t) PROVE tpc'[t] # tpc[t] /\ Fuel(t)' < Fuel(t)
    <3>1. CASE RouteServer(t) \/ CallSucceeds(t)
      BY <2>0, <3>1 DEF RouteServer, CallSucceeds, Continue, Goto, ChatTypes, Fuel
    <3>2. CASE ~(RouteServer(t) \/ CallSucceeds(t))
      BY <2>0, <2>3, <3>2 DEF TurnStep, Snapshot, DepthExceeded, AppendReply,
         Respond, PlanCall, RouteClient, CallFails, Goto, ChatTypes, Fuel
    <3> QED
      BY <3>1, <3>2
  <2>4. ASSUME NEW u \in Turns, HandleUserMessage(u)
        PROVE  IF tpc'[t] = tpc[t] THEN Fuel(t)' = Fuel(t)
               ELSE Fuel(t)' < Fuel(t)
    BY <2>0, <2>4 DEF HandleUserMessage, Goto, ChatTypes, Fuel
  <2>5. CASE (\E u \in Turns : GiveUp(u)) \/ BridgeStep \/ UNCHANGED vars
    BY <2>1, <2>5 DEF GiveUp, BridgeStep, vars, turn
  <2> QED
    BY <2>1, <2>2, <2>3, <2>4, <2>5 DEF Next
<1> QED
  BY <1>1, <1>2, ChatInvariant, PTL DEF Spec, FuelBurns
=============================================================================
