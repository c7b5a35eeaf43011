---------------------------- MODULE DemoPageProofs ----------------------------
(***************************************************************************)
(* Proofs about DemoPage, for any number of pages, prompts and tools and   *)
(* any number of restarts of the backend.                                  *)
(***************************************************************************)
EXTENDS DemoPage, SequenceTheorems, TLAPS

Live == {"begun", "planned", "replied"}

\* A handler holds what it needs to answer.
HandlerHolds ==
    /\ \A m \in Prompts : at[message(m)] \in Live
          => turn[m] \in Pages /\ url[message(m)] \in Nat \ {0}
    /\ \A p \in Pages : at[create(p)] = "stored"
          => url[create(p)] \in Nat \ {0}

Typed == TypeOK /\ HandlerHolds

\* The names of fetches are fetches, and different ones.
LEMMA FetchNames ==
    /\ \A p \in Pages : create(p) \in Fetches /\ refresh(p) \in Fetches
    /\ \A m \in Prompts : message(m) \in Fetches
    /\ \A f \in Fetches : \/ \E p \in Pages : f = create(p) \/ f = refresh(p)
                          \/ \E m \in Prompts : f = message(m)
    /\ \A p, q : create(p) # refresh(q)
    /\ \A p, m : create(p) # message(m) /\ refresh(p) # message(m)
    /\ \A p, q : create(p) = create(q) => p = q
    /\ \A p, q : refresh(p) = refresh(q) => p = q
    /\ \A m, n : message(m) = message(n) => m = n
  BY DEF create, refresh, message, Fetches

\* What is under way are fetches.
LEMMA UnderWayFetches == \A p \in Pages : UnderWay(p) \in SUBSET Fetches
  BY FetchNames DEF UnderWay

\* The store hands out a page for every identifier it knows.
LEMMA LookupTyped ==
    ASSUME TypeOK, NEW id \in DOMAIN sessions
    PROVE  id \in Nat \ {0} /\ sessions[id] \in Pages
<1>1. nextID \in Nat /\ DOMAIN sessions = 1 .. nextID
  BY DEF TypeOK
<1>2. sessions[id] \in Pages
  BY DEF TypeOK
<1> QED
  BY <1>1, <1>2

\* Create adds the next one.
LEMMA CreateTyped ==
    ASSUME TypeOK, NEW p \in Pages, Create(p)
    PROVE  /\ nextID' = nextID + 1
           /\ nextID' \in Nat \ {0}
           /\ DOMAIN sessions' = 1 .. nextID'
           /\ sessions'[nextID'] = p
           /\ \A id \in DOMAIN sessions : sessions'[id] = sessions[id]
           /\ \A id \in DOMAIN sessions' : id \in DOMAIN sessions \/ id = nextID'
           /\ DOMAIN sessions \subseteq DOMAIN sessions'
           /\ \A id \in DOMAIN sessions' : sessions'[id] \in Pages
           /\ UNCHANGED <<tools, messages>>
<1>1. nextID \in Nat /\ DOMAIN sessions = 1 .. nextID
  BY DEF TypeOK
<1>2. \A id \in DOMAIN sessions : sessions[id] \in Pages
  BY DEF TypeOK
<1>3. /\ nextID' = nextID + 1
      /\ sessions' = [id \in DOMAIN sessions \cup {nextID + 1} |->
                         IF id = nextID + 1 THEN p ELSE sessions[id]]
      /\ UNCHANGED <<tools, messages>>
  BY DEF Create
<1>4. DOMAIN sessions' = 1 .. nextID'
  BY <1>1, <1>3
<1>5. \A id \in DOMAIN sessions : id # nextID + 1
  BY <1>1
<1> QED
  BY <1>1, <1>2, <1>3, <1>4, <1>5

\* Before the pages start nothing is under way.
LEMMA TypedInit == Init => Typed
<1> SUFFICES ASSUME Init PROVE Typed
  OBVIOUS
<1> USE PageAssumption
<1>1. TypeOK
  BY DEF Init, StoreInit, TypeOK
<1>2. HandlerHolds
  BY FetchNames DEF Init, HandlerHolds, Live
<1> QED
  BY <1>1, <1>2 DEF Typed

\* What a page does keeps the types.
LEMMA TypedPage ==
    ASSUME Typed, NEW p \in Pages, PageStep(p)
    PROVE  Typed'
<1> USE PageAssumption, FetchNames
    DEF Typed, TypeOK, HandlerHolds, Live, Set, store, life
<1>1. CASE start(p)
  BY <1>1 DEF start, Send
<1>2. CASE SessionCreated(p)
  BY <1>2 DEF SessionCreated, Settle, End, Answered
<1>3. CASE CreateFails(p)
  BY <1>3 DEF CreateFails, Settle, End
<1>4. CASE Connected(p)
  BY <1>4 DEF Connected, Send, Snapshots
<1>5. CASE ConnectFails(p)
  BY <1>5 DEF ConnectFails, request
<1>6. CASE SocketCloses(p)
  BY <1>6 DEF SocketCloses, request
<1>7. CASE Refreshed(p)
  BY <1>7 DEF Refreshed, Settle, End, Answered
<1>8. CASE RefreshFails(p)
  BY <1>8 DEF RefreshFails, Settle, End
<1>9. CASE destroy(p)
  <2>1. UnderWay(p) \in SUBSET Fetches
    BY UnderWayFetches
  <2> HIDE DEF HandlerHolds
  <2>2. TypeOK'
    BY <1>9, <2>1 DEF destroy, request
  <2>3. HandlerHolds'
    BY <1>9 DEF destroy, request, HandlerHolds
  <2> QED
    BY <2>2, <2>3
<1>10. ASSUME NEW m \in Prompts, sendPrompt(p, m) PROVE Typed'
  BY <1>10 DEF sendPrompt, Send, Snapshots
<1> QED
  BY <1>1, <1>2, <1>3, <1>4, <1>5, <1>6, <1>7, <1>8, <1>9, <1>10 DEF PageStep

\* Nor does a response to a prompt ...
LEMMA TypedRespondent ==
    ASSUME Typed, NEW m \in Prompts, Respondent(m)
    PROVE  Typed'
<1> USE PageAssumption, FetchNames
    DEF Typed, TypeOK, HandlerHolds, Live, Set, store, life, page, Settle, End
<1>1. CASE PromptAnswered(m)
  BY <1>1 DEF PromptAnswered, Answered
<1>2. CASE PromptErrored(m)
  BY <1>2 DEF PromptErrored
<1>3. CASE PromptLost(m)
  BY <1>3 DEF PromptLost
<1> QED
  BY <1>1, <1>2, <1>3 DEF Respondent

\* A snapshot is one.
LEMMA SnapshotTyped ==
    ASSUME TypeOK, NEW id \in Nat \ {0}, NEW c \in Pages
    PROVE  Snapshot(id, c) \in Snapshots
  BY DEF TypeOK, Snapshot, Snapshots

\* A message that is appended to a transcript leaves it one.
LEMMA MessageAppended ==
    ASSUME TypeOK, NEW c \in Pages, NEW kind \in {"user", "reply"},
           NEW m \in Prompts, AppendMessage(c, [kind |-> kind, of |-> m])
    PROVE  /\ messages' \in [Pages -> Seq([kind : {"user", "reply"}, of : Prompts])]
           /\ UNCHANGED <<nextID, sessions, tools>>
<1> DEFINE M == [kind : {"user", "reply"}, of : Prompts]
<1>1. [kind |-> kind, of |-> m] \in M
  OBVIOUS
<1>2. messages \in [Pages -> Seq(M)]
  BY DEF TypeOK
<1>3. /\ messages' = [messages EXCEPT
                       ![c] = Append(messages[c], [kind |-> kind, of |-> m])]
      /\ UNCHANGED <<nextID, sessions, tools>>
  BY DEF AppendMessage
<1> HIDE DEF M
<1>4. messages' \in [Pages -> Seq(M)]
  BY <1>1, <1>2, <1>3
<1> QED
  BY <1>3, <1>4 DEF M

\* ... a handler of sessions ...
LEMMA TypedHandlers ==
    ASSUME Typed, NEW p \in Pages, Handlers(p)
    PROVE  Typed'
<1> USE PageAssumption, FetchNames
    DEF Typed, TypeOK, HandlerHolds, Live, InHandler, Set, store, life, page,
        request
<1>1. CASE CreateSession(p)
  <2>1. /\ nextID' \in Nat \ {0}
        /\ DOMAIN sessions' = 1 .. nextID'
        /\ \A id \in DOMAIN sessions' : sessions'[id] \in Pages
    <3> HIDE DEF TypeOK
    <3> QED
      BY <1>1, CreateTyped DEF CreateSession
  <2>2. /\ UNCHANGED <<tools, messages, page, asked, turn, planned, reply, restarts>>
        /\ at' = [at EXCEPT ![create(p)] = "stored"]
        /\ url' = [url EXCEPT ![create(p)] = nextID']
        /\ born' = [born EXCEPT ![p] = restarts]
    BY <1>1 DEF CreateSession, Create
  <2>3. TypeOK'
    BY <2>1, <2>2
  <2>4. HandlerHolds'
    BY <2>1, <2>2
  <2> QED
    BY <2>3, <2>4
<1>2. CASE seedSession(p)
  <2>1. tools' \in [Pages -> SUBSET Tools]
    <3>1. PICK tool \in Tools : tools' = [tools EXCEPT ![p] = @ \cup {tool}]
      BY <1>2 DEF seedSession, UpsertTool
    <3>2. tools \in [Pages -> SUBSET Tools]
      OBVIOUS
    <3> HIDE DEF TypeOK, HandlerHolds
    <3> QED
      BY <3>1, <3>2
  <2>2. UNCHANGED <<nextID, sessions, messages, page, request, life>>
    BY <1>2 DEF seedSession, UpsertTool
  <2>3. TypeOK'
    BY <2>1, <2>2
  <2>4. HandlerHolds'
    BY <2>2
  <2> QED
    BY <2>3, <2>4
<1>3. CASE SessionAnswer(p)
  <2>1. Snapshot(url[create(p)], p) \in Snapshots
    BY <1>3, SnapshotTyped DEF SessionAnswer
  <2> QED
    BY <1>3, <2>1 DEF SessionAnswer, Answer
<1>4. CASE Session(p)
  <2> DEFINE id == url[refresh(p)]
  <2>1. id \in DOMAIN sessions => Snapshot(id, sessions[id]) \in Snapshots
    <3> HIDE DEF TypeOK
    <3> QED
      BY SnapshotTyped, LookupTyped
  <2>2. \E what \in Snapshots \cup {Failure} :
           /\ reply' = [reply EXCEPT ![refresh(p)] = what]
           /\ at' = [at EXCEPT ![refresh(p)] = "answered"]
    BY <1>4, <2>1 DEF Session, Answer
  <2>3. UNCHANGED <<store, page, url, asked, turn, planned, life>>
    BY <1>4 DEF Session
  <2>4. TypeOK'
    <3>1. /\ reply' \in [Fetches -> Snapshots \cup {None, Failure}]
          /\ at' \in [Fetches -> {"idle", "sent", "answered", "lost", "settled",
                                 "rejected"} \cup InHandler]
      <4>1. /\ reply \in [Fetches -> Snapshots \cup {None, Failure}]
            /\ at \in [Fetches -> {"idle", "sent", "answered", "lost",
                                  "settled", "rejected"} \cup InHandler]
        OBVIOUS
      <4> HIDE DEF TypeOK, HandlerHolds, InHandler
      <4> QED
        BY <2>2, <4>1
    <3> QED
      BY <2>3, <3>1
  <2>5. HandlerHolds'
    BY <2>2, <2>3
  <2> QED
    BY <2>4, <2>5
<1> QED
  BY <1>1, <1>2, <1>3, <1>4 DEF Handlers

\* ... or of a turn ...
LEMMA TypedTurn ==
    ASSUME Typed, NEW m \in Prompts, Turn(m)
    PROVE  Typed'
<1> USE PageAssumption, FetchNames
    DEF Typed, TypeOK, HandlerHolds, Live, InHandler, Set, store, life, page,
        request, Return, Answer
<1>1. CASE HandleUserMessage(m)
  <2>1. sessions[url[message(m)]] \in Pages /\ url[message(m)] \in Nat \ {0}
    <3> HIDE DEF TypeOK
    <3> QED
      BY <1>1, LookupTyped DEF HandleUserMessage
  <2>2. /\ turn' = [turn EXCEPT ![m] = sessions[url[message(m)]]]
        /\ at' = [at EXCEPT ![message(m)] = "begun"]
        /\ AppendMessage(sessions[url[message(m)]], [kind |-> "user", of |-> m])
        /\ UNCHANGED <<page, url, asked, planned, reply, life>>
    BY <1>1 DEF HandleUserMessage
  <2>3. /\ messages' \in [Pages -> Seq([kind : {"user", "reply"}, of : Prompts])]
        /\ UNCHANGED <<nextID, sessions, tools>>
    BY <2>1, <2>2, MessageAppended
  <2>4. TypeOK'
    BY <2>1, <2>2, <2>3
  <2>5. HandlerHolds'
    BY <2>1, <2>2
  <2> QED
    BY <2>4, <2>5
<1>2. CASE UnknownSession(m)
  BY <1>2 DEF UnknownSession
<1>3. CASE Plan(m)
  BY <1>3 DEF Plan
<1>4. CASE TurnFails(m)
  BY <1>4 DEF TurnFails
<1>5. CASE Reply(m)
  <2>1. /\ turn[m] \in Pages
        /\ at' = [at EXCEPT ![message(m)] = "replied"]
        /\ AppendMessage(turn[m], [kind |-> "reply", of |-> m])
        /\ UNCHANGED <<page, url, asked, turn, planned, reply, life>>
    BY <1>5 DEF Reply
  <2>2. /\ messages' \in [Pages -> Seq([kind : {"user", "reply"}, of : Prompts])]
        /\ UNCHANGED <<nextID, sessions, tools>>
    BY <2>1, MessageAppended
  <2>3. TypeOK'
    BY <2>1, <2>2
  <2>4. HandlerHolds'
    BY <1>5, <2>1 DEF Reply
  <2> QED
    BY <2>3, <2>4
<1>6. CASE Respond(m)
  <2>1. Snapshot(url[message(m)], turn[m]) \in Snapshots
    BY <1>6, SnapshotTyped DEF Respond
  <2> QED
    BY <1>6, <2>1 DEF Respond
<1> QED
  BY <1>1, <1>2, <1>3, <1>4, <1>5, <1>6 DEF Turn

\* ... or a restart of the backend.
LEMMA TypedStep == Typed /\ [Next]_vars => Typed'
<1> SUFFICES ASSUME Typed, [Next]_vars PROVE Typed'
  OBVIOUS
<1>1. CASE BackendRestarts
  <2>1. /\ restarts' \in 0 .. MaxRestarts
        /\ nextID' = 0 /\ sessions' = <<>>
        /\ turn' = [m \in Prompts |-> None]
        /\ planned' = [m \in Prompts |-> None]
        /\ at' = [f \in Fetches |-> IF at[f] \in InHandler THEN "lost" ELSE at[f]]
        /\ UNCHANGED <<tools, messages, page, url, asked, reply, born>>
    <3>1. restarts \in 0 .. MaxRestarts
      BY DEF Typed, TypeOK
    <3> QED
      BY <1>1, <3>1, PageAssumption DEF BackendRestarts, Restart
  <2>2. TypeOK'
    <3>1. /\ nextID' \in Nat
          /\ DOMAIN sessions' = 1 .. nextID'
          /\ \A id \in DOMAIN sessions' : sessions'[id] \in Pages
      BY <2>1
    <3>2. /\ turn' \in [Prompts -> Pages \cup {None}]
          /\ planned' \in [Prompts -> (SUBSET Tools) \cup {None}]
      BY <2>1
    <3>3. at' \in [Fetches -> {"idle", "sent", "answered", "lost", "settled",
                              "rejected"} \cup InHandler]
      BY <2>1 DEF Typed, TypeOK
    <3> QED
      BY <2>1, <3>1, <3>2, <3>3 DEF page, Typed, TypeOK
  <2>3. HandlerHolds'
    BY <2>1, FetchNames DEF HandlerHolds, Live, InHandler
  <2> QED
    BY <2>2, <2>3 DEF Typed
<1>2. CASE UNCHANGED vars
  BY <1>2 DEF vars, store, page, request, life, Typed, TypeOK, HandlerHolds
<1> QED
  BY <1>1, <1>2, TypedPage, TypedRespondent, TypedHandlers, TypedTurn DEF Next

\* Pages, fetches and sessions have the types of the code.
THEOREM DemoTyped == Spec => []TypeOK
<1>1. Typed => TypeOK
  BY DEF Typed
<1> QED
  BY <1>1, TypedInit, TypedStep, PTL DEF Spec

-----------------------------------------------------------------------------
(* Who meets whom.                                                         *)

\* The session of a page, if it gets one, is stored: it has its birth.
Decided(p) == at[create(p)] \notin {"idle", "sent"}

\* An identifier that page p was given is that of its own session as long as
\* the backend of its birth lives.
Valid(p, id) ==
    /\ Decided(p)
    /\ born[p] = restarts => id \in DOMAIN sessions /\ sessions[id] = p

\* Page p may meet conversation c: its own, or one of a later life.
Reach(p, c) ==
    /\ p \in Pages /\ c \in Pages
    /\ Decided(p) /\ Decided(c)
    /\ c # p => born[p] < born[c]

\* What page p may be shown.
Good(p, snapshot) ==
    /\ Valid(p, snapshot.id)
    /\ Reach(p, snapshot.conversation)
    /\ tools[p] = Tools

\* The store knows the sessions of this life only.
LifeInv ==
    /\ \A p \in Pages : born[p] <= restarts
    /\ \A p \in Pages : stage[p] = "new" => at[create(p)] = "idle"
    /\ \A id \in DOMAIN sessions :
          Decided(sessions[id]) /\ born[sessions[id]] = restarts

\* What a page shows, and what is on its way to it, it may be shown.
PageInv == \A p \in Pages :
    /\ shown[p] # None => Good(p, shown[p])
    /\ at[create(p)] = "stored" => Valid(p, url[create(p)])
    /\ at[refresh(p)] = "sent" => Valid(p, url[refresh(p)]) /\ tools[p] = Tools
    /\ Answered(create(p)) => Good(p, reply[create(p)])
    /\ Answered(refresh(p)) => Good(p, reply[refresh(p)])

\* The same of prompts, and of the tools their turns may plan.
PromptInv == \A m \in Prompts :
    /\ at[message(m)] \in {"sent"} \cup Live =>
          /\ author[m] \in Pages
          /\ Valid(author[m], url[message(m)])
          /\ tools[author[m]] = Tools
    /\ at[message(m)] \in Live => Reach(author[m], turn[m])
    /\ Answered(message(m)) =>
          author[m] \in Pages /\ Good(author[m], reply[message(m)])
    /\ planned[m] # None => at[message(m)] \in {"planned", "replied"}
    /\ planned[m] \notin {None, Tools} => author[m] # turn[m]

\* Who wrote to a conversation could meet it.
MessageInv == \A p \in Pages : \A i \in DOMAIN messages[p] :
    Reach(author[messages[p][i].of], p)

PrivacyInv == Typed /\ LifeInv /\ PageInv /\ PromptInv /\ MessageInv

\* Births, identifiers, tools and authors last: a step adds to them, or the
\* backend restarts.
LEMMA Lasting ==
    ASSUME Typed, LifeInv, [Next]_vars
    PROVE  /\ \A p \in Pages : Decided(p) => Decided(p)' /\ born'[p] = born[p]
           /\ \/ /\ restarts' = restarts
                 /\ \A id \in DOMAIN sessions :
                       id \in DOMAIN sessions' /\ sessions'[id] = sessions[id]
              \/ restarts' = restarts + 1
           /\ \A p \in Pages : tools[p] = Tools => tools'[p] = Tools
           /\ \A m \in Prompts : author[m] \in Pages => author'[m] = author[m]
<1>0. /\ at \in [Fetches -> {"idle", "sent", "answered", "lost", "settled",
                             "rejected"} \cup InHandler]
      /\ author \in [Prompts -> Pages \cup {None}]
      /\ tools \in [Pages -> SUBSET Tools]
      /\ restarts \in Nat
      /\ born \in [Pages -> Nat]
      /\ \A p \in Pages : stage[p] = "new" => at[create(p)] = "idle"
  <2>1. restarts \in 0 .. MaxRestarts /\ born \in [Pages -> 0 .. MaxRestarts]
    BY DEF Typed, TypeOK
  <2>2. restarts \in Nat /\ born \in [Pages -> Nat]
    BY <2>1, PageAssumption
  <2> QED
    BY <2>2, PageAssumption DEF Typed, TypeOK, LifeInv
<1> USE PageAssumption, FetchNames, <1>0 DEF Decided, Set, InHandler
<1>1. \A p \in Pages : Decided(p) => Decided(p)' /\ born'[p] = born[p]
  <2>1. ASSUME NEW p \in Pages, PageStep(p)
        PROVE  \A q \in Pages : Decided(q) => Decided(q)' /\ born'[q] = born[q]
    <3>1. CASE start(p)
      BY <3>1 DEF start, Send, life
    <3>2. CASE SessionCreated(p) \/ CreateFails(p)
      BY <3>2 DEF SessionCreated, CreateFails, Settle, End, life
    <3>3. CASE Connected(p)
      BY <3>3 DEF Connected, Send, life
    <3>4. CASE Refreshed(p) \/ RefreshFails(p)
      BY <3>4 DEF Refreshed, RefreshFails, Settle, End, life
    <3>5. ASSUME NEW m \in Prompts, sendPrompt(p, m)
          PROVE  \A q \in Pages : Decided(q) => Decided(q)' /\ born'[q] = born[q]
      BY <3>5 DEF sendPrompt, Send, life
    <3> QED
      BY <2>1, <3>1, <3>2, <3>3, <3>4, <3>5
      DEF PageStep, ConnectFails, SocketCloses, destroy, request, life
  <2>2. ASSUME NEW m \in Prompts, Respondent(m)
        PROVE  \A q \in Pages : Decided(q) => Decided(q)' /\ born'[q] = born[q]
    BY <2>2
    DEF Respondent, PromptAnswered, PromptErrored, PromptLost, Settle, End, life
  <2>3. ASSUME NEW p \in Pages, Handlers(p)
        PROVE  \A q \in Pages : Decided(q) => Decided(q)' /\ born'[q] = born[q]
    BY <2>3
    DEF Handlers, CreateSession, seedSession, SessionAnswer, Session, Answer,
        request, life
  <2>4. ASSUME NEW m \in Prompts, Turn(m)
        PROVE  \A q \in Pages : Decided(q) => Decided(q)' /\ born'[q] = born[q]
    BY <2>4
    DEF Turn, HandleUserMessage, UnknownSession, Plan, TurnFails, Reply, Respond,
        Answer, Return, life
  <2>5. CASE BackendRestarts
    BY <2>5 DEF BackendRestarts
  <2>6. CASE UNCHANGED vars
    BY <2>6 DEF vars, request, life
  <2> QED
    BY <2>1, <2>2, <2>3, <2>4, <2>5, <2>6 DEF Next
<1>2. \/ /\ restarts' = restarts
         /\ \A id \in DOMAIN sessions :
               id \in DOMAIN sessions' /\ sessions'[id] = sessions[id]
      \/ restarts' = restarts + 1
  <2>1. ASSUME NEW p \in Pages, CreateSession(p)
        PROVE  /\ restarts' = restarts
               /\ \A id \in DOMAIN sessions :
                     id \in DOMAIN sessions' /\ sessions'[id] = sessions[id]
    BY <2>1, CreateTyped DEF CreateSession, Typed
  <2>2. CASE BackendRestarts
    BY <2>2 DEF BackendRestarts
  <2>3. CASE UNCHANGED <<restarts, sessions>>
    BY <2>3
  <2> QED
    BY <2>1, <2>2, <2>3
    DEF Next, PageStep, Respondent, Handlers, Turn, start, SessionCreated,
        CreateFails, Connected, ConnectFails, SocketCloses, Refreshed,
        RefreshFails, destroy, sendPrompt, PromptAnswered, PromptErrored,
        PromptLost, seedSession, UpsertTool, SessionAnswer, Session,
        HandleUserMessage, UnknownSession, Plan, TurnFails, Reply, Respond,
        AppendMessage, store, life, vars
<1>3. \A p \in Pages : tools[p] = Tools => tools'[p] = Tools
  <2>1. ASSUME NEW p \in Pages, seedSession(p)
        PROVE  \A q \in Pages : tools[q] = Tools => tools'[q] = Tools
    BY <2>1 DEF seedSession, UpsertTool
  <2>2. CASE UNCHANGED tools
    BY <2>2
  <2> QED
    BY <2>1, <2>2
    DEF Next, PageStep, Respondent, Handlers, Turn, start, SessionCreated,
        CreateFails, Connected, ConnectFails, SocketCloses, Refreshed,
        RefreshFails, destroy, sendPrompt, PromptAnswered, PromptErrored,
        PromptLost, CreateSession, Create, SessionAnswer, Session,
        HandleUserMessage, UnknownSession, Plan, TurnFails, Reply, Respond,
        AppendMessage, BackendRestarts, Restart, store, vars
<1>4. \A m \in Prompts : author[m] \in Pages => author'[m] = author[m]
  <2>1. ASSUME NEW p \in Pages, NEW m \in Prompts, sendPrompt(p, m)
        PROVE  \A n \in Prompts : author[n] \in Pages => author'[n] = author[n]
    BY <2>1 DEF sendPrompt
  <2>2. CASE UNCHANGED author
    BY <2>2
  <2> QED
    BY <2>1, <2>2
    DEF Next, PageStep, Respondent, Handlers, Turn, start, SessionCreated,
        CreateFails, Connected, ConnectFails, SocketCloses, Refreshed,
        RefreshFails, destroy, PromptAnswered, PromptErrored, PromptLost,
        CreateSession, seedSession, SessionAnswer, Session, HandleUserMessage,
        UnknownSession, Plan, TurnFails, Reply, Respond, BackendRestarts, page,
        vars
<1> QED
  BY <1>1, <1>2, <1>3, <1>4

\* What a page may be shown it may always be shown.
LEMMA Kept ==
    ASSUME Typed, LifeInv, [Next]_vars
    PROVE  /\ \A p \in Pages : \A id : Valid(p, id) => Valid(p, id)'
           /\ \A p, c : Reach(p, c) => Reach(p, c)'
           /\ \A p \in Pages : \A s : Good(p, s) => Good(p, s)'
<1>0. /\ restarts \in Nat /\ born \in [Pages -> Nat]
      /\ \A p \in Pages : born[p] <= restarts
  <2>1. restarts \in 0 .. MaxRestarts /\ born \in [Pages -> 0 .. MaxRestarts]
    BY DEF Typed, TypeOK
  <2> QED
    BY <2>1, PageAssumption DEF LifeInv
<1>1. /\ \A p \in Pages : Decided(p) => Decided(p)' /\ born'[p] = born[p]
      /\ \/ /\ restarts' = restarts
            /\ \A id \in DOMAIN sessions :
                  id \in DOMAIN sessions' /\ sessions'[id] = sessions[id]
         \/ restarts' = restarts + 1
      /\ \A p \in Pages : tools[p] = Tools => tools'[p] = Tools
  BY Lasting
<1>2. ASSUME NEW p \in Pages, NEW id, Valid(p, id)
      PROVE  Valid(p, id)'
  BY <1>0, <1>1, <1>2 DEF Valid
<1>3. ASSUME NEW p, NEW c, Reach(p, c)
      PROVE  Reach(p, c)'
  BY <1>1, <1>3 DEF Reach
<1>4. ASSUME NEW p \in Pages, NEW s, Good(p, s)
      PROVE  Good(p, s)'
  BY <1>1, <1>2, <1>3, <1>4 DEF Good
<1> QED
  BY <1>2, <1>3, <1>4

\* A page meets the session that its identifier names now.
LEMMA Meet ==
    ASSUME Typed, LifeInv, NEW p \in Pages, NEW id \in DOMAIN sessions,
           Valid(p, id)
    PROVE  Reach(p, sessions[id])
<1>1. /\ restarts \in 0 .. MaxRestarts /\ born \in [Pages -> 0 .. MaxRestarts]
      /\ sessions[id] \in Pages
  BY LookupTyped DEF Typed, TypeOK
<1>2. restarts \in Nat /\ born \in [Pages -> Nat]
  BY <1>1, PageAssumption
<1> QED
  BY <1>1, <1>2 DEF LifeInv, Valid, Reach

\* No step stores a session of another life.
LEMMA LifeStep ==
    ASSUME Typed, LifeInv, [Next]_vars
    PROVE  LifeInv'
<1>0. /\ at \in [Fetches -> {"idle", "sent", "answered", "lost", "settled",
                             "rejected"} \cup InHandler]
      /\ stage \in [Pages -> {"new", "creating", "connecting", "refreshing",
                              "ended"}]
      /\ restarts \in 0 .. MaxRestarts
      /\ born \in [Pages -> 0 .. MaxRestarts]
      /\ \A id \in DOMAIN sessions : sessions[id] \in Pages
  BY DEF Typed, TypeOK
<1>1. restarts \in Nat /\ born \in [Pages -> Nat]
  BY <1>0, PageAssumption
<1>2. \A p \in Pages : at[create(p)] \notin {"idle", "sent"} =>
         at'[create(p)] \notin {"idle", "sent"} /\ born'[p] = born[p]
  BY Lasting DEF Decided
<1> USE FetchNames, <1>0, <1>1 DEF Set, LifeInv, Decided
<1>3. ASSUME NEW p \in Pages, CreateSession(p) PROVE LifeInv'
  <2>1. /\ sessions'[nextID'] = p
        /\ \A id \in DOMAIN sessions' : id \in DOMAIN sessions \/ id = nextID'
        /\ \A id \in DOMAIN sessions : sessions'[id] = sessions[id]
    BY <1>3, CreateTyped DEF CreateSession, Typed
  <2>2. /\ at' = [at EXCEPT ![create(p)] = "stored"]
        /\ born' = [born EXCEPT ![p] = restarts]
        /\ UNCHANGED <<stage, restarts>>
        /\ at[create(p)] = "sent"
    BY <1>3 DEF CreateSession, page
  <2>3. \A q \in Pages : born'[q] <= restarts'
    BY <2>2
  <2>4. \A q \in Pages : stage'[q] = "new" => at'[create(q)] = "idle"
    BY <2>2
  <2>5. ASSUME NEW id \in DOMAIN sessions'
        PROVE  /\ at'[create(sessions'[id])] \notin {"idle", "sent"}
               /\ born'[sessions'[id]] = restarts'
    <3>1. CASE id \in DOMAIN sessions
      <4>1. /\ sessions[id] \in Pages /\ sessions'[id] = sessions[id]
            /\ at[create(sessions[id])] \notin {"idle", "sent"}
            /\ born[sessions[id]] = restarts
        BY <2>1, <3>1
      <4> HIDE DEF LifeInv
      <4> QED
        BY <1>2, <2>2, <4>1
    <3>2. CASE id = nextID'
      <4> HIDE DEF LifeInv
      <4> QED
        BY <2>1, <2>2, <3>2
    <3> QED
      BY <2>1, <3>1, <3>2
  <2> QED
    BY <2>3, <2>4, <2>5
<1>4. CASE BackendRestarts
  BY <1>4 DEF BackendRestarts, Restart, page, InHandler
<1>5. ASSUME UNCHANGED <<sessions, restarts, born>>,
             \A p \in Pages : stage'[p] = "new" => at'[create(p)] = "idle"
      PROVE  LifeInv'
  BY <1>2, <1>5
<1>6. ASSUME NEW p \in Pages, PageStep(p) PROVE LifeInv'
  <2>1. UNCHANGED <<sessions, restarts, born>>
    BY <1>6
    DEF PageStep, start, SessionCreated, CreateFails, Connected, ConnectFails,
        SocketCloses, Refreshed, RefreshFails, destroy, sendPrompt, store, life
  <2>2. CASE start(p)
    BY <1>5, <2>1, <2>2 DEF start, Send
  <2>3. CASE SessionCreated(p) \/ CreateFails(p)
    BY <1>5, <2>1, <2>3 DEF SessionCreated, CreateFails, Settle, End
  <2>4. CASE Connected(p)
    BY <1>5, <2>1, <2>4 DEF Connected, Send
  <2>5. CASE Refreshed(p) \/ RefreshFails(p)
    BY <1>5, <2>1, <2>5 DEF Refreshed, RefreshFails, Settle, End
  <2>6. CASE ConnectFails(p) \/ SocketCloses(p) \/ destroy(p)
    BY <1>5, <2>1, <2>6 DEF ConnectFails, SocketCloses, destroy, request
  <2>7. ASSUME NEW m \in Prompts, sendPrompt(p, m) PROVE LifeInv'
    BY <1>5, <2>1, <2>7 DEF sendPrompt, Send
  <2> QED
    BY <1>6, <2>2, <2>3, <2>4, <2>5, <2>6, <2>7 DEF PageStep
<1>7. ASSUME NEW m \in Prompts, Respondent(m) PROVE LifeInv'
  <2>1. /\ UNCHANGED <<sessions, restarts, born, stage>>
        /\ \E how \in {"settled", "rejected"} :
              at' = [at EXCEPT ![message(m)] = how]
    BY <1>7
    DEF Respondent, PromptAnswered, PromptErrored, PromptLost, Settle, End,
        store, page, life
  <2> QED
    BY <1>5, <2>1
<1>8. ASSUME NEW p \in Pages, seedSession(p) \/ SessionAnswer(p) \/ Session(p)
      PROVE  LifeInv'
  BY <1>5, <1>8
  DEF seedSession, UpsertTool, SessionAnswer, Session, Answer, store, page,
      request, life
<1>9. ASSUME NEW m \in Prompts, Turn(m) PROVE LifeInv'
  BY <1>5, <1>9
  DEF Turn, HandleUserMessage, UnknownSession, Plan, TurnFails, Reply, Respond,
      AppendMessage, Answer, store, page, life
<1>10. CASE UNCHANGED vars
  BY <1>5, <1>10 DEF vars, store, page, request, life
<1> QED
  BY <1>3, <1>4, <1>6, <1>7, <1>8, <1>9, <1>10 DEF Next, Handlers

\* Nothing happens to fetch f, or it is over.
Same(f) == at'[f] = at[f] /\ url'[f] = url[f] /\ reply'[f] = reply[f]
Over(f) == at'[f] \in {"settled", "rejected", "lost"}

\* A fetch goes one way: the page sends it, its handler answers it, and it
\* is over.
LEMMA FetchSteps ==
    ASSUME Typed, [Next]_vars
    PROVE  /\ \A p \in Pages :
                 \/ Same(create(p)) \/ Over(create(p))
                 \/ start(p) \/ CreateSession(p) \/ SessionAnswer(p)
           /\ \A p \in Pages :
                 \/ Same(refresh(p)) \/ Over(refresh(p))
                 \/ Connected(p) \/ Session(p)
           /\ \A m \in Prompts :
                 \/ Same(message(m)) \/ Over(message(m))
                 \/ Turn(m) \/ \E p \in Pages : sendPrompt(p, m)
<1> DEFINE Goal ==
      /\ \A p \in Pages :
            \/ Same(create(p)) \/ Over(create(p))
            \/ start(p) \/ CreateSession(p) \/ SessionAnswer(p)
      /\ \A p \in Pages :
            \/ Same(refresh(p)) \/ Over(refresh(p))
            \/ Connected(p) \/ Session(p)
      /\ \A m \in Prompts :
            \/ Same(message(m)) \/ Over(message(m))
            \/ Turn(m) \/ \E p \in Pages : sendPrompt(p, m)
<1>0. /\ at \in [Fetches -> {"idle", "sent", "answered", "lost", "settled",
                             "rejected"} \cup InHandler]
      /\ url \in [Fetches -> (Nat \ {0}) \cup {None}]
      /\ reply \in [Fetches -> Snapshots \cup {None, Failure}]
  BY DEF Typed, TypeOK
<1> SUFFICES Goal
  OBVIOUS
<1> HIDE DEF Goal
<1>1. ASSUME NEW g \in Fetches,
             \A f \in Fetches : f = g \/ Same(f),
             \/ Over(g)
             \/ \E p \in Pages :
                   g = create(p) /\ (start(p) \/ CreateSession(p) \/ SessionAnswer(p))
             \/ \E p \in Pages : g = refresh(p) /\ (Connected(p) \/ Session(p))
             \/ \E m \in Prompts :
                   g = message(m) /\ (Turn(m) \/ \E p \in Pages : sendPrompt(p, m))
      PROVE  Goal
  BY <1>1, FetchNames DEF Goal
<1>2. ASSUME \A f \in Fetches : Same(f) \/ Over(f) PROVE Goal
  BY <1>2, FetchNames DEF Goal
<1>3. ASSUME NEW g \in Fetches, NEW how \in {"settled", "rejected"}, End(g, how)
      PROVE  Goal
  <2>1. \A f \in Fetches : f = g \/ Same(f)
    BY <1>0, <1>3 DEF End, Set, Same
  <2>2. Over(g)
    BY <1>0, <1>3 DEF End, Set, Over
  <2> QED
    BY <1>1, <2>1, <2>2
<1>4. ASSUME NEW g \in Fetches, NEW p, NEW id, Send(g, p, id), reply' = reply
      PROVE  \A f \in Fetches : f = g \/ Same(f)
  BY <1>0, <1>4 DEF Send, Set, Same
<1>5. ASSUME NEW g \in Fetches, NEW what, Answer(g, what), url' = url
      PROVE  \A f \in Fetches : f = g \/ Same(f)
  BY <1>0, <1>5 DEF Answer, Set, Same
<1>6. ASSUME NEW p \in Pages, PageStep(p) PROVE Goal
  <2>1. CASE start(p)
    BY <1>1, <1>4, <2>1, FetchNames DEF start
  <2>2. CASE SessionCreated(p) \/ CreateFails(p) \/ Refreshed(p) \/ RefreshFails(p)
    BY <1>3, <2>2, FetchNames
    DEF SessionCreated, CreateFails, Refreshed, RefreshFails, Settle
  <2>3. CASE Connected(p)
    <3>1. \A f \in Fetches : f = refresh(p) \/ Same(f)
      BY <1>4, <2>3, FetchNames DEF Connected, Same
    <3> QED
      BY <1>1, <2>3, <3>1, FetchNames
  <2>4. CASE ConnectFails(p) \/ SocketCloses(p) \/ destroy(p)
    BY <1>2, <2>4 DEF ConnectFails, SocketCloses, destroy, request, Same
  <2>5. ASSUME NEW m \in Prompts, sendPrompt(p, m) PROVE Goal
    BY <1>1, <1>4, <2>5, FetchNames DEF sendPrompt
  <2> QED
    BY <1>6, <2>1, <2>2, <2>3, <2>4, <2>5 DEF PageStep
<1>7. ASSUME NEW m \in Prompts, Respondent(m) PROVE Goal
  BY <1>3, <1>7, FetchNames
  DEF Respondent, PromptAnswered, PromptErrored, PromptLost, Settle
<1>8. ASSUME NEW p \in Pages, Handlers(p) PROVE Goal
  <2>1. CASE CreateSession(p)
    <3>1. \A f \in Fetches : f = create(p) \/ Same(f)
      BY <1>0, <2>1, FetchNames DEF CreateSession, Set, Same
    <3> QED
      BY <1>1, <2>1, <3>1, FetchNames
  <2>2. CASE seedSession(p)
    BY <1>2, <2>2 DEF seedSession, request, Same
  <2>3. CASE SessionAnswer(p)
    BY <1>1, <1>5, <2>3, FetchNames DEF SessionAnswer
  <2>4. CASE Session(p)
    BY <1>1, <1>5, <2>4, FetchNames DEF Session
  <2> QED
    BY <1>8, <2>1, <2>2, <2>3, <2>4 DEF Handlers
<1>9. ASSUME NEW m \in Prompts, Turn(m) PROVE Goal
  <2>1. \A f \in Fetches : f = message(m) \/ Same(f)
    <3>1. CASE UnknownSession(m) \/ TurnFails(m) \/ Respond(m)
      BY <1>5, <3>1, FetchNames DEF UnknownSession, TurnFails, Respond
    <3>2. CASE HandleUserMessage(m) \/ Plan(m) \/ Reply(m)
      BY <1>0, <3>2, FetchNames
      DEF HandleUserMessage, Plan, Reply, Set, Same
    <3> QED
      BY <1>9, <3>1, <3>2 DEF Turn
  <2> QED
    BY <1>1, <1>9, <2>1, FetchNames
<1>10. CASE BackendRestarts
  <2>1. \A f \in Fetches : Same(f) \/ Over(f)
    BY <1>0, <1>10 DEF BackendRestarts, Same, Over
  <2> QED
    BY <1>2, <2>1
<1>11. CASE UNCHANGED vars
  BY <1>2, <1>11 DEF vars, request, Same
<1> QED
  BY <1>6, <1>7, <1>8, <1>9, <1>10, <1>11 DEF Next

\* Page p is shown the response to fetch f, and is done with the fetch.
Shows(p, f) ==
    Answered(f) /\ shown'[p] = reply[f] /\ at'[f] = "settled"

\* What a page comes to show is a response to it.
LEMMA ShownSteps ==
    ASSUME Typed, [Next]_vars
    PROVE  \A p \in Pages :
              \/ shown'[p] = shown[p]
              \/ shown'[p] = None
              \/ Shows(p, create(p))
              \/ Shows(p, refresh(p))
              \/ \E m \in Prompts : author[m] = p /\ Shows(p, message(m))
<1> SUFFICES ASSUME NEW p \in Pages, shown'[p] # shown[p]
             PROVE  \/ shown'[p] = None
                    \/ Shows(p, create(p))
                    \/ Shows(p, refresh(p))
                    \/ \E m \in Prompts : author[m] = p /\ Shows(p, message(m))
  OBVIOUS
<1>0. /\ shown \in [Pages -> Snapshots \cup {None}]
      /\ at \in [Fetches -> {"idle", "sent", "answered", "lost", "settled",
                             "rejected"} \cup InHandler]
  BY DEF Typed, TypeOK
<1>1. \/ \E q \in Pages : SessionCreated(q) \/ Refreshed(q) \/ destroy(q)
      \/ \E m \in Prompts : PromptAnswered(m)
  <2>1. shown' # shown
    OBVIOUS
  <2> QED
    BY <2>1
    DEF Next, PageStep, Respondent, Handlers, Turn, start, CreateFails,
        Connected, ConnectFails, SocketCloses, RefreshFails, sendPrompt,
        PromptErrored, PromptLost, CreateSession, seedSession, SessionAnswer,
        Session, HandleUserMessage, UnknownSession, Plan, TurnFails, Reply,
        Respond, BackendRestarts, page, vars
<1>2. ASSUME NEW q \in Pages, SessionCreated(q) \/ Refreshed(q) \/ destroy(q)
      PROVE  q = p
  BY <1>0, <1>2 DEF SessionCreated, Refreshed, destroy, Set
<1>3. ASSUME NEW m \in Prompts, PromptAnswered(m) PROVE author[m] = p
  BY <1>0, <1>3 DEF PromptAnswered, Set
<1>4. CASE SessionCreated(p) \/ Refreshed(p) \/ destroy(p)
  BY <1>0, <1>4, FetchNames
  DEF SessionCreated, Refreshed, destroy, Settle, End, Set, Shows
<1>5. ASSUME NEW m \in Prompts, author[m] = p, PromptAnswered(m)
      PROVE  Shows(p, message(m))
  BY <1>0, <1>5, FetchNames DEF PromptAnswered, Settle, End, Set, Shows
<1> QED
  BY <1>1, <1>2, <1>3, <1>4, <1>5

\* No response shows a page what it may not be shown.
LEMMA PageStepInv ==
    ASSUME Typed, LifeInv, PageInv, PromptInv, [Next]_vars
    PROVE  PageInv'
<1>0. /\ at \in [Fetches -> {"idle", "sent", "answered", "lost", "settled",
                             "rejected"} \cup InHandler]
      /\ url \in [Fetches -> (Nat \ {0}) \cup {None}]
      /\ reply \in [Fetches -> Snapshots \cup {None, Failure}]
  BY DEF Typed, TypeOK
<1>1. /\ \A p \in Pages : \A id : Valid(p, id) => Valid(p, id)'
      /\ \A p, c : Reach(p, c) => Reach(p, c)'
      /\ \A p \in Pages : \A s : Good(p, s) => Good(p, s)'
      /\ \A p \in Pages : tools[p] = Tools => tools'[p] = Tools
  BY Kept, Lasting
<1>2. ASSUME NEW p \in Pages, shown'[p] # None PROVE Good(p, shown'[p])
  <2>1. shown[p] # None => Good(p, shown[p])
    BY DEF PageInv
  <2>2. Answered(create(p)) => Good(p, reply[create(p)])
    BY DEF PageInv
  <2>3. Answered(refresh(p)) => Good(p, reply[refresh(p)])
    BY DEF PageInv
  <2>4. \A m \in Prompts : Answered(message(m)) /\ author[m] = p
           => Good(p, reply[message(m)])
    BY DEF PromptInv
  <2> QED
    BY <1>2, <2>1, <2>2, <2>3, <2>4, ShownSteps DEF Shows
<1>3. ASSUME NEW p \in Pages, at'[create(p)] = "stored"
      PROVE  Valid(p, url[create(p)])' 
  <2>1. CASE Same(create(p))
    BY <1>1, <1>3, <2>1 DEF PageInv, Same, Valid, Decided
  <2>2. CASE CreateSession(p)
    <3>1. /\ sessions'[nextID'] = p /\ nextID' \in DOMAIN sessions'
      BY <2>2, CreateTyped DEF CreateSession, Typed
    <3>2. url'[create(p)] = nextID'
      BY <1>0, <2>2, FetchNames DEF CreateSession, Set
    <3> QED
      BY <1>3, <3>1, <3>2 DEF Valid, Decided
  <2>3. ~Over(create(p)) /\ ~start(p) /\ ~SessionAnswer(p)
    BY <1>0, <1>3, FetchNames DEF Over, start, Send, SessionAnswer, Answer, Set
  <2> QED
    BY <2>1, <2>2, <2>3, FetchSteps
<1>4. ASSUME NEW p \in Pages, at'[refresh(p)] = "sent"
      PROVE  Valid(p, url[refresh(p)])' /\ tools'[p] = Tools
  <2>1. CASE Same(refresh(p))
    BY <1>1, <1>4, <2>1 DEF PageInv, Same, Valid, Decided
  <2>2. CASE Connected(p) /\ ~Same(refresh(p))
    <3>1. shown[p] # None /\ url'[refresh(p)] = shown[p].id
      BY <1>0, <2>2, FetchNames DEF Connected, Send, Set, Same
    <3>2. Valid(p, shown[p].id) /\ tools[p] = Tools
      BY <3>1 DEF PageInv, Good
    <3> QED
      BY <1>1, <3>1, <3>2 DEF Valid, Decided
  <2>3. ~Over(refresh(p)) /\ ~Session(p)
    BY <1>0, <1>4, FetchNames DEF Over, Session, Answer, Set
  <2> QED
    BY <2>1, <2>2, <2>3, FetchSteps
<1>5. ASSUME NEW p \in Pages, at'[create(p)] = "answered",
             reply'[create(p)] # Failure
      PROVE  Good(p, reply'[create(p)])
  <2>1. CASE Same(create(p))
    BY <1>5, <2>1 DEF PageInv, Same, Answered
  <2>2. CASE SessionAnswer(p)
    <3>1. /\ reply'[create(p)] = Snapshot(url[create(p)], p)
          /\ at[create(p)] = "stored" /\ tools[p] = Tools
      BY <1>0, <2>2, FetchNames DEF SessionAnswer, Answer, Set
    <3>2. Valid(p, url[create(p)]) /\ Reach(p, p)
      BY <3>1 DEF PageInv, Valid, Reach, Decided
    <3> QED
      BY <3>1, <3>2 DEF Good, Snapshot
  <2>3. ~Over(create(p)) /\ ~start(p) /\ ~CreateSession(p)
    BY <1>0, <1>5, FetchNames DEF Over, start, Send, CreateSession, Set
  <2> QED
    BY <2>1, <2>2, <2>3, FetchSteps
<1>6. ASSUME NEW p \in Pages, at'[refresh(p)] = "answered",
             reply'[refresh(p)] # Failure
      PROVE  Good(p, reply'[refresh(p)])
  <2>1. CASE Same(refresh(p))
    BY <1>6, <2>1 DEF PageInv, Same, Answered
  <2>2. CASE Session(p)
    <3> DEFINE id == url[refresh(p)]
    <3>1. /\ id \in DOMAIN sessions
          /\ reply'[refresh(p)] = Snapshot(id, sessions[id])
          /\ at[refresh(p)] = "sent"
      BY <1>0, <1>6, <2>2, FetchNames DEF Session, Answer, Set
    <3>2. Valid(p, id) /\ tools[p] = Tools
      BY <3>1 DEF PageInv
    <3>3. Reach(p, sessions[id])
      BY <3>1, <3>2, Meet
    <3> QED
      BY <3>1, <3>2, <3>3 DEF Good, Snapshot
  <2>3. Connected(p) => Same(refresh(p))
    BY <1>0, <1>6, FetchNames DEF Connected, Send, Set, Same
  <2>4. ~Over(refresh(p))
    BY <1>6 DEF Over
  <2> QED
    BY <2>1, <2>2, <2>3, <2>4, FetchSteps
<1>7. \A p \in Pages : shown'[p] # None => Good(p, shown[p])'
  BY <1>1, <1>2 DEF Good, Valid, Reach, Decided
<1>8. \A p \in Pages : Answered(create(p))' => Good(p, reply[create(p)])'
  BY <1>1, <1>5 DEF Good, Valid, Reach, Decided, Answered
<1>9. \A p \in Pages : Answered(refresh(p))' => Good(p, reply[refresh(p)])'
  BY <1>1, <1>6 DEF Good, Valid, Reach, Decided, Answered
<1> QED
  BY <1>3, <1>4, <1>7, <1>8, <1>9
  DEF PageInv, Good, Valid, Reach, Decided, Answered

\* Whom a prompt is from, and what its turn holds, is settled step by step.
LEMMA PromptSteps ==
    ASSUME Typed, PromptInv, [Next]_vars
    PROVE  \A m \in Prompts :
              \/ Turn(m) /\ author'[m] = author[m]
              \/ \E p \in Pages : sendPrompt(p, m)
              \/ /\ Same(message(m)) \/ Over(message(m))
                 /\ author'[m] = author[m]
                 /\ \/ turn'[m] = turn[m] /\ planned'[m] = planned[m]
                    \/ planned'[m] = None /\ ~(at'[message(m)] \in Live)
                 /\ planned'[m] # None => Same(message(m))
<1> SUFFICES ASSUME NEW m \in Prompts, ~Turn(m),
                    ~\E p \in Pages : sendPrompt(p, m)
             PROVE  /\ Same(message(m)) \/ Over(message(m))
                    /\ author'[m] = author[m]
                    /\ \/ turn'[m] = turn[m] /\ planned'[m] = planned[m]
                       \/ planned'[m] = None /\ ~(at'[message(m)] \in Live)
                    /\ planned'[m] # None => Same(message(m))
  BY DEF Turn, HandleUserMessage, UnknownSession, Plan, TurnFails, Reply, Respond,
         page
<1>0. /\ at \in [Fetches -> {"idle", "sent", "answered", "lost", "settled",
                             "rejected"} \cup InHandler]
      /\ author \in [Prompts -> Pages \cup {None}]
      /\ turn \in [Prompts -> Pages \cup {None}]
      /\ planned \in [Prompts -> (SUBSET Tools) \cup {None}]
  BY DEF Typed, TypeOK
<1>1. Same(message(m)) \/ Over(message(m))
  BY FetchSteps
<1>2. author'[m] = author[m]
  <2>1. ASSUME NEW p \in Pages, NEW n \in Prompts, sendPrompt(p, n)
        PROVE  author'[m] = author[m]
    BY <1>0, <2>1 DEF sendPrompt, Set
  <2>2. CASE UNCHANGED author
    BY <2>2
  <2> QED
    BY <2>1, <2>2
    DEF Next, PageStep, Respondent, Handlers, Turn, start, SessionCreated,
        CreateFails, Connected, ConnectFails, SocketCloses, Refreshed,
        RefreshFails, destroy, PromptAnswered, PromptErrored, PromptLost,
        CreateSession, seedSession, SessionAnswer, Session, HandleUserMessage,
        UnknownSession, Plan, TurnFails, Reply, Respond, BackendRestarts, page,
        vars
<1>3. \/ turn'[m] = turn[m] /\ planned'[m] = planned[m]
      \/ BackendRestarts
  <2>1. ASSUME NEW n \in Prompts, Turn(n)
        PROVE  turn'[m] = turn[m] /\ planned'[m] = planned[m]
    <3>1. n # m
      BY <2>1
    <3> QED
      BY <1>0, <2>1, <3>1
      DEF Turn, HandleUserMessage, UnknownSession, Plan, TurnFails, Reply,
          Respond, Return, Set
  <2>2. CASE UNCHANGED <<turn, planned>>
    BY <2>2
  <2> QED
    BY <2>1, <2>2
    DEF Next, PageStep, Respondent, Handlers, start, SessionCreated,
        CreateFails, Connected, ConnectFails, SocketCloses, Refreshed,
        RefreshFails, destroy, sendPrompt, PromptAnswered, PromptErrored,
        PromptLost, CreateSession, seedSession, SessionAnswer, Session,
        request, vars
<1>4. BackendRestarts => planned'[m] = None /\ ~(at'[message(m)] \in Live)
  BY <1>0, FetchNames DEF BackendRestarts, Live, InHandler
<1>5. planned'[m] # None => Same(message(m))
  <2> SUFFICES ASSUME planned'[m] # None, ~Same(message(m)) PROVE FALSE
    OBVIOUS
  <2>1. at[message(m)] \in {"planned", "replied"} /\ ~BackendRestarts
    BY <1>3, <1>4 DEF PromptInv
  <2>2. at'[message(m)] # at[message(m)]
    BY <1>1, <2>1 DEF Over
  <2>3. ASSUME NEW g \in Fetches, g # message(m), NEW how,
               at' = [at EXCEPT ![g] = how]
        PROVE  FALSE
    BY <1>0, <2>2, <2>3, FetchNames
  <2>4. ASSUME NEW n \in Prompts, Respondent(n) PROVE FALSE
    <3>1. n # m
      BY <1>0, <2>1, <2>2, <2>4, FetchNames
      DEF Respondent, PromptAnswered, PromptErrored, PromptLost, Answered,
          Errored, Rejected
    <3> QED
      BY <2>4, <2>3, <3>1, FetchNames
      DEF Respondent, PromptAnswered, PromptErrored, PromptLost, Settle, End, Set
  <2>5. ASSUME NEW n \in Prompts, Turn(n) PROVE FALSE
    <3>1. n # m
      BY <2>5
    <3> QED
      BY <1>0, <2>2, <2>5, <3>1, FetchNames
      DEF Turn, HandleUserMessage, UnknownSession, Plan, TurnFails, Reply,
          Respond, Answer, Set
  <2>6. ASSUME NEW p \in Pages, Handlers(p) PROVE FALSE
    BY <1>0, <2>2, <2>6, FetchNames
    DEF Handlers, CreateSession, seedSession, SessionAnswer, Session, Answer,
        request, Set
  <2>7. ASSUME NEW p \in Pages, PageStep(p) PROVE FALSE
    <3>1. ASSUME NEW n \in Prompts, sendPrompt(p, n) PROVE FALSE
      <4>1. n # m
        BY <3>1
      <4> QED
        BY <1>0, <2>2, <3>1, <4>1, FetchNames DEF sendPrompt, Send, Set
    <3>2. CASE start(p) \/ Connected(p)
      <4>1. at' = [at EXCEPT ![create(p)] = "sent"] \/ UNCHANGED at
               \/ at' = [at EXCEPT ![refresh(p)] = "sent"]
        BY <3>2 DEF start, Connected, Send, Set
      <4> QED
        BY <2>2, <2>3, <4>1, FetchNames
    <3>3. CASE SessionCreated(p) \/ CreateFails(p) \/ Refreshed(p) \/ RefreshFails(p)
      BY <1>0, <2>2, <3>3, FetchNames
      DEF SessionCreated, CreateFails, Refreshed, RefreshFails, Settle, End, Set
    <3> QED
      BY <2>2, <2>7, <3>1, <3>2, <3>3
      DEF PageStep, ConnectFails, SocketCloses, destroy, request
  <2> QED
    BY <2>1, <2>2, <2>4, <2>5, <2>6, <2>7 DEF Next, vars, request
<1> QED
  BY <1>1, <1>2, <1>3, <1>4, <1>5

\* A turn works on the session that its author could meet.
LEMMA PromptStepInv ==
    ASSUME Typed, LifeInv, PageInv, PromptInv, [Next]_vars
    PROVE  PromptInv'
<1>0. /\ at \in [Fetches -> {"idle", "sent", "answered", "lost", "settled",
                             "rejected"} \cup InHandler]
      /\ url \in [Fetches -> (Nat \ {0}) \cup {None}]
      /\ reply \in [Fetches -> Snapshots \cup {None, Failure}]
      /\ author \in [Prompts -> Pages \cup {None}]
      /\ turn \in [Prompts -> Pages \cup {None}]
      /\ planned \in [Prompts -> (SUBSET Tools) \cup {None}]
  BY DEF Typed, TypeOK
<1>1. /\ \A p \in Pages : \A id : Valid(p, id) => Valid(p, id)'
      /\ \A p, c : Reach(p, c) => Reach(p, c)'
      /\ \A p \in Pages : \A s : Good(p, s) => Good(p, s)'
      /\ \A p \in Pages : tools[p] = Tools => tools'[p] = Tools
  BY Kept, Lasting
<1> SUFFICES ASSUME NEW m \in Prompts
             PROVE  /\ at'[message(m)] \in {"sent"} \cup Live =>
                          /\ author'[m] \in Pages
                          /\ Valid(author[m], url[message(m)])'
                          /\ tools'[author'[m]] = Tools
                    /\ at'[message(m)] \in Live => Reach(author[m], turn[m])'
                    /\ Answered(message(m))' =>
                          /\ author'[m] \in Pages
                          /\ Good(author[m], reply[message(m)])'
                    /\ planned'[m] # None
                          => at'[message(m)] \in {"planned", "replied"}
                    /\ planned'[m] \notin {None, Tools} => author'[m] # turn'[m]
  BY DEF PromptInv, Live, Answered
<1> DEFINE f == message(m)
<1>2. /\ at[f] \in {"sent"} \cup Live =>
            /\ author[m] \in Pages
            /\ Valid(author[m], url[f])
            /\ tools[author[m]] = Tools
      /\ at[f] \in Live => Reach(author[m], turn[m])
      /\ Answered(f) => author[m] \in Pages /\ Good(author[m], reply[f])
      /\ planned[m] # None => at[f] \in {"planned", "replied"}
      /\ planned[m] \notin {None, Tools} => author[m] # turn[m]
  BY DEF PromptInv
<1>3. f \in Fetches
  BY FetchNames
<1>4. CASE /\ Same(f) \/ Over(f)
           /\ author'[m] = author[m]
           /\ \/ turn'[m] = turn[m] /\ planned'[m] = planned[m]
              \/ planned'[m] = None /\ ~(at'[f] \in Live)
           /\ planned'[m] # None => Same(f)
  <2>1. at'[f] \in {"sent", "answered"} \cup Live => Same(f)
    BY <1>4 DEF Over, Live
  <2>2. at'[f] \in {"sent"} \cup Live =>
           /\ author'[m] \in Pages
           /\ Valid(author[m], url[f])'
           /\ tools'[author'[m]] = Tools
    BY <1>1, <1>2, <1>4, <2>1 DEF Same, Valid, Decided
  <2>3. at'[f] \in Live => Reach(author[m], turn[m])'
    BY <1>1, <1>2, <1>4, <2>1 DEF Same, Reach, Decided
  <2>4. Answered(f)' => author'[m] \in Pages /\ Good(author[m], reply[f])'
    <3>1. Answered(f)' => Answered(f) /\ reply'[f] = reply[f]
      BY <2>1 DEF Same, Answered
    <3> QED
      BY <1>1, <1>2, <1>4, <3>1 DEF Good, Valid, Reach, Decided
  <2>5. planned'[m] # None => at'[f] \in {"planned", "replied"}
    BY <1>2, <1>4 DEF Same
  <2>6. planned'[m] \notin {None, Tools} => author'[m] # turn'[m]
    BY <1>2, <1>4
  <2> QED
    BY <2>2, <2>3, <2>4, <2>5, <2>6
<1>5. ASSUME NEW p \in Pages, sendPrompt(p, m)
      PROVE  /\ author'[m] = p /\ at'[f] = "sent" /\ planned'[m] = None
             /\ Valid(author[m], url[f])' /\ tools'[p] = Tools
  <2>1. /\ author'[m] = p /\ at'[f] = "sent" /\ url'[f] = shown[p].id
        /\ shown[p] # None /\ author[m] = None
        /\ planned' = planned
    BY <1>0, <1>3, <1>5 DEF sendPrompt, Send, Set
  <2>2. Valid(p, shown[p].id) /\ tools[p] = Tools
    BY <2>1 DEF PageInv, Good
  <2>3. planned[m] = None
    BY <1>2, <2>1, PageAssumption DEF Live
  <2> QED
    BY <1>1, <2>1, <2>2, <2>3 DEF Valid, Decided
<1>6. CASE Turn(m) /\ author'[m] = author[m]
  <2>1. /\ url' = url /\ author' = author
        /\ at[f] \in {"sent"} \cup Live
    BY <1>6
    DEF Turn, HandleUserMessage, UnknownSession, Plan, TurnFails, Reply, Respond,
        Live, page
  <2>2. /\ author[m] \in Pages
        /\ Valid(author[m], url[f])
        /\ tools[author[m]] = Tools
    BY <1>2, <2>1
  <2>3. /\ author'[m] \in Pages
        /\ Valid(author[m], url[f])'
        /\ tools'[author'[m]] = Tools
    BY <1>1, <2>1, <2>2 DEF Valid, Decided
  <2>4. CASE HandleUserMessage(m)
    <3>1. /\ url[f] \in DOMAIN sessions /\ turn'[m] = sessions[url[f]]
          /\ at'[f] = "begun" /\ planned' = planned /\ at[f] = "sent"
      BY <1>0, <1>3, <2>4 DEF HandleUserMessage, Set
    <3>2. Reach(author[m], sessions[url[f]])
      BY <2>2, <3>1, Meet
    <3>3. Reach(author[m], turn[m])'
      BY <1>1, <2>1, <3>1, <3>2 DEF Reach, Decided
    <3>4. planned'[m] = None
      BY <1>2, <3>1
    <3> QED
      BY <2>3, <3>1, <3>3, <3>4 DEF Answered
  <2>5. CASE UnknownSession(m) \/ TurnFails(m)
    <3>1. /\ at'[f] = "answered" /\ reply'[f] = Failure
          /\ planned'[m] = None
      BY <1>0, <1>2, <1>3, <2>5
      DEF UnknownSession, TurnFails, Answer, Return, Set
    <3> QED
      BY <3>1 DEF Answered, Live
  <2>6. CASE Plan(m)
    <3>1. /\ at[f] = "begun" /\ at'[f] = "planned" /\ turn' = turn
          /\ planned'[m] = tools[turn[m]]
      BY <1>0, <1>3, <2>6 DEF Plan, Set
    <3>2. Reach(author[m], turn[m])
      BY <1>2, <3>1 DEF Live
    <3>3. Reach(author[m], turn[m])'
      BY <1>1, <2>1, <3>1, <3>2 DEF Reach, Decided
    <3> QED
      BY <2>1, <2>2, <2>3, <3>1, <3>3 DEF Answered
  <2>7. CASE Reply(m)
    <3>1. /\ at[f] = "planned" /\ at'[f] = "replied"
          /\ turn' = turn /\ planned' = planned
      BY <1>0, <1>3, <2>7 DEF Reply, Set
    <3>2. Reach(author[m], turn[m])'
      BY <1>1, <1>2, <2>1, <3>1 DEF Reach, Decided, Live
    <3> QED
      BY <1>2, <2>1, <2>3, <3>1, <3>2 DEF Answered
  <2>8. CASE Respond(m)
    <3>1. /\ at[f] = "replied" /\ at'[f] = "answered"
          /\ reply'[f] = Snapshot(url[f], turn[m])
          /\ planned'[m] = None
      BY <1>0, <1>3, <2>8 DEF Respond, Answer, Return, Set
    <3>2. Good(author[m], reply'[f])
      BY <1>2, <2>2, <3>1 DEF Good, Snapshot, Live
    <3>3. Good(author[m], reply[f])'
      BY <1>1, <2>1, <2>2, <3>2 DEF Good, Valid, Reach, Decided
    <3> QED
      BY <2>3, <3>1, <3>3 DEF Live
  <2> QED
    BY <1>6, <2>4, <2>5, <2>6, <2>7, <2>8 DEF Turn
<1>7. \/ Turn(m) /\ author'[m] = author[m]
      \/ \E p \in Pages : sendPrompt(p, m)
      \/ /\ Same(f) \/ Over(f)
         /\ author'[m] = author[m]
         /\ \/ turn'[m] = turn[m] /\ planned'[m] = planned[m]
            \/ planned'[m] = None /\ ~(at'[f] \in Live)
         /\ planned'[m] # None => Same(f)
  BY PromptSteps
<1>8. CASE \E p \in Pages : sendPrompt(p, m)
  BY <1>5, <1>8 DEF Answered, Live
<1> QED
  BY <1>4, <1>6, <1>7, <1>8

\* Nobody writes to a conversation that it could not meet.
LEMMA MessageStepInv ==
    ASSUME Typed, LifeInv, PromptInv, MessageInv, [Next]_vars
    PROVE  MessageInv'
<1> DEFINE M == [kind : {"user", "reply"}, of : Prompts]
<1>0. messages \in [Pages -> Seq(M)]
  BY DEF Typed, TypeOK
<1>1. /\ \A p, c : Reach(p, c) => Reach(p, c)'
      /\ \A m \in Prompts : author[m] \in Pages => author'[m] = author[m]
  BY Kept, Lasting
<1>2. ASSUME NEW p \in Pages, NEW i \in DOMAIN messages[p],
             NEW a, a = author'[messages[p][i].of]
      PROVE  Reach(a, p)'
  <2>1. Reach(author[messages[p][i].of], p)
    BY DEF MessageInv
  <2>2. messages[p] \in Seq(M)
    BY <1>0
  <2>3. messages[p][i].of \in Prompts
    <3>1. messages[p][i] \in M
      <4> HIDE DEF M
      <4> QED
        BY <2>2
    <3> QED
      BY <3>1
  <2>4. a = author[messages[p][i].of]
    BY <1>1, <1>2, <2>1, <2>3 DEF Reach
  <2>5. Reach(a, p)
    BY <2>1, <2>4
  <2> QED
    BY <1>1, <2>5
<1>3. ASSUME NEW c \in Pages, NEW m \in Prompts, NEW kind \in {"user", "reply"},
             AppendMessage(c, [kind |-> kind, of |-> m]), Reach(author[m], c)
      PROVE  MessageInv'
  <2>1. messages' = [messages EXCEPT
                       ![c] = Append(messages[c], [kind |-> kind, of |-> m])]
    BY <1>3 DEF AppendMessage
  <2>2. messages[c] \in Seq(M)
    BY <1>0
  <2>3. /\ DOMAIN messages'[c] = 1 .. Len(messages[c]) + 1
        /\ DOMAIN messages[c] = 1 .. Len(messages[c])
        /\ Len(messages[c]) \in Nat
        /\ \A i \in DOMAIN messages[c] : messages'[c][i] = messages[c][i]
        /\ messages'[c][Len(messages[c]) + 1] = [kind |-> kind, of |-> m]
    <3>1. messages'[c] = Append(messages[c], [kind |-> kind, of |-> m])
      BY <1>0, <2>1
    <3>2. [kind |-> kind, of |-> m] \in M
      OBVIOUS
    <3> HIDE DEF M
    <3> QED
      BY <2>2, <3>1, <3>2
  <2>4. \A p \in Pages \ {c} : messages'[p] = messages[p]
    BY <1>0, <2>1
  <2>5. author'[m] = author[m]
    BY <1>1, <1>3 DEF Reach
  <2> SUFFICES ASSUME NEW p \in Pages, NEW i \in DOMAIN messages'[p],
                      NEW a, a = author'[messages'[p][i].of]
               PROVE  Reach(a, p)'
    BY DEF MessageInv, Reach, Decided
  <2>6. CASE p # c \/ i # Len(messages[c]) + 1
    <3>1. i \in DOMAIN messages[p] /\ messages'[p][i] = messages[p][i]
      BY <2>3, <2>4, <2>6
    <3> QED
      BY <1>2, <3>1
  <2>7. CASE p = c /\ i = Len(messages[c]) + 1
    <3>1. Reach(a, p)
      BY <1>3, <2>3, <2>5, <2>7
    <3> QED
      BY <1>1, <3>1
  <2> QED
    BY <2>6, <2>7
<1>4. ASSUME NEW m \in Prompts, HandleUserMessage(m) PROVE MessageInv'
  <2> DEFINE id == url[message(m)]
  <2>1. /\ id \in DOMAIN sessions /\ author[m] \in Pages /\ Valid(author[m], id)
        /\ AppendMessage(sessions[id], [kind |-> "user", of |-> m])
    BY <1>4 DEF HandleUserMessage, PromptInv
  <2>2. Reach(author[m], sessions[id])
    BY <2>1, Meet
  <2> QED
    BY <1>3, <2>1, <2>2 DEF Reach
<1>5. ASSUME NEW m \in Prompts, Reply(m) PROVE MessageInv'
  <2>1. /\ Reach(author[m], turn[m])
        /\ AppendMessage(turn[m], [kind |-> "reply", of |-> m])
    BY <1>5 DEF Reply, PromptInv, Live
  <2> QED
    BY <1>3, <2>1 DEF Reach
<1>6. ASSUME messages' = messages PROVE MessageInv'
  BY <1>2, <1>6 DEF MessageInv, Reach, Decided
<1>7. \/ messages' = messages
      \/ \E m \in Prompts : HandleUserMessage(m) \/ Reply(m)
  BY DEF Next, PageStep, Respondent, Handlers, Turn, start, SessionCreated,
         CreateFails, Connected, ConnectFails, SocketCloses, Refreshed,
         RefreshFails, destroy, sendPrompt, PromptAnswered, PromptErrored,
         PromptLost, CreateSession, Create, seedSession, UpsertTool,
         SessionAnswer, Session, UnknownSession, Plan, TurnFails, Respond,
         BackendRestarts, Restart, store, vars
<1> QED
  BY <1>4, <1>5, <1>6, <1>7

\* Before the pages start nobody shows or wrote anything.
LEMMA PrivacyInit == Init => PrivacyInv
<1> SUFFICES ASSUME Init PROVE PrivacyInv
  OBVIOUS
<1> USE FetchNames
<1>1. LifeInv
  BY DEF Init, StoreInit, LifeInv
<1>2. PageInv
  BY DEF Init, PageInv, Answered
<1>3. PromptInv
  BY DEF Init, PromptInv, Answered, Live
<1>4. MessageInv
  <2>1. \A p \in Pages : DOMAIN messages[p] = {}
    BY PageAssumption DEF Init, StoreInit
  <2> QED
    BY <2>1 DEF MessageInv
<1> QED
  BY <1>1, <1>2, <1>3, <1>4, TypedInit DEF PrivacyInv

\* ... and no step lets a page meet a session that it should not.
LEMMA PrivacyInvariant == Spec => []PrivacyInv
<1>1. PrivacyInv /\ [Next]_vars => PrivacyInv'
  BY TypedStep, LifeStep, PageStepInv, PromptStepInv, MessageStepInv
  DEF PrivacyInv
<1> QED
  BY <1>1, PrivacyInit, PTL DEF Spec

\* A page and a conversation of another meet only across a restart, whatever
\* the number of pages, prompts and restarts.
THEOREM PrivateWithinALife == Spec => []StrangersAreSurvivors
<1>1. PrivacyInv => StrangersAreSurvivors
  BY DEF PrivacyInv, PageInv, MessageInv, Good, Reach, StrangersAreSurvivors
<1> QED
  BY <1>1, PrivacyInvariant, PTL

\* A turn in the session of its own page plans with all tools.
THEOREM OwnTurnsSeeTools == Spec => []OwnersSeeTools
<1>1. PrivacyInv => OwnersSeeTools
  BY DEF PrivacyInv, PromptInv, Live, Reach, OwnersSeeTools
<1> QED
  BY <1>1, PrivacyInvariant, PTL

-----------------------------------------------------------------------------
(* destroy().                                                              *)

Done == {"idle", "settled", "rejected"}

\* A response came for something that was under way when p was destroyed.
Responded(p) == \E f \in destroyed[p] : at[f] = "settled"

\* Fetch f of page p is over, or was under way when p was destroyed, or was
\* made possible by what was.
LeftOver(p, f) == at[f] \in Done \/ f \in destroyed[p] \/ Responded(p)

\* Of a destroyed page nothing is left but what was under way.
DestroyInv == \A p \in Pages : destroyed[p] # None =>
    /\ stage[p] # "new"
    /\ at[create(p)] \in Done \/ create(p) \in destroyed[p]
    /\ socket[p] \in {"connecting", "open"}
          => create(p) \in destroyed[p] /\ at[create(p)] = "settled"
    /\ shown[p] # None => Responded(p)
    /\ LeftOver(p, refresh(p))
    /\ \A m \in Prompts : author[m] = p => LeftOver(p, message(m))

\* No fetch is made twice: a page starts once, connects once, and a prompt is
\* sent once.
OnceInv ==
    /\ \A p \in Pages :
          /\ at[create(p)] # "idle" => stage[p] # "new"
          /\ at[refresh(p)] # "idle" \/ socket[p] = "connecting"
                => at[create(p)] = "settled"
          /\ at[refresh(p)] # "idle" => socket[p] # "connecting"
    /\ \A m \in Prompts : at[message(m)] # "idle" => author[m] # None

\* A page begins a fetch only when it starts, connects or sends a prompt.
LEMMA Begins ==
    ASSUME Typed, [Next]_vars
    PROVE  /\ \A p \in Pages :
                 /\ at[create(p)] \in Done /\ at'[create(p)] \notin Done => start(p)
                 /\ at[refresh(p)] \in Done /\ at'[refresh(p)] \notin Done
                       => shown[p] # None
           /\ \A m \in Prompts :
                 at[message(m)] \in Done /\ at'[message(m)] \notin Done
                    => \E p \in Pages : sendPrompt(p, m)
<1>0. at \in [Fetches -> {"idle", "sent", "answered", "lost", "settled",
                          "rejected"} \cup InHandler]
  BY DEF Typed, TypeOK
<1>1. ASSUME NEW f \in Fetches, at[f] \in Done PROVE at'[f] # "lost"
  <2> SUFFICES ASSUME at'[f] = "lost" PROVE FALSE
    OBVIOUS
  <2>1. at[f] # "lost" /\ at[f] \notin InHandler
    BY <1>1 DEF Done, InHandler
  <2>2. ASSUME NEW g \in Fetches,
               NEW how \in {"sent", "answered", "settled", "rejected", "stored",
                            "begun", "planned", "replied"},
               at' = [at EXCEPT ![g] = how]
        PROVE  FALSE
    BY <1>0, <2>1, <2>2
  <2>3. CASE BackendRestarts
    BY <2>1, <2>3 DEF BackendRestarts
  <2>4. CASE UNCHANGED at
    BY <2>1, <2>4
  <2>5. ASSUME NEW p \in Pages, PageStep(p) PROVE FALSE
    BY <2>2, <2>4, <2>5, FetchNames
    DEF PageStep, start, SessionCreated, CreateFails, Connected, ConnectFails,
        SocketCloses, Refreshed, RefreshFails, destroy, sendPrompt, Send,
        Settle, End, Set, request
  <2>6. ASSUME NEW m \in Prompts, Respondent(m) PROVE FALSE
    BY <2>2, <2>6, FetchNames
    DEF Respondent, PromptAnswered, PromptErrored, PromptLost, Settle, End, Set
  <2>7. ASSUME NEW p \in Pages, Handlers(p) PROVE FALSE
    BY <2>2, <2>4, <2>7, FetchNames
    DEF Handlers, CreateSession, seedSession, SessionAnswer, Session, Answer, Set,
        request
  <2>8. ASSUME NEW m \in Prompts, Turn(m) PROVE FALSE
    BY <2>2, <2>8, FetchNames
    DEF Turn, HandleUserMessage, UnknownSession, Plan, TurnFails, Reply, Respond,
        Answer, Set
  <2> QED
    BY <2>3, <2>4, <2>5, <2>6, <2>7, <2>8 DEF Next, vars, request
<1>2. ASSUME NEW p \in Pages, at[create(p)] \in Done, at'[create(p)] \notin Done
      PROVE  start(p)
  <2>1. ~Same(create(p)) /\ ~Over(create(p))
    BY <1>1, <1>2, FetchNames DEF Same, Over, Done
  <2>2. ~CreateSession(p) /\ ~SessionAnswer(p)
    BY <1>2 DEF CreateSession, SessionAnswer, Done
  <2> QED
    BY <2>1, <2>2, FetchSteps
<1>3. ASSUME NEW p \in Pages, at[refresh(p)] \in Done, at'[refresh(p)] \notin Done
      PROVE  shown[p] # None
  <2>1. ~Same(refresh(p)) /\ ~Over(refresh(p))
    BY <1>1, <1>3, FetchNames DEF Same, Over, Done
  <2>2. ~Session(p)
    BY <1>3 DEF Session, Done
  <2>3. Connected(p)
    BY <2>1, <2>2, FetchSteps
  <2> QED
    BY <1>3, <2>3 DEF Connected
<1>4. ASSUME NEW m \in Prompts, at[message(m)] \in Done, at'[message(m)] \notin Done
      PROVE  \E p \in Pages : sendPrompt(p, m)
  <2>1. ~Same(message(m)) /\ ~Over(message(m))
    BY <1>1, <1>4, FetchNames DEF Same, Over, Done
  <2>2. ~Turn(m)
    BY <1>4
    DEF Turn, HandleUserMessage, UnknownSession, Plan, TurnFails, Reply, Respond,
        Done
  <2> QED
    BY <2>1, <2>2, FetchSteps
<1> QED
  BY <1>2, <1>3, <1>4

\* A socket comes up from connecting, and that from a session created.
LEMMA SocketSteps ==
    ASSUME Typed, [Next]_vars
    PROVE  \A p \in Pages :
              /\ stage[p] # "new" => stage'[p] # "new"
              /\ socket'[p] \in {"connecting", "open"} =>
                    socket[p] \in {"connecting", "open"} \/ SessionCreated(p)
              /\ socket'[p] = "connecting" =>
                    socket[p] = "connecting" \/ SessionCreated(p)
              /\ destroyed'[p] = destroyed[p] \/ destroy(p)
<1>0. /\ stage \in [Pages -> {"new", "creating", "connecting", "refreshing",
                              "ended"}]
      /\ socket \in [Pages -> {"none", "connecting", "open", "closed"}]
      /\ destroyed \in [Pages -> (SUBSET Fetches) \cup {None}]
  BY DEF Typed, TypeOK
<1> SUFFICES ASSUME NEW p \in Pages
             PROVE  /\ stage[p] # "new" => stage'[p] # "new"
                    /\ socket'[p] \in {"connecting", "open"} =>
                          \/ socket[p] \in {"connecting", "open"}
                          \/ SessionCreated(p)
                    /\ socket'[p] = "connecting" =>
                          socket[p] = "connecting" \/ SessionCreated(p)
                    /\ destroyed'[p] = destroyed[p] \/ destroy(p)
  OBVIOUS
<1>1. ASSUME NEW q \in Pages, start(q) \/ CreateFails(q) \/ Refreshed(q)
                \/ RefreshFails(q)
      PROVE  /\ stage[p] # "new" => stage'[p] # "new"
             /\ socket'[p] = socket[p] /\ destroyed'[p] = destroyed[p]
  BY <1>0, <1>1 DEF start, CreateFails, Refreshed, RefreshFails, Set
<1>2. ASSUME NEW q \in Pages, SessionCreated(q)
      PROVE  /\ stage[p] # "new" => stage'[p] # "new"
             /\ socket'[p] = socket[p] \/ SessionCreated(p)
             /\ destroyed'[p] = destroyed[p]
  BY <1>0, <1>2 DEF SessionCreated, Set
<1>3. ASSUME NEW q \in Pages, Connected(q) \/ ConnectFails(q) \/ SocketCloses(q)
      PROVE  /\ stage[p] # "new" => stage'[p] # "new"
             /\ socket'[p] \in {"connecting", "open"}
                   => socket[p] \in {"connecting", "open"}
             /\ socket'[p] = "connecting" => socket[p] = "connecting"
             /\ destroyed'[p] = destroyed[p]
  BY <1>0, <1>3 DEF Connected, ConnectFails, SocketCloses, Set
<1>4. ASSUME NEW q \in Pages, destroy(q)
      PROVE  /\ stage'[p] = stage[p]
             /\ socket'[p] \in {"connecting", "open"}
                   => socket[p] \in {"connecting", "open"}
             /\ socket'[p] = "connecting" => socket[p] = "connecting"
             /\ destroyed'[p] = destroyed[p] \/ destroy(p)
  BY <1>0, <1>4 DEF destroy, Set
<1>5. CASE UNCHANGED <<stage, socket, destroyed>>
  BY <1>5
<1> QED
  BY <1>1, <1>2, <1>3, <1>4, <1>5
  DEF Next, PageStep, Respondent, Handlers, Turn, sendPrompt, PromptAnswered,
      PromptErrored, PromptLost, CreateSession, seedSession, SessionAnswer,
      Session, HandleUserMessage, UnknownSession, Plan, TurnFails, Reply, Respond,
      BackendRestarts, page, vars

\* Only these three send a fetch that was not sent before, or is over.
LEMMA FetchOnce ==
    ASSUME Typed, [Next]_vars,
           NEW f \in Fetches, at[f] \in {"idle", "settled"}, at'[f] # at[f]
    PROVE  \/ \E p \in Pages : f = create(p) /\ start(p)
           \/ \E p \in Pages : f = refresh(p) /\ Connected(p)
           \/ \E p \in Pages, m \in Prompts : f = message(m) /\ sendPrompt(p, m)
<1>0. at \in [Fetches -> {"idle", "sent", "answered", "lost", "settled",
                          "rejected"} \cup InHandler]
  BY DEF Typed, TypeOK
<1>1. ASSUME NEW g \in Fetches, NEW how, at' = [at EXCEPT ![g] = how]
      PROVE  f = g
  BY <1>0, <1>1
<1>2. at' # at /\ at[f] \notin {"sent", "answered", "lost"} \cup InHandler
  BY DEF InHandler
<1>3. ~BackendRestarts
  BY <1>0, <1>2 DEF BackendRestarts
<1>4. ASSUME NEW p \in Pages, PageStep(p)
      PROVE  \/ f = create(p) /\ start(p)
             \/ f = refresh(p) /\ Connected(p)
             \/ \E m \in Prompts : f = message(m) /\ sendPrompt(p, m)
  <2>1. CASE start(p) \/ Connected(p) \/ \E m \in Prompts : sendPrompt(p, m)
    BY <1>1, <1>2, <2>1, FetchNames DEF start, Connected, sendPrompt, Send, Set
  <2>2. CASE \/ SessionCreated(p) \/ CreateFails(p) \/ Refreshed(p)
             \/ RefreshFails(p)
    BY <1>1, <1>2, <2>2, FetchNames
    DEF SessionCreated, CreateFails, Refreshed, RefreshFails, Settle, End, Set,
        Answered, Errored, Rejected
  <2>3. CASE ConnectFails(p) \/ SocketCloses(p) \/ destroy(p)
    BY <1>2, <2>3 DEF ConnectFails, SocketCloses, destroy, request
  <2> QED
    BY <1>4, <2>1, <2>2, <2>3 DEF PageStep
<1>5. ASSUME NEW m \in Prompts PROVE ~Respondent(m)
  BY <1>1, <1>2, FetchNames
  DEF Respondent, PromptAnswered, PromptErrored, PromptLost, Settle, End, Set,
      Answered, Errored, Rejected
<1>6. ASSUME NEW p \in Pages PROVE ~Handlers(p)
  BY <1>1, <1>2, FetchNames
  DEF Handlers, CreateSession, seedSession, SessionAnswer, Session, Answer, Set,
      request, InHandler
<1>7. ASSUME NEW m \in Prompts PROVE ~Turn(m)
  BY <1>1, <1>2, FetchNames
  DEF Turn, HandleUserMessage, UnknownSession, Plan, TurnFails, Reply, Respond,
      Answer, Set, InHandler
<1> QED
  BY <1>2, <1>3, <1>4, <1>5, <1>6, <1>7 DEF Next, vars, request

\* The author of a prompt is set once, when it is sent.
LEMMA AuthorSteps ==
    ASSUME Typed, [Next]_vars, NEW m \in Prompts
    PROVE  \/ author'[m] = author[m]
           \/ \E p \in Pages : sendPrompt(p, m) /\ author'[m] = p
<1>0. author \in [Prompts -> Pages \cup {None}]
  BY DEF Typed, TypeOK
<1>1. ASSUME NEW p \in Pages, NEW n \in Prompts, sendPrompt(p, n)
      PROVE  IF n = m THEN author'[m] = p ELSE author'[m] = author[m]
  BY <1>0, <1>1 DEF sendPrompt, Set
<1> QED
  BY <1>1
  DEF Next, PageStep, Respondent, Handlers, Turn, start, SessionCreated,
      CreateFails, Connected, ConnectFails, SocketCloses, Refreshed,
      RefreshFails, destroy, PromptAnswered, PromptErrored, PromptLost,
      CreateSession, seedSession, SessionAnswer, Session, HandleUserMessage,
      UnknownSession, Plan, TurnFails, Reply, Respond, BackendRestarts, page,
      vars

\* A response that was seen is not waited for again.
LEMMA SettledStays ==
    ASSUME Typed, OnceInv, [Next]_vars, NEW f \in Fetches, at[f] = "settled"
    PROVE  at'[f] = "settled"
<1> SUFFICES ASSUME at'[f] # at[f] PROVE FALSE
  OBVIOUS
<1>1. ASSUME NEW p \in Pages, f = create(p), start(p) PROVE FALSE
  BY <1>1 DEF OnceInv, start
<1>2. ASSUME NEW p \in Pages, f = refresh(p), Connected(p) PROVE FALSE
  BY <1>2 DEF OnceInv, Connected
<1>3. ASSUME NEW p \in Pages, NEW m \in Prompts, f = message(m),
             sendPrompt(p, m)
      PROVE  FALSE
  BY <1>3 DEF OnceInv, sendPrompt
<1> QED
  BY <1>1, <1>2, <1>3, FetchOnce

\* No step makes a fetch possible a second time.
LEMMA OnceStep ==
    ASSUME Typed, OnceInv, [Next]_vars
    PROVE  OnceInv'
<1>0. /\ at \in [Fetches -> {"idle", "sent", "answered", "lost", "settled",
                             "rejected"} \cup InHandler]
      /\ stage \in [Pages -> {"new", "creating", "connecting", "refreshing",
                              "ended"}]
      /\ socket \in [Pages -> {"none", "connecting", "open", "closed"}]
  BY DEF Typed, TypeOK
<1>1. ASSUME NEW p \in Pages, SessionCreated(p)
      PROVE  at[create(p)] = "answered" /\ at'[create(p)] = "settled"
  BY <1>0, <1>1, FetchNames DEF SessionCreated, Settle, End, Set, Answered
<1>2. ASSUME NEW p \in Pages, at[create(p)] = "settled"
      PROVE  at'[create(p)] = "settled"
  BY <1>2, SettledStays, FetchNames
<1>3. ASSUME NEW p \in Pages, at[refresh(p)] = "idle", at'[refresh(p)] # "idle"
      PROVE  Connected(p)
  BY <1>3, FetchOnce, FetchNames
<1>4. ASSUME NEW p \in Pages, at'[create(p)] # "idle" PROVE stage'[p] # "new"
  <2>1. CASE at[create(p)] # "idle"
    BY <2>1, SocketSteps DEF OnceInv
  <2>2. CASE at[create(p)] = "idle"
    <3>1. start(p)
      BY <1>4, <2>2, FetchOnce, FetchNames
    <3> QED
      BY <1>0, <3>1 DEF start, Set
  <2> QED
    BY <2>1, <2>2
<1>5. ASSUME NEW p \in Pages, at'[refresh(p)] # "idle" \/ socket'[p] = "connecting"
      PROVE  at'[create(p)] = "settled"
  <2>1. CASE at[refresh(p)] # "idle" \/ socket[p] = "connecting"
    BY <1>2, <2>1 DEF OnceInv
  <2>2. CASE at[refresh(p)] = "idle" /\ socket[p] # "connecting"
    <3>1. at'[refresh(p)] = "idle"
      BY <1>3, <2>2 DEF Connected
    <3>2. SessionCreated(p)
      BY <1>5, <2>2, <3>1, SocketSteps
    <3> QED
      BY <1>1, <3>2
  <2> QED
    BY <2>1, <2>2
<1>6. ASSUME NEW p \in Pages, at'[refresh(p)] # "idle"
      PROVE  socket'[p] # "connecting"
  <2>1. CASE at[refresh(p)] # "idle"
    BY <1>1, <2>1, SocketSteps DEF OnceInv
  <2>2. CASE at[refresh(p)] = "idle"
    BY <1>0, <1>3, <1>6, <2>2 DEF Connected, Set
  <2> QED
    BY <2>1, <2>2
<1>7. ASSUME NEW m \in Prompts, at'[message(m)] # "idle"
      PROVE  author'[m] # None
  <2>1. CASE at[message(m)] # "idle"
    BY <2>1, AuthorSteps, PageAssumption DEF OnceInv
  <2>2. CASE at[message(m)] = "idle"
    <3>1. PICK p \in Pages : sendPrompt(p, m)
      BY <1>7, <2>2, FetchOnce, FetchNames
    <3>2. author'[m] = p
      BY <3>1 DEF sendPrompt, Set, Typed, TypeOK
    <3> QED
      BY <3>2, PageAssumption
  <2> QED
    BY <2>1, <2>2
<1> QED
  BY <1>4, <1>5, <1>6, <1>7 DEF OnceInv, create, refresh, message

\* What is left of a destroyed page comes to its end.
LEMMA DestroyStep ==
    ASSUME Typed, OnceInv, DestroyInv, [Next]_vars
    PROVE  DestroyInv'
<1>0. /\ at \in [Fetches -> {"idle", "sent", "answered", "lost", "settled",
                             "rejected"} \cup InHandler]
      /\ destroyed \in [Pages -> (SUBSET Fetches) \cup {None}]
  BY DEF Typed, TypeOK
<1> SUFFICES ASSUME NEW p \in Pages, destroyed'[p] # None
             PROVE  /\ stage'[p] # "new"
                    /\ at'[create(p)] \in Done \/ create(p) \in destroyed'[p]
                    /\ socket'[p] \in {"connecting", "open"}
                          => /\ create(p) \in destroyed'[p]
                             /\ at'[create(p)] = "settled"
                    /\ shown'[p] # None => Responded(p)'
                    /\ LeftOver(p, refresh(p))'
                    /\ \A m \in Prompts :
                          author'[m] = p => LeftOver(p, message(m))'
  BY DEF DestroyInv, create, refresh, message
<1>3. CASE destroyed'[p] = destroyed[p]
  <2>1. /\ stage[p] # "new"
        /\ at[create(p)] \in Done \/ create(p) \in destroyed[p]
        /\ socket[p] \in {"connecting", "open"}
              => create(p) \in destroyed[p] /\ at[create(p)] = "settled"
        /\ shown[p] # None => Responded(p)
        /\ LeftOver(p, refresh(p))
        /\ \A m \in Prompts : author[m] = p => LeftOver(p, message(m))
    BY <1>3 DEF DestroyInv
  <2>2. stage'[p] # "new"
    BY <2>1, SocketSteps
  <2>3. at'[create(p)] \in Done \/ create(p) \in destroyed'[p]
    BY <1>3, <2>1, Begins DEF start
  <2>4. Responded(p) => Responded(p)'
    <3>1. \A f \in destroyed[p] : f \in Fetches
      BY <1>0, <1>3
    <3>2. \A f \in destroyed[p] : at[f] = "settled" => at'[f] = "settled"
      BY <3>1, SettledStays
    <3> QED
      BY <1>3, <3>2 DEF Responded
  <2>5. ASSUME NEW f \in Fetches, Shows(p, f), LeftOver(p, f)
        PROVE  Responded(p)'
    <3>1. at[f] \notin Done /\ at'[f] = "settled"
      BY <2>5 DEF Shows, Answered, Done
    <3> QED
      BY <1>3, <2>4, <2>5, <3>1 DEF LeftOver, Responded
  <2>6. ASSUME socket'[p] \in {"connecting", "open"}
        PROVE  create(p) \in destroyed'[p] /\ at'[create(p)] = "settled"
    <3>1. CASE socket[p] \in {"connecting", "open"}
      BY <1>3, <2>1, <3>1, SettledStays, FetchNames
    <3>2. CASE SessionCreated(p)
      BY <1>0, <1>3, <2>1, <3>2, FetchNames
      DEF SessionCreated, Answered, Settle, End, Set, Done
    <3> QED
      BY <2>6, <3>1, <3>2, SocketSteps
  <2>7. ASSUME shown'[p] # None PROVE Responded(p)'
    <3>1. CASE shown'[p] = shown[p]
      BY <2>1, <2>4, <2>7, <3>1
    <3>2. CASE Shows(p, create(p))
      <4>1. LeftOver(p, create(p))
        BY <2>1 DEF LeftOver
      <4> QED
        BY <2>5, <3>2, <4>1, FetchNames
    <3>3. CASE Shows(p, refresh(p))
      BY <2>1, <2>5, <3>3, FetchNames
    <3>4. CASE \E m \in Prompts : author[m] = p /\ Shows(p, message(m))
      BY <2>1, <2>5, <3>4, FetchNames
    <3> QED
      BY <2>7, <3>1, <3>2, <3>3, <3>4, ShownSteps
  <2>8. LeftOver(p, refresh(p))'
    <3>1. at'[refresh(p)] \in Done \/ shown[p] # None \/ at[refresh(p)] \notin Done
      BY Begins
    <3> QED
      BY <1>3, <2>1, <2>4, <3>1 DEF LeftOver, refresh
  <2>9. ASSUME NEW m \in Prompts, author'[m] = p
        PROVE  LeftOver(p, message(m))'
    <3>1. CASE \E q \in Pages : sendPrompt(q, m) /\ author'[m] = q
      BY <2>1, <2>4, <2>9, <3>1 DEF sendPrompt, LeftOver
    <3>2. CASE author'[m] = author[m] /\ ~\E q \in Pages : sendPrompt(q, m)
      <4>1. LeftOver(p, message(m))
        BY <2>1, <2>9, <3>2
      <4>2. at'[message(m)] \in Done \/ at[message(m)] \notin Done
        BY <3>2, Begins
      <4> QED
        BY <1>3, <2>4, <4>1, <4>2 DEF LeftOver, message
    <3>3. CASE \E q \in Pages : sendPrompt(q, m) /\ author'[m] # q
      BY <3>3 DEF sendPrompt, Set, Typed, TypeOK
    <3> QED
      BY <3>1, <3>2, <3>3, AuthorSteps
  <2> QED
    BY <2>2, <2>3, <2>6, <2>7, <2>8, <2>9
<1>4. CASE destroy(p)
  <2>1. /\ destroyed'[p] = UnderWay(p) /\ stage' = stage /\ stage[p] # "new"
        /\ shown'[p] = None /\ socket'[p] \notin {"connecting", "open"}
        /\ at' = at /\ author' = author
    BY <1>4 DEF destroy, Set, request, Typed, TypeOK
  <2>2. \A f \in {create(p), refresh(p)}
                \cup {message(m) : m \in {m \in Prompts : author[m] = p}} :
           at[f] \notin Done => f \in UnderWay(p)
    BY DEF UnderWay, Done
  <2> QED
    BY <2>1, <2>2 DEF LeftOver, create, refresh, message
<1> QED
  BY <1>3, <1>4, SocketSteps

\* destroy() is final for every page but for what was under way: what comes
\* back then comes with a response to it.
THEOREM DestroyIsFinal == Spec => []DestroyedStaysClosed
<1>1. Init => DestroyInv /\ OnceInv
  BY FetchNames DEF Init, DestroyInv, OnceInv
<1>2. Typed /\ OnceInv /\ DestroyInv /\ [Next]_vars
         => Typed' /\ OnceInv' /\ DestroyInv'
  BY TypedStep, OnceStep, DestroyStep
<1>3. DestroyInv => DestroyedStaysClosed
  BY DEF DestroyInv, Responded, DestroyedStaysClosed
<1> QED
  BY <1>1, <1>2, <1>3, TypedInit, PTL DEF Spec

-----------------------------------------------------------------------------
(* What a page shows goes back only by a response that was overtaken.      *)
(*                                                                         *)
(* A transcript only grows.  So whatever a page shows, noted when it sent  *)
(* a fetch, or finds in a response is a beginning of it (Behind); and a    *)
(* response is no shorter than what the page noted, for it was taken       *)
(* later (Later).                                                          *)

Transcripts == Seq([kind : {"user", "reply"}, of : Prompts])

\* Snapshot s shows a beginning of its conversation.
Behind(s) == s \in Snapshots /\ IsPrefix(s.messages, messages[s.conversation])

\* Snapshot s shows no less than r does, if they are of one conversation.
Later(r, s) ==
    r.conversation = s.conversation => IsPrefix(r.messages, s.messages)

ViewInv ==
    /\ \A p \in Pages : shown[p] # None => Behind(shown[p])
    /\ \A f \in Fetches : asked[f] # None => Behind(asked[f])
    /\ \A f \in Fetches : Answered(f)
          => Behind(reply[f]) /\ (asked[f] # None => Later(asked[f], reply[f]))

-----------------------------------------------------------------------------

\* A prefix, message by message.
LEMMA PrefixMeans ==
    ASSUME NEW S, NEW s \in Seq(S), NEW t \in Seq(S)
    PROVE  IsPrefix(s, t)
             <=> Len(s) <= Len(t) /\ \A i \in 1 .. Len(s) : s[i] = t[i]
<1> DEFINE front == SubSeq(t, 1, Len(s))
<1>1. SubSeq(s, 1, Len(s)) = s
  BY SubSeqFull
<1>2. ASSUME Len(s) <= Len(t)
      PROVE  /\ front \in Seq(S) /\ Len(front) = Len(s)
             /\ \A i \in 1 .. Len(s) : front[i] = t[i]
  <2>1. Len(s) \in Nat /\ Len(t) \in Nat /\ \A i \in 1 .. Len(s) : t[i] \in S
    BY <1>2
  <2>2. /\ SubSeq(t, 1, Len(s)) \in Seq(S)
        /\ Len(SubSeq(t, 1, Len(s)))
             = IF 1 <= Len(s) THEN Len(s) - 1 + 1 ELSE 0
        /\ \A i \in 1 .. Len(s) - 1 + 1 :
              SubSeq(t, 1, Len(s))[i] = t[1 + i - 1]
    BY <2>1, SubSeqProperties
  <2> QED
    BY <2>1, <2>2
<1>3. ASSUME Len(s) <= Len(t)
      PROVE  s = front <=> \A i \in 1 .. Len(s) : s[i] = t[i]
  <2> HIDE DEF front
  <2> QED
    BY <1>2, <1>3, SeqEqual
<1> QED
  BY <1>1, <1>3 DEF IsPrefix

\* A beginning of a beginning is one.
LEMMA PrefixOrder ==
    ASSUME NEW S, NEW s \in Seq(S), NEW t \in Seq(S), NEW u \in Seq(S)
    PROVE  /\ IsPrefix(s, s)
           /\ IsPrefix(s, t) /\ IsPrefix(t, u) => IsPrefix(s, u)
<1>1. /\ IsPrefix(s, t) <=> Len(s) <= Len(t) /\ \A i \in 1 .. Len(s) : s[i] = t[i]
      /\ IsPrefix(t, u) <=> Len(t) <= Len(u) /\ \A i \in 1 .. Len(t) : t[i] = u[i]
      /\ IsPrefix(s, u) <=> Len(s) <= Len(u) /\ \A i \in 1 .. Len(s) : s[i] = u[i]
      /\ IsPrefix(s, s) <=> Len(s) <= Len(s) /\ \A i \in 1 .. Len(s) : s[i] = s[i]
  BY PrefixMeans
<1>2. Len(s) \in Nat /\ Len(t) \in Nat /\ Len(u) \in Nat
  OBVIOUS
<1> QED
  BY <1>1, <1>2

\* A transcript is a beginning of what one more message makes of it.
LEMMA PrefixAppend ==
    ASSUME NEW S, NEW s \in Seq(S), NEW m \in S
    PROVE  IsPrefix(s, Append(s, m))
<1>1. /\ Append(s, m) \in Seq(S)
      /\ Len(Append(s, m)) = Len(s) + 1
      /\ \A i \in 1 .. Len(s) : s[i] = Append(s, m)[i]
  OBVIOUS
<1> DEFINE t == Append(s, m)
<1>2. Len(s) \in Nat /\ t \in Seq(S) /\ Len(s) <= Len(t)
      /\ \A i \in 1 .. Len(s) : s[i] = t[i]
  BY <1>1
<1> HIDE DEF t
<1>3. IsPrefix(s, t)
  BY <1>2, PrefixMeans
<1> QED
  BY <1>3 DEF t

-----------------------------------------------------------------------------

\* A transcript only grows: nobody takes a message back, not even a restart.
LEMMA TranscriptsGrow ==
    ASSUME Typed, [Next]_vars
    PROVE  /\ messages \in [Pages -> Transcripts]
           /\ messages' \in [Pages -> Transcripts]
           /\ \A c \in Pages : IsPrefix(messages[c], messages'[c])
<1>1. messages \in [Pages -> Transcripts] /\ messages' \in [Pages -> Transcripts]
  BY TypedStep DEF Typed, TypeOK, Transcripts
<1>2. ASSUME NEW c \in Pages, NEW kind \in {"user", "reply"}, NEW m \in Prompts,
             AppendMessage(c, [kind |-> kind, of |-> m])
      PROVE  \A d \in Pages : IsPrefix(messages[d], messages'[d])
  <2> DEFINE M == [kind : {"user", "reply"}, of : Prompts]
             new == [kind |-> kind, of |-> m]
  <2>1. new \in M /\ messages \in [Pages -> Seq(M)]
    BY <1>1 DEF Transcripts
  <2>2. messages' = [messages EXCEPT ![c] = Append(messages[c], new)]
    BY <1>2 DEF AppendMessage
  <2> HIDE DEF M, new
  <2>3. IsPrefix(messages[c], Append(messages[c], new))
    BY <2>1, PrefixAppend
  <2>4. \A d \in Pages : IsPrefix(messages[d], messages[d])
    BY <2>1, PrefixOrder
  <2>5. /\ messages'[c] = Append(messages[c], new)
        /\ \A d \in Pages : d # c => messages'[d] = messages[d]
    BY <2>1, <2>2
  <2> QED
    BY <2>3, <2>4, <2>5
<1>3. CASE UNCHANGED messages
  BY <1>1, <1>3, PrefixOrder DEF Transcripts
<1>4. ASSUME NEW m \in Prompts, HandleUserMessage(m)
      PROVE  \A d \in Pages : IsPrefix(messages[d], messages'[d])
  <2>1. sessions[url[message(m)]] \in Pages
    BY <1>4, LookupTyped DEF HandleUserMessage, Typed
  <2> QED
    BY <1>2, <1>4, <2>1 DEF HandleUserMessage
<1>5. ASSUME NEW m \in Prompts, Reply(m)
      PROVE  \A d \in Pages : IsPrefix(messages[d], messages'[d])
  <2>1. turn[m] \in Pages
    BY <1>5 DEF Reply, Typed, HandlerHolds, Live
  <2> QED
    BY <1>2, <1>5, <2>1 DEF Reply
<1>6. \/ UNCHANGED messages
      \/ \E m \in Prompts : HandleUserMessage(m) \/ Reply(m)
  BY DEF Next, PageStep, Respondent, Handlers, Turn, start, SessionCreated,
         CreateFails, Connected, ConnectFails, SocketCloses, Refreshed,
         RefreshFails, sendPrompt, destroy, PromptAnswered, PromptErrored,
         PromptLost, CreateSession, Create, seedSession, UpsertTool,
         SessionAnswer, Session, UnknownSession, Plan, TurnFails, Respond,
         BackendRestarts, Restart, store, vars
<1> QED
  BY <1>1, <1>3, <1>4, <1>5, <1>6

\* So what was a beginning remains one.
LEMMA BehindStays ==
    ASSUME Typed, [Next]_vars
    PROVE  \A s : Behind(s) => Behind(s)'
<1> DEFINE M == [kind : {"user", "reply"}, of : Prompts]
<1>1. /\ messages \in [Pages -> Seq(M)] /\ messages' \in [Pages -> Seq(M)]
      /\ \A c \in Pages : IsPrefix(messages[c], messages'[c])
  BY TranscriptsGrow DEF Transcripts
<1> SUFFICES ASSUME NEW s \in Snapshots,
                    IsPrefix(s.messages, messages[s.conversation])
             PROVE  IsPrefix(s.messages, messages'[s.conversation])
  BY DEF Behind
<1>2. s.messages \in Seq(M) /\ s.conversation \in Pages
  BY DEF Snapshots
<1> HIDE DEF M
<1> QED
  BY <1>1, <1>2, PrefixOrder

\* What a page notes is what it shows.
LEMMA AskedSteps ==
    ASSUME Typed, [Next]_vars
    PROVE  \A f \in Fetches :
              \/ asked'[f] = asked[f]
              \/ asked'[f] = None
              \/ at'[f] = "sent" /\ \E p \in Pages : asked'[f] = shown[p]
<1>0. /\ asked \in [Fetches -> Snapshots \cup {None}]
      /\ at \in [Fetches -> {"idle", "sent", "answered", "lost", "settled",
                             "rejected"} \cup InHandler]
  BY DEF Typed, TypeOK
<1> DEFINE Goal == \A f \in Fetches :
              \/ asked'[f] = asked[f]
              \/ asked'[f] = None
              \/ at'[f] = "sent" /\ \E p \in Pages : asked'[f] = shown[p]
<1>1. ASSUME NEW g \in Fetches, NEW how, End(g, how) PROVE Goal
  BY <1>0, <1>1 DEF End, Set
<1>2. ASSUME NEW g \in Fetches, NEW p \in Pages, NEW id, Send(g, p, id) PROVE Goal
  BY <1>0, <1>2 DEF Send, Set
<1>3. ASSUME asked' = asked PROVE Goal
  BY <1>3
<1> SUFFICES Goal
  OBVIOUS
<1> HIDE DEF Goal
<1>4. ASSUME NEW p \in Pages, PageStep(p) PROVE Goal
  <2>1. CASE start(p) \/ \E m \in Prompts : sendPrompt(p, m)
    BY <1>2, <2>1, FetchNames DEF start, sendPrompt
  <2>2. CASE SessionCreated(p) \/ CreateFails(p) \/ Refreshed(p) \/ RefreshFails(p)
    BY <1>1, <2>2, FetchNames
    DEF SessionCreated, CreateFails, Refreshed, RefreshFails, Settle
  <2>3. CASE Connected(p)
    <3>1. asked' = asked \/ Send(refresh(p), p, shown[p].id)
      BY <2>3 DEF Connected
    <3> QED
      BY <1>2, <1>3, <3>1, FetchNames
  <2>4. CASE ConnectFails(p) \/ SocketCloses(p) \/ destroy(p)
    BY <1>3, <2>4 DEF ConnectFails, SocketCloses, destroy, request
  <2> QED
    BY <1>4, <2>1, <2>2, <2>3, <2>4 DEF PageStep
<1>5. ASSUME NEW m \in Prompts, Respondent(m) PROVE Goal
  BY <1>1, <1>5, FetchNames
  DEF Respondent, PromptAnswered, PromptErrored, PromptLost, Settle
<1>6. ASSUME NEW p \in Pages, Handlers(p) PROVE Goal
  BY <1>3, <1>6
  DEF Handlers, CreateSession, seedSession, SessionAnswer, Session, request
<1>7. ASSUME NEW m \in Prompts, Turn(m) PROVE Goal
  BY <1>3, <1>7
  DEF Turn, HandleUserMessage, UnknownSession, Plan, TurnFails, Reply, Respond
<1>8. CASE BackendRestarts \/ UNCHANGED vars
  BY <1>3, <1>8 DEF BackendRestarts, vars, request
<1> QED
  BY <1>4, <1>5, <1>6, <1>7, <1>8 DEF Next

\* A response brings what its conversation is when the handler looks.
LEMMA ReplySteps ==
    ASSUME Typed, [Next]_vars, NEW f \in Fetches, at'[f] = "answered",
           reply'[f] # Failure
    PROVE  /\ asked'[f] = asked[f] \/ asked'[f] = None
           /\ \/ at[f] = "answered" /\ reply'[f] = reply[f]
              \/ /\ UNCHANGED messages
                 /\ \E id \in Nat \ {0}, c \in Pages : reply'[f] = Snapshot(id, c)
<1>0. /\ at \in [Fetches -> {"idle", "sent", "answered", "lost", "settled",
                             "rejected"} \cup InHandler]
      /\ url \in [Fetches -> (Nat \ {0}) \cup {None}]
      /\ reply \in [Fetches -> Snapshots \cup {None, Failure}]
  BY DEF Typed, TypeOK
<1> DEFINE Fresh ==
      /\ UNCHANGED messages
      /\ \E id \in Nat \ {0}, c \in Pages : reply'[f] = Snapshot(id, c)
<1>1. asked'[f] = asked[f] \/ asked'[f] = None
  BY AskedSteps
<1>2. CASE Same(f)
  BY <1>1, <1>2 DEF Same
<1>3. ~Over(f)
  BY DEF Over
<1>4. ASSUME NEW p \in Pages, f = create(p), ~Same(f) PROVE Fresh
  <2>1. ~start(p) /\ ~CreateSession(p)
    BY <1>0, <1>4, FetchNames DEF start, Send, CreateSession, Set
  <2>2. SessionAnswer(p)
    BY <1>3, <1>4, <2>1, FetchSteps
  <2>3. /\ reply'[f] = Snapshot(url[f], p) /\ UNCHANGED store
        /\ at[f] = "stored"
    BY <1>0, <1>4, <2>2 DEF SessionAnswer, Answer, Set
  <2>4. url[f] \in Nat \ {0}
    BY <1>4, <2>3 DEF Typed, HandlerHolds
  <2> QED
    BY <2>3, <2>4 DEF store
<1>5. ASSUME NEW p \in Pages, f = refresh(p), ~Same(f) PROVE Fresh
  <2>1. ~Connected(p)
    BY <1>0, <1>5, FetchNames DEF Connected, Send, Set, Same
  <2>2. Session(p)
    BY <1>3, <1>5, <2>1, FetchSteps
  <2>3. /\ reply'[f] = Snapshot(url[f], sessions[url[f]])
        /\ url[f] \in DOMAIN sessions /\ UNCHANGED store
    BY <1>0, <1>5, <2>2 DEF Session, Answer, Set
  <2>4. url[f] \in Nat \ {0} /\ sessions[url[f]] \in Pages
    BY <2>3, LookupTyped DEF Typed
  <2> QED
    BY <2>3, <2>4 DEF store
<1>6. ASSUME NEW m \in Prompts, f = message(m), ~Same(f) PROVE Fresh
  <2>1. ~(\E p \in Pages : sendPrompt(p, m))
    BY <1>0, <1>6, FetchNames DEF sendPrompt, Send, Set
  <2>2. Turn(m)
    BY <1>3, <1>6, <2>1, FetchSteps
  <2>3. ~HandleUserMessage(m) /\ ~Plan(m) /\ ~Reply(m)
    BY <1>0, <1>6, FetchNames DEF HandleUserMessage, Plan, Reply, Set
  <2>4. ~UnknownSession(m) /\ ~TurnFails(m)
    BY <1>0, <1>6, FetchNames DEF UnknownSession, TurnFails, Answer, Set
  <2>5. Respond(m)
    BY <2>2, <2>3, <2>4 DEF Turn
  <2>6. /\ reply'[f] = Snapshot(url[f], turn[m]) /\ UNCHANGED store
        /\ at[f] = "replied"
    BY <1>0, <1>6, <2>5 DEF Respond, Answer, Set
  <2>7. url[f] \in Nat \ {0} /\ turn[m] \in Pages
    BY <1>6, <2>6 DEF Typed, HandlerHolds, Live
  <2> QED
    BY <2>6, <2>7 DEF store
<1> QED
  BY <1>1, <1>2, <1>4, <1>5, <1>6, FetchNames

\* A snapshot is up to date when it is taken, and later than all before it.
LEMMA SnapshotFresh ==
    ASSUME Typed, NEW id \in Nat \ {0}, NEW c \in Pages
    PROVE  /\ Behind(Snapshot(id, c))
           /\ \A r : Behind(r) => Later(r, Snapshot(id, c))
<1> DEFINE M == [kind : {"user", "reply"}, of : Prompts]
<1>1. messages[c] \in Seq(M)
  BY DEF Typed, TypeOK
<1>2. IsPrefix(messages[c], messages[c])
  <2> HIDE DEF M
  <2> QED
    BY <1>1, PrefixOrder
<1>3. Snapshot(id, c) \in Snapshots
  BY SnapshotTyped DEF Typed
<1>4. Snapshot(id, c).conversation = c /\ Snapshot(id, c).messages = messages[c]
  BY DEF Snapshot
<1> QED
  BY <1>2, <1>3, <1>4 DEF Behind, Later

-----------------------------------------------------------------------------

\* No page shows anything initially.
LEMMA ViewInit == Init => ViewInv
  BY FetchNames DEF Init, ViewInv, Answered

\* No step shows a page what is no beginning of its conversation.
LEMMA ViewStep ==
    ASSUME Typed, ViewInv, [Next]_vars
    PROVE  ViewInv'
<1>1. \A s \in Snapshots : IsPrefix(s.messages, messages[s.conversation])
         => IsPrefix(s.messages, messages'[s.conversation])
  BY BehindStays DEF Behind
<1>2. ASSUME NEW p \in Pages, shown'[p] # None PROVE Behind(shown[p])'
  <2>1. Behind(shown'[p])
    BY <1>2, ShownSteps, FetchNames DEF ViewInv, Shows
  <2> QED
    BY <1>1, <2>1 DEF Behind
<1>3. ASSUME NEW f \in Fetches, asked'[f] # None PROVE Behind(asked[f])'
  <2>1. Behind(asked'[f])
    BY <1>3, AskedSteps DEF ViewInv
  <2> QED
    BY <1>1, <2>1 DEF Behind
<1>4. ASSUME NEW f \in Fetches, at'[f] = "answered", reply'[f] # Failure
      PROVE  /\ Behind(reply[f])'
             /\ asked'[f] # None => Later(asked'[f], reply'[f])
  <2>1. asked'[f] # None => asked'[f] = asked[f] /\ Behind(asked[f])
    BY <1>4, ReplySteps DEF ViewInv
  <2>2. /\ Behind(reply'[f])
        /\ asked[f] # None /\ Behind(asked[f]) => Later(asked[f], reply'[f])
    <3>1. CASE at[f] = "answered" /\ reply'[f] = reply[f]
      BY <1>4, <3>1 DEF ViewInv, Answered
    <3>2. ASSUME NEW id \in Nat \ {0}, NEW c \in Pages, reply'[f] = Snapshot(id, c)
          PROVE  /\ Behind(reply'[f])
                 /\ asked[f] # None /\ Behind(asked[f])
                      => Later(asked[f], reply'[f])
      BY <3>2, SnapshotFresh
    <3> QED
      BY <1>4, <3>1, <3>2, ReplySteps
  <2>3. Behind(reply[f])'
    BY <1>1, <2>2 DEF Behind
  <2> QED
    BY <2>1, <2>2, <2>3
<1>5. \A p \in Pages : shown'[p] # None => Behind(shown[p])'
  BY <1>2
<1>6. \A f \in Fetches : asked'[f] # None => Behind(asked[f])'
  BY <1>3
<1>7. \A f \in Fetches : at'[f] = "answered" /\ reply'[f] # Failure
         => Behind(reply[f])' /\ (asked'[f] # None => Later(asked'[f], reply'[f]))
  BY <1>4
<1> QED
  BY <1>5, <1>6, <1>7 DEF ViewInv, Behind, Later, Answered

\* What a page shows of a conversation goes back only by a response to a fetch
\* that it had sent before it came to show what it shows: a newer response
\* overtook that one on its way.
THEOREM ViewGoesBackWhenOvertaken == Spec => OnlyOvertakenGoBack
<1>1. ASSUME Typed, ViewInv, [Next]_vars, NEW p \in Pages,
             shown[p] # None, shown'[p] # None,
             shown[p].conversation = shown'[p].conversation
      PROVE  \/ IsPrefix(shown[p].messages, shown'[p].messages)
             \/ \E f \in UnderWay(p) : at'[f] = "settled" /\ asked[f] # shown[p]
  <2>1. CASE shown'[p] = shown[p]
    <3> DEFINE M == [kind : {"user", "reply"}, of : Prompts]
    <3>1. shown[p].messages \in Seq(M)
      BY <1>1 DEF Typed, TypeOK, Snapshots
    <3> HIDE DEF M
    <3> QED
      BY <2>1, <3>1, PrefixOrder
  <2>2. ASSUME NEW f \in UnderWay(p), f \in Fetches, Answered(f),
               at'[f] = "settled", shown'[p] = reply[f]
        PROVE  \/ IsPrefix(shown[p].messages, shown'[p].messages)
               \/ \E g \in UnderWay(p) : at'[g] = "settled" /\ asked[g] # shown[p]
    BY <1>1, <2>2 DEF ViewInv, Later
  <2>3. ASSUME shown'[p] # shown[p]
        PROVE  \E f \in UnderWay(p) : /\ f \in Fetches /\ Answered(f)
                                      /\ at'[f] = "settled" /\ shown'[p] = reply[f]
    <3>0. /\ shown \in [Pages -> Snapshots \cup {None}]
          /\ at \in [Fetches -> {"idle", "sent", "answered", "lost", "settled",
                                 "rejected"} \cup InHandler]
      BY <1>1 DEF Typed, TypeOK
    <3>1. \/ \E q \in Pages : SessionCreated(q) \/ Refreshed(q) \/ destroy(q)
          \/ \E m \in Prompts : PromptAnswered(m)
      BY <1>1, <2>3
      DEF Next, PageStep, Respondent, Handlers, Turn, start, CreateFails,
          Connected, ConnectFails, SocketCloses, RefreshFails, sendPrompt,
          PromptErrored, PromptLost, CreateSession, seedSession, SessionAnswer,
          Session, HandleUserMessage, UnknownSession, Plan, TurnFails, Reply,
          Respond, BackendRestarts, page, vars
    <3>2. ASSUME NEW q \in Pages, SessionCreated(q) \/ Refreshed(q) \/ destroy(q)
          PROVE  q = p /\ ~destroy(q)
      BY <1>1, <2>3, <3>0, <3>2 DEF SessionCreated, Refreshed, destroy, Set
    <3>3. ASSUME NEW m \in Prompts, PromptAnswered(m) PROVE author[m] = p
      BY <2>3, <3>0, <3>3 DEF PromptAnswered, Set
    <3>4. CASE SessionCreated(p)
      <4>1. create(p) \in UnderWay(p) /\ create(p) \in Fetches
        BY <3>4, FetchNames DEF SessionCreated, Answered, UnderWay
      <4> QED
        BY <3>0, <3>4, <4>1 DEF SessionCreated, Settle, End, Set
    <3>5. CASE Refreshed(p)
      <4>1. refresh(p) \in UnderWay(p) /\ refresh(p) \in Fetches
        BY <3>5, FetchNames DEF Refreshed, Answered, UnderWay
      <4> QED
        BY <3>0, <3>5, <4>1 DEF Refreshed, Settle, End, Set
    <3>6. ASSUME NEW m \in Prompts, author[m] = p, PromptAnswered(m)
          PROVE  \E f \in UnderWay(p) : /\ f \in Fetches /\ Answered(f)
                                        /\ at'[f] = "settled" /\ shown'[p] = reply[f]
      <4>1. message(m) \in UnderWay(p) /\ message(m) \in Fetches
        BY <3>6, FetchNames DEF PromptAnswered, Answered, UnderWay
      <4> QED
        BY <3>0, <3>6, <4>1 DEF PromptAnswered, Settle, End, Set
    <3> QED
      BY <3>1, <3>2, <3>3, <3>4, <3>5, <3>6
  <2> QED
    BY <2>1, <2>2, <2>3
<1> DEFINE Step == [\A p \in Pages :
         /\ shown[p] # None /\ shown'[p] # None
         /\ shown[p].conversation = shown'[p].conversation
         => \/ IsPrefix(shown[p].messages, shown'[p].messages)
            \/ \E f \in UnderWay(p) : at'[f] = "settled" /\ asked[f] # shown[p]]_vars
<1>2. Typed /\ ViewInv /\ [Next]_vars => Step
  BY <1>1
<1>3. Init => Typed /\ ViewInv
  BY TypedInit, ViewInit
<1>4. Typed /\ ViewInv /\ [Next]_vars => (Typed /\ ViewInv)'
  BY TypedStep, ViewStep
<1> QED
  BY <1>2, <1>3, <1>4, PTL DEF Spec, OnlyOvertakenGoBack
-----------------------------------------------------------------------------
(* The status line: what StatusSettles needs beside fairness.              *)

\* Prompt m of page p was sent, and no response has come that settles it.
Owed(p, m) == author[m] = p /\ at[message(m)] \notin {"idle", "settled"}

\* A page that says it is sending a prompt has one under way, or one whose
\* fetch rejected: of several, the last response to come takes the words away.
StatusOwed ==
    \A p \in Pages : status[p] = "sending prompt" => \E m \in Prompts : Owed(p, m)

\* A prompt stays owed until a response writes the status of its page.
LEMMA OwedStays ==
    ASSUME Typed, [Next]_vars, NEW p \in Pages, NEW m \in Prompts, Owed(p, m)
    PROVE  Owed(p, m)' \/ status'[p] # "sending prompt"
<1>0. /\ at \in [Fetches -> {"idle", "sent", "answered", "lost", "settled",
                             "rejected"} \cup InHandler]
      /\ status \in [Pages -> {"idle", "creating session", "connected",
                               "sending prompt", "assistant replied", "error",
                               "closed"}]
      /\ author \in [Prompts -> Pages \cup {None}]
      /\ author[m] = p /\ message(m) \in Fetches
      /\ at[message(m)] \notin {"idle", "settled"}
      /\ p # None
  BY FetchNames, PageAssumption DEF Typed, TypeOK, Owed
<1>1. author'[m] = author[m]
  <2>1. ASSUME NEW q \in Pages, NEW n \in Prompts, sendPrompt(q, n)
        PROVE  author'[m] = author[m]
    BY <1>0, <2>1 DEF sendPrompt, Set
  <2>2. author' = author \/ \E q \in Pages, n \in Prompts : sendPrompt(q, n)
    BY DEF Next, PageStep, Respondent, Handlers, Turn, start, SessionCreated,
           CreateFails, Connected, ConnectFails, SocketCloses, Refreshed,
           RefreshFails, destroy, PromptAnswered, PromptErrored, PromptLost,
           CreateSession, seedSession, SessionAnswer, Session,
           HandleUserMessage, UnknownSession, Plan, TurnFails, Reply, Respond,
           BackendRestarts, page, vars
  <2> QED
    BY <2>1, <2>2
<1>2. ASSUME NEW g \in Fetches, g # message(m), NEW how, End(g, how)
      PROVE  at'[message(m)] = at[message(m)]
  BY <1>0, <1>2 DEF End, Set
<1>3. ASSUME NEW q \in Pages, PageStep(q)
      PROVE  at'[message(m)] \notin {"idle", "settled"}
  <2>1. CASE SessionCreated(q) \/ CreateFails(q) \/ Refreshed(q) \/ RefreshFails(q)
    BY <1>0, <1>2, <2>1, FetchNames
    DEF SessionCreated, CreateFails, Refreshed, RefreshFails, Settle
  <2>2. CASE start(q) \/ Connected(q) \/ \E n \in Prompts : sendPrompt(q, n)
    BY <1>0, <2>2 DEF start, Connected, sendPrompt, Send, Set
  <2>3. CASE ConnectFails(q) \/ SocketCloses(q) \/ destroy(q)
    BY <1>0, <2>3 DEF ConnectFails, SocketCloses, destroy, request
  <2> QED
    BY <1>3, <2>1, <2>2, <2>3 DEF PageStep
<1>4. ASSUME NEW n \in Prompts, Respondent(n)
      PROVE  \/ at'[message(m)] \notin {"idle", "settled"}
             \/ status'[p] # "sending prompt"
  <2>1. CASE n # m
    <3>1. message(n) \in Fetches /\ message(n) # message(m)
      BY <2>1, FetchNames
    <3> QED
      BY <1>0, <1>2, <1>4, <3>1
      DEF Respondent, PromptAnswered, PromptErrored, PromptLost, Settle
  <2>2. CASE n = m /\ PromptLost(n)
    BY <1>0, <2>2 DEF PromptLost, End, Set
  <2>3. CASE n = m /\ (PromptAnswered(n) \/ PromptErrored(n))
    BY <1>0, <2>3 DEF PromptAnswered, PromptErrored, Set
  <2> QED
    BY <1>4, <2>1, <2>2, <2>3 DEF Respondent
<1>5. ASSUME \/ \E q \in Pages : Handlers(q)
             \/ \E n \in Prompts : Turn(n)
             \/ BackendRestarts
             \/ UNCHANGED vars
      PROVE  at'[message(m)] \notin {"idle", "settled"}
  BY <1>0, <1>5
  DEF Handlers, Turn, CreateSession, seedSession, SessionAnswer, Session,
      HandleUserMessage, UnknownSession, Plan, TurnFails, Reply, Respond,
      BackendRestarts, Answer, Set, InHandler, request, vars
<1> QED
  BY <1>0, <1>1, <1>3, <1>4, <1>5 DEF Next, Owed

\* Only a prompt that leaves writes "sending prompt".
LEMMA WhoSaysSending ==
    ASSUME Typed, [Next]_vars, NEW p \in Pages, status'[p] = "sending prompt"
    PROVE  \/ status[p] = "sending prompt"
           \/ \E m \in Prompts : Owed(p, m)'
<1>0. /\ at \in [Fetches -> {"idle", "sent", "answered", "lost", "settled",
                             "rejected"} \cup InHandler]
      /\ status \in [Pages -> {"idle", "creating session", "connected",
                               "sending prompt", "assistant replied", "error",
                               "closed"}]
      /\ author \in [Prompts -> Pages \cup {None}]
  BY DEF Typed, TypeOK
<1>1. ASSUME NEW q \in Pages, NEW m \in Prompts, sendPrompt(q, m)
      PROVE  \/ q = p /\ Owed(p, m)'
             \/ status[p] = "sending prompt"
  <2>1. status'[p] = IF p = q THEN "sending prompt" ELSE status[p]
    BY <1>0, <1>1 DEF sendPrompt, Set
  <2>2. author'[m] = q
    BY <1>0, <1>1 DEF sendPrompt, Set
  <2>3. at'[message(m)] = "sent"
    BY <1>0, <1>1, FetchNames DEF sendPrompt, Send, Set
  <2> QED
    BY <2>1, <2>2, <2>3 DEF Owed
<1>2. ASSUME NEW q \in Pages,
             start(q) \/ Connected(q) \/ destroy(q)
      PROVE  status[p] = "sending prompt"
  BY <1>0, <1>2 DEF start, Connected, destroy, Set
<1>3. ASSUME NEW m \in Prompts, PromptAnswered(m) \/ PromptErrored(m)
      PROVE  status[p] = "sending prompt"
  BY <1>0, <1>3 DEF PromptAnswered, PromptErrored, Set
<1>4. \/ status' = status
      \/ \E q \in Pages : start(q) \/ Connected(q) \/ destroy(q)
      \/ \E q \in Pages, m \in Prompts : sendPrompt(q, m)
      \/ \E m \in Prompts : PromptAnswered(m) \/ PromptErrored(m)
  BY DEF Next, PageStep, Respondent, Handlers, Turn, SessionCreated,
         CreateFails, ConnectFails, SocketCloses, Refreshed, RefreshFails,
         PromptLost, CreateSession, seedSession, SessionAnswer, Session,
         HandleUserMessage, UnknownSession, Plan, TurnFails, Reply, Respond,
         BackendRestarts, page, vars
<1> QED
  BY <1>1, <1>2, <1>3, <1>4

\* However many prompts overlap, and whatever is answered, lost or restarted in
\* between: a page that says "sending prompt" is owed a response, or was denied
\* one by a fetch that rejected.
THEOREM SendingIsOwed == Spec => []StatusOwed
<1>1. Init => StatusOwed
  BY DEF Init, StatusOwed
<1>2. Typed /\ StatusOwed /\ [Next]_vars => StatusOwed'
  <2> SUFFICES ASSUME Typed, StatusOwed, [Next]_vars, NEW p \in Pages,
                      status'[p] = "sending prompt"
               PROVE  \E m \in Prompts : Owed(p, m)'
    BY DEF StatusOwed
  <2> QED
    BY OwedStays, WhoSaysSending DEF StatusOwed
<1>3. Spec => []Typed
  BY TypedInit, TypedStep, PTL DEF Spec
<1> QED
  BY <1>1, <1>2, <1>3, PTL DEF Spec
=============================================================================
