------------------------ MODULE BrowserSessionProofs ------------------------
(***************************************************************************)
(* Proofs about BrowserSession, for any number of sockets and requests.    *)
(***************************************************************************)
EXTENDS BrowserSession, TLAPS

\* As long as a socket connects or is open that was made after the onclose of
\* all before it, there is no other whose onclose is still to come.
LiveAlone ==
    \A k \in Sockets :
       state[k] \in {"connecting", "open"} /\ k \notin hasty
          => \A j \in Sockets \ {k} : state[j] \in {"unused", "closed"}

\* The inductive invariant of the client.
ClientInv ==
    TypeOK /\ CurrentSocketOnly /\ LiveAlone /\ ReadyMeansPublished

\* The field socket is right initially.
LEMMA ClientInit == Init => ClientInv
  BY SessionAssumption
  DEF Init, ClientInv, TypeOK, CurrentSocketOnly, LiveAlone,
      ReadyMeansPublished

\* No task of the page leaves the field socket wrong.
LEMMA ClientStep ==
    ASSUME ClientInv, [Next]_vars
    PROVE  ClientInv'
<1> USE SessionAssumption
    DEF ClientInv, TypeOK, CurrentSocketOnly, LiveAlone, ReadyMeansPublished,
        Orphan
<1>1. ASSUME Close PROVE ClientInv'
  BY <1>1 DEF Close, broker
<1>2. ASSUME NEW k \in Sockets, Connect(k) PROVE ClientInv'
  BY <1>2 DEF Connect, AllOver, broker
<1>3. ASSUME NEW k \in Sockets, SocketOpens(k) PROVE ClientInv'
  <2>1. /\ state[k] = "connecting" /\ state' = [state EXCEPT ![k] = "open"]
        /\ \A j \in Sockets : published[j] => published'[j]
        /\ \A j \in Sockets :
              j = socket /\ state'[j] = "open" => published'[j]
        /\ UNCHANGED <<socket, hasty>>
    BY <1>3 DEF SocketOpens
  <2>2. TypeOK'
    <3>1. published' \in [Sockets -> BOOLEAN]
      BY <1>3 DEF SocketOpens
    <3>2. promise' = [promise EXCEPT ![k] = "resolved"] /\ UNCHANGED broker
      BY <1>3 DEF SocketOpens
    <3> QED
      BY <2>1, <3>1, <3>2 DEF broker
  <2>3. CurrentSocketOnly' /\ LiveAlone'
    BY <2>1
  <2>4. ReadyMeansPublished'
    BY <2>1
  <2> QED
    BY <2>2, <2>3, <2>4
<1>4. ASSUME NEW k \in Sockets, SocketCloses(k) \/ SocketClosing(k)
      PROVE  ClientInv'
  BY <1>4 DEF SocketCloses, SocketClosing, broker
<1>5. ASSUME NEW r \in Requests, Task(r) PROVE ClientInv'
  BY <1>5 DEF Task, WorkerMessage, WorkerError, WorkerTimeout, WorkerGone,
              Respond, Codes, Posted, client
<1>6. ASSUME NEW r \in Requests, NEW code \in Posted, WorkerPosts(r, code)
      PROVE ClientInv'
  BY <1>6 DEF WorkerPosts, client
<1>7. ASSUME NEW k \in Sockets, NEW r \in Requests,
             ReceiveKnown(k, r) \/ ReceiveUnknown(k, r)
      PROVE ClientInv'
  BY <1>7 DEF ReceiveKnown, ReceiveUnknown, Receive, Respond, Codes, client
<1>8. CASE UNCHANGED vars
  BY <1>8 DEF vars, client, broker
<1> QED
  BY <1>1, <1>2, <1>3, <1>4, <1>5, <1>6, <1>7, <1>8 DEF Next

\* ... so the invariant holds, whether or not callers wait for onclose.
LEMMA ClientInvariant == Spec => []ClientInv
<1>1. ClientInv /\ [Next]_vars => ClientInv'
  BY ClientStep
<1> QED
  BY <1>1, ClientInit, PTL DEF Spec

\* What is still owed: a promise that is pending has a socket whose end will
\* settle it, and a request is answered or lost exactly when no worker has it
\* any more.
Owing ==
    /\ \A k \in Sockets :
          promise[k] = "pending" => state[k] \in {"connecting", "closing"}
    /\ \A r \in Requests :
          /\ worker[r] = "gone" => answer[r] # None
          /\ answer[r] # None => worker[r] \in {"none", "gone"}

\* The inductive invariant that does without a word about the field socket.
SettlingInv == TypeOK /\ Owing

\* No task of the page leaves anything owing.
LEMMA SettlingStep == SettlingInv /\ [Next]_vars => SettlingInv'
<1> SUFFICES ASSUME SettlingInv, [Next]_vars PROVE SettlingInv'
  OBVIOUS
<1> USE SessionAssumption DEF SettlingInv, TypeOK, Owing
<1>1. ASSUME Close PROVE SettlingInv'
  BY <1>1 DEF Close, broker
<1>2. ASSUME NEW k \in Sockets, Connect(k) PROVE SettlingInv'
  BY <1>2 DEF Connect, broker
<1>3. ASSUME NEW k \in Sockets, SocketOpens(k) PROVE SettlingInv'
  BY <1>3 DEF SocketOpens, broker
<1>4. ASSUME NEW k \in Sockets, SocketCloses(k) \/ SocketClosing(k)
      PROVE  SettlingInv'
  BY <1>4 DEF SocketCloses, SocketClosing, broker
<1>5. ASSUME NEW r \in Requests, Task(r) PROVE SettlingInv'
  BY <1>5 DEF Task, WorkerMessage, WorkerError, WorkerTimeout, WorkerGone,
              Respond, Codes, Posted, client
<1>6. ASSUME NEW r \in Requests, NEW code \in Posted, WorkerPosts(r, code)
      PROVE SettlingInv'
  BY <1>6 DEF WorkerPosts, Posted, client
<1>7. ASSUME NEW k \in Sockets, NEW r \in Requests,
             ReceiveKnown(k, r) \/ ReceiveUnknown(k, r)
      PROVE SettlingInv'
  BY <1>7 DEF ReceiveKnown, ReceiveUnknown, Receive, Respond, Codes, Posted,
              client
<1>8. CASE UNCHANGED vars
  BY <1>8 DEF vars, client, broker
<1> QED
  BY <1>1, <1>2, <1>3, <1>4, <1>5, <1>6, <1>7, <1>8 DEF Next

\* ... so it holds throughout.
LEMMA SettlingInvariant == Spec => []SettlingInv
<1>1. Init => SettlingInv
  BY SessionAssumption DEF Init, SettlingInv, TypeOK, Owing
<1> QED
  BY <1>1, SettlingStep, PTL DEF Spec

\* Sockets, promises, workers and answers have the types of the client.
THEOREM ClientTyped == Spec => []TypeOK
<1>1. SettlingInv => TypeOK
  BY DEF SettlingInv
<1> QED
  BY <1>1, SettlingInvariant, PTL

\* No worker ends without an answer and no connect is forgotten: what
\* ConnectSettles and RequestSettles need beside fairness.
THEOREM NothingLeftOwing == Spec => []Owing
<1>1. SettlingInv => Owing
  BY DEF SettlingInv
<1> QED
  BY <1>1, SettlingInvariant, PTL

\* A request is answered once: the timer, the message and the error of its
\* worker exclude each other, and the answer that was sent, or lost, is final.
AnsweredOnce ==
    [][\A r \in Requests : answer[r] # None => answer'[r] = answer[r]]_vars

\* No request is answered twice, and no answer takes the place of another.
THEOREM AnswersAreFinal == Spec => AnsweredOnce
<1>1. SettlingInv /\ [Next]_vars =>
         [\A r \in Requests : answer[r] # None => answer'[r] = answer[r]]_vars
  <2> SUFFICES ASSUME SettlingInv, [Next]_vars,
                      NEW r \in Requests, answer[r] # None
               PROVE  answer'[r] = answer[r]
    OBVIOUS
  <2> USE DEF SettlingInv, TypeOK, Owing
  <2>1. ASSUME NEW q \in Requests, Task(q) PROVE answer'[r] = answer[r]
    BY <2>1 DEF Task, WorkerMessage, WorkerError, WorkerTimeout, Respond, Posted
  <2>2. ASSUME NEW k \in Sockets, NEW q \in Requests, ReceiveUnknown(k, q)
        PROVE  answer'[r] = answer[r]
    BY <2>2 DEF ReceiveUnknown, Receive, Respond
  <2> QED
    BY <2>1, <2>2 DEF Next, Close, Connect, SocketOpens, SocketClosing,
       SocketCloses, ReceiveKnown, WorkerPosts, vars, broker
<1> QED
  BY <1>1, SettlingInvariant, PTL DEF Spec, AnsweredOnce

\* Only a connect right after a close can lead to a socket nobody holds, and
\* the field never holds one that has closed, however many were opened.
THEOREM ClientCorrect == Spec => []CurrentSocketOnly
<1>1. ClientInv => CurrentSocketOnly
  BY DEF ClientInv
<1> QED
  BY <1>1, ClientInvariant, PTL

\* No socket but an orphan is open without a capability snapshot: otherwise the
\* onclose of an old socket never comes between a new one and its publication.
THEOREM OnlineMeansPublished == Spec => []ReadyMeansPublished
<1>1. ClientInv => ReadyMeansPublished
  BY DEF ClientInv
<1> QED
  BY <1>1, ClientInvariant, PTL

\* A result that cannot be sent finds no socket open but orphans.
LEMMA LostStep ==
    ASSUME ClientInv, [Next]_vars,
           NEW r \in Requests, answer[r] # Lost, answer'[r] = Lost,
           NEW k \in Sockets, state[k] = "open"
    PROVE  Orphan(k)
<1> USE SessionAssumption DEF ClientInv, TypeOK, CurrentSocketOnly, Orphan
<1>1. \E s \in Requests, code \in Codes : Respond(s, code)
  <2>1. CASE \E s \in Requests : Task(s)
    BY <2>1 DEF Task, WorkerMessage, WorkerError, WorkerTimeout, Codes, Posted
  <2>2. CASE \E j \in Sockets, s \in Requests : ReceiveUnknown(j, s)
    BY <2>2 DEF ReceiveUnknown, Codes
  <2>3. ASSUME UNCHANGED answer PROVE FALSE
    BY <2>3
  <2> QED
    BY <2>1, <2>2, <2>3 DEF Next, Close, Connect, SocketOpens, SocketClosing,
       SocketCloses, ReceiveKnown, WorkerPosts, vars, broker
<1>2. PICK s \in Requests, code \in Codes : Respond(s, code)
  BY <1>1
<1>3. r = s
  BY <1>2 DEF Respond
<1> QED
  BY <1>2, <1>3 DEF Respond

\* A result is lost only while no socket is open but orphans.
THEOREM LostOnlyOffline == Spec => LostMeansOffline
<1>1. ClientInv /\ [Next]_vars => ClientInv'
  BY ClientStep
<1>2. ClientInv /\ [Next]_vars =>
         [\A r \in Requests : answer[r] # Lost /\ answer'[r] = Lost
             => \A k \in Sockets : state[k] = "open" => Orphan(k)]_vars
  BY LostStep
<1> QED
  BY <1>1, <1>2, ClientInit, PTL DEF Spec, LostMeansOffline

-----------------------------------------------------------------------------
(* The page is a tab.                                                      *)

\* A step that leaves a worker where it is to the page leaves the page alone.
LEMMA SamePage ==
    ASSUME worker' = worker, answer' = answer
    PROVE  UNCHANGED <<Executing, Reached, Dropped>>
  BY DEF Executing, Reached, Dropped

\* A socket that opens finds no other one open.
LEMMA PageOpens ==
    ASSUME ClientInv, hasty = {}, NEW k \in Sockets, SocketOpens(k)
    PROVE  Tab!Opens(k)
<1>1. \A j \in Sockets : ~Online[j]
  BY DEF ClientInv, LiveAlone, SocketOpens, Online
<1>2. state' = [state EXCEPT ![k] = "open"] /\ UNCHANGED <<worker, answer>>
  BY DEF SocketOpens, broker
<1>3. Online' = [Online EXCEPT ![k] = TRUE]
  BY <1>2 DEF ClientInv, TypeOK, Online
<1> QED
  BY <1>1, <1>2, <1>3, SamePage DEF Tab!Opens

\* A socket that starts to close, or is gone, is open no more.
LEMMA PageShuts ==
    ASSUME ClientInv, NEW k \in Sockets, NEW end \in {"closing", "closed"},
           state' = [state EXCEPT ![k] = end], UNCHANGED broker
    PROVE  Tab!Shuts(k) \/ UNCHANGED Tab!vars
<1>1. UNCHANGED <<Executing, Reached, Dropped>>
  BY SamePage DEF broker
<1>2. CASE state[k] = "open"
  <2>1. Online[k] /\ Online' = [Online EXCEPT ![k] = FALSE]
    BY <1>2 DEF ClientInv, TypeOK, Online
  <2> QED
    BY <1>1, <2>1 DEF Tab!Shuts
<1>3. CASE state[k] # "open"
  <2>1. Online' = Online
    BY <1>3 DEF ClientInv, TypeOK, Online
  <2> QED
    BY <1>1, <2>1 DEF Tab!vars
<1> QED
  BY <1>2, <1>3

\* A request for a tool of the registry is taken up.
LEMMA PageTakes ==
    ASSUME SettlingInv, NEW k \in Sockets, NEW r \in Requests,
           ReceiveKnown(k, r)
    PROVE  Tab!Takes(k, r)
<1> USE SessionAssumption DEF SettlingInv, TypeOK, Owing
<1>1. /\ state[k] = "open" /\ worker[r] = "none" /\ answer[r] = None
      /\ worker' = [worker EXCEPT ![r] = "busy"]
      /\ UNCHANGED <<state, answer>>
  BY DEF ReceiveKnown, Receive, client
<1>2. Online[k] /\ Online' = Online /\ Dropped' = Dropped
  BY <1>1 DEF Online, Dropped
<1>3. Reached' = [Reached EXCEPT ![r] = @ + 1]
  <2>1. Reached' = [Reached EXCEPT ![r] = 1] /\ Reached[r] = 0
    BY <1>1 DEF Reached
  <2> QED
    BY <2>1
<1>4. Executing' = [Executing EXCEPT ![ThePage[k]] = @ \cup {r}]
  BY <1>1 DEF Executing, ThePage, Posted
<1> QED
  BY <1>2, <1>3, <1>4 DEF Tab!Takes, Tab!Delivered

\* Any other request is refused, over the socket it came by.
LEMMA PageRefuses ==
    ASSUME ClientInv, SettlingInv, hasty = {},
           NEW k \in Sockets, NEW r \in Requests, ReceiveUnknown(k, r)
    PROVE  Tab!Refuses(k, r)
<1> USE SessionAssumption DEF SettlingInv, TypeOK, Owing
<1>1. /\ state[k] = "open" /\ worker[r] = "none" /\ answer[r] = None
      /\ Respond(r, "UNKNOWN_TOOL")
      /\ UNCHANGED <<state, worker>>
  BY DEF ReceiveUnknown, Receive, client
<1>2. socket = k
  BY <1>1 DEF ClientInv, CurrentSocketOnly
<1>3. answer' = [answer EXCEPT ![r] = "UNKNOWN_TOOL"]
  BY <1>1, <1>2 DEF Respond
<1>4. Online[k] /\ Online' = Online /\ Executing' = Executing
  BY <1>1 DEF Online, Executing
<1>5. Dropped' = Dropped
  BY <1>1, <1>3 DEF Dropped, Codes
<1>6. Reached' = [Reached EXCEPT ![r] = @ + 1]
  <2>1. Reached' = [Reached EXCEPT ![r] = 1] /\ Reached[r] = 0
    BY <1>1, <1>3 DEF Reached, Codes
  <2> QED
    BY <2>1
<1> QED
  BY <1>4, <1>5, <1>6 DEF Tab!Refuses, Tab!Delivered

\* What a worker had in hand is answered over the open socket, or lost.
LEMMA PageEnds ==
    ASSUME ClientInv, SettlingInv, hasty = {}, NEW r \in Requests, Task(r)
    PROVE  \/ \E k \in Sockets : Tab!Answers("page", r, k)
           \/ Tab!Loses("page", r)
<1> USE SessionAssumption DEF SettlingInv, TypeOK, Owing
<1>1. /\ worker[r] \in {"busy"} \cup Posted
      /\ worker' = [worker EXCEPT ![r] = "gone"]
      /\ UNCHANGED <<state, socket>>
  BY DEF Task, WorkerMessage, WorkerError, WorkerTimeout, WorkerGone, client
<1>2. PICK code \in Codes : Respond(r, code)
  BY DEF Task, WorkerMessage, WorkerError, WorkerTimeout, Codes, Posted
<1>3. answer[r] = None
  BY <1>1 DEF Posted
<1>4. Online' = Online
  BY <1>1 DEF Online
<1>5. Reached' = Reached
  BY <1>1, <1>2, <1>3 DEF Reached, Respond, Posted
<1>6. /\ r \in Executing["page"]
      /\ Executing' = [Executing EXCEPT !["page"] = @ \ {r}]
  BY <1>1 DEF Executing, Posted
<1>7. CASE \E k \in Sockets : state[k] = "open"
  <2>1. PICK k \in Sockets : state[k] = "open"
    BY <1>7
  <2>2. socket = k
    BY <2>1 DEF ClientInv, CurrentSocketOnly
  <2>3. answer' = [answer EXCEPT ![r] = code]
    BY <1>2, <2>1, <2>2 DEF Respond
  <2>4. Dropped' = Dropped
    BY <1>3, <2>3 DEF Dropped, Codes
  <2>5. Online[k] /\ ThePage[k] = "page"
    BY <2>1 DEF Online, ThePage
  <2>6. Tab!Answers("page", r, k)
    BY <1>4, <1>5, <1>6, <2>4, <2>5 DEF Tab!Answers, Tab!Ends
  <2> QED
    BY <2>6
<1>8. CASE \A k \in Sockets : state[k] # "open"
  <2>1. answer' = [answer EXCEPT ![r] = Lost]
    BY <1>2, <1>8 DEF Respond
  <2>2. Dropped' = Dropped \cup {r}
    BY <2>1 DEF Dropped
  <2>3. \A k \in Sockets : ~Online[k]
    BY <1>8 DEF Online
  <2> QED
    BY <1>4, <1>5, <1>6, <2>2, <2>3 DEF Tab!Loses, Tab!Ends
<1> QED
  BY <1>7, <1>8

\* The page starts as a tab does.
LEMMA PageInit == Init => Tab!Init
  BY SessionAssumption
  DEF Init, Tab!Init, Online, Executing, Reached, Dropped, Posted

\* A history without hasty sockets had none before.
LEMMA HastyGrows ==
    ASSUME [Next]_vars, hasty' = {}
    PROVE  hasty = {}
<1>1. CASE UNCHANGED hasty
  BY <1>1
<1>2. CASE \E k \in Sockets : Connect(k)
  BY <1>2 DEF Connect
<1> QED
  BY <1>1, <1>2 DEF Next, Close, SocketOpens, SocketClosing, SocketCloses,
     ReceiveKnown, ReceiveUnknown, Task, WorkerMessage, WorkerError,
     WorkerTimeout, WorkerPosts, vars, client

\* Every task of the page is a step of the tab, or none.
LEMMA PageStep ==
    ASSUME ClientInv, SettlingInv, [Next]_vars, hasty' = {}
    PROVE  [Tab!Next]_(Tab!vars)
<1> USE SessionAssumption
<1>0. hasty = {}
  BY HastyGrows
<1>1. ASSUME Close PROVE [Tab!Next]_(Tab!vars)
  <2>1. /\ socket \in Sockets
        /\ state[socket] \in {"connecting", "open", "closing"}
        /\ state' = [state EXCEPT ![socket] = "closing"]
        /\ UNCHANGED broker
    BY <1>1 DEF Close, ClientInv, TypeOK, CurrentSocketOnly
  <2> QED
    BY <2>1, PageShuts DEF Tab!Next
<1>2. ASSUME NEW k \in Sockets, Connect(k) PROVE UNCHANGED Tab!vars
  <2>1. state[k] = "unused" /\ state' = [state EXCEPT ![k] = "connecting"]
    BY <1>2 DEF Connect
  <2>2. Online' = Online
    BY <2>1 DEF Online, ClientInv, TypeOK
  <2> QED
    BY <1>2, <2>2, SamePage DEF Connect, broker, Tab!vars
<1>3. ASSUME NEW k \in Sockets, SocketOpens(k) PROVE Tab!Next
  BY <1>0, <1>3, PageOpens DEF Tab!Next
<1>4. ASSUME NEW k \in Sockets, SocketCloses(k) \/ SocketClosing(k)
      PROVE  [Tab!Next]_(Tab!vars)
  <2>1. PICK end \in {"closing", "closed"} :
           state' = [state EXCEPT ![k] = end] /\ UNCHANGED broker
    BY <1>4 DEF SocketCloses, SocketClosing
  <2> QED
    BY <2>1, PageShuts DEF Tab!Next
<1>5. ASSUME NEW r \in Requests, Task(r) PROVE Tab!Next
  BY <1>0, <1>5, PageEnds DEF Tab!Next
<1>6. ASSUME NEW r \in Requests, NEW code \in Posted, WorkerPosts(r, code)
      PROVE  UNCHANGED Tab!vars
  <2>1. /\ worker[r] = "busy" /\ worker' = [worker EXCEPT ![r] = code]
        /\ UNCHANGED <<state, answer>>
    BY <1>6 DEF WorkerPosts, client
  <2>2. Online' = Online /\ Dropped' = Dropped
    BY <2>1 DEF Online, Dropped
  <2>3. Executing' = Executing
    BY <2>1 DEF Executing, ClientInv, TypeOK
  <2>4. Reached' = Reached
    BY <2>1 DEF Reached, ClientInv, TypeOK, Posted
  <2> QED
    BY <2>2, <2>3, <2>4 DEF Tab!vars
<1>7. ASSUME NEW k \in Sockets, NEW r \in Requests, ReceiveKnown(k, r)
      PROVE  Tab!Next
  BY <1>7, PageTakes DEF Tab!Next
<1>8. ASSUME NEW k \in Sockets, NEW r \in Requests, ReceiveUnknown(k, r)
      PROVE  Tab!Next
  BY <1>0, <1>8, PageRefuses DEF Tab!Next
<1>9. ASSUME UNCHANGED vars PROVE UNCHANGED Tab!vars
  <2>1. Online' = Online
    BY <1>9 DEF Online, vars, client
  <2> QED
    BY <1>9, <2>1, SamePage DEF vars, broker, Tab!vars
<1> QED
  BY <1>1, <1>2, <1>3, <1>4, <1>5, <1>6, <1>7, <1>8, <1>9 DEF Next

\* The page keeps what the endpoint takes for granted of a tab, with any
\* number of sockets, one after the other, and of requests at once.
THEOREM PageIsATab == Spec => BehavesAsTab
<1>1. ClientInv /\ SettlingInv /\ [Next]_vars
         => [hasty' = {} => [Tab!Next]_(Tab!vars)]_vars
  BY PageStep
<1> QED
  BY <1>1, PageInit, ClientInvariant, SettlingInvariant, PTL
  DEF Spec, BehavesAsTab

\* ... and it is one for good when all its callers wait for onclose: then it
\* implements the tab, every step of it.
THEOREM PatientPageIsATab == Spec /\ [](hasty = {}) => Tab!Spec
<1>1. ClientInv /\ SettlingInv /\ [Next]_vars /\ (hasty = {})'
         => [Tab!Next]_(Tab!vars)
  BY PageStep
<1> QED
  BY <1>1, PageInit, ClientInvariant, SettlingInvariant, PTL
  DEF Spec, Tab!Spec
=============================================================================
