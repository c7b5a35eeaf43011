---------------------- MODULE WebSocketTransportProofs ----------------------
(***************************************************************************)
(* Proofs about WebSocketTransport, for any number of sessions, calls,     *)
(* connections and tabs, and any capacities.                               *)
(***************************************************************************)
EXTENDS WebSocketTransport, TLAPS

\* Where a handler is and what it told the bridge agree.
HandlerInv ==
    \A k \in Conns :
        /\ conn[k] = "new" <=> rpc[k] \in {"off", "accepted"}
        /\ conn[k] = "attached" <=> rpc[k] \in {"reading", "leaving"}

\* The inductive invariant: NoGhostConnection with the types it needs.
GhostInv ==
    /\ connected \in [Sessions -> BOOLEAN]
    /\ conn \in [Conns -> {"new", "attached", "detached"}]
    /\ rpc \in [Conns -> {"off", "accepted", "reading", "leaving", "closing",
                          "gone"}]
    /\ HandlerInv
    /\ NoGhostConnection

\* No session is connected initially.
LEMMA GhostInit == Init => GhostInv
  BY DEF Init, Bridge!Init, GhostInv, HandlerInv, NoGhostConnection

\* The steps that leave the connection, its handler's place and the session's
\* flag alone.
LEMMA GhostUnmoved ==
    GhostInv /\ UNCHANGED <<connected, conn, rpc>> => GhostInv'
  BY DEF GhostInv, HandlerInv, NoGhostConnection

\* The steps of the handler goroutine.
LEMMA GhostHandler ==
    ASSUME GhostInv, NEW k \in Conns, Handler(k)
    PROVE  GhostInv'
<1> USE TransportAssumption
    DEF Bridge!BridgeAssumption, GhostInv, HandlerInv, NoGhostConnection
<1>1. CASE HandlerConnect(k)
  BY <1>1 DEF HandlerConnect, Bridge!Connect
<1>2. CASE HandlerDisconnect(k)
  BY <1>2 DEF HandlerDisconnect, Bridge!Disconnect
<1>3. CASE HandleUnknownResult(k) \/ ReadFails(k)
  BY <1>3 DEF HandleUnknownResult, ReadFails, Incoming, Leave, bridge
<1>4. CASE HandlerClose(k)
  BY <1>4 DEF HandlerClose, bridge
<1>5. CASE \/ HandleCapabilities(k)
           \/ HandleResult(k)
           \/ HandleResultSend(k)
           \/ \E c \in Calls : HandlerCloseResponse(k, c)
  <2>1. UNCHANGED <<connected, conn, rpc>>
    BY <1>5 DEF HandleCapabilities, HandleResult, HandleResultSend,
       HandlerCloseResponse, goroutines, Bridge!PublishCapabilities,
       Bridge!handler, Bridge!SubmitLookup, Bridge!SubmitSend,
       Bridge!CloseResponse, Bridge!session
  <2> QED
    BY <2>1, GhostUnmoved
<1> QED
  BY <1>1, <1>2, <1>3, <1>4, <1>5 DEF Handler

\* Every step preserves the invariant.
LEMMA GhostStep == GhostInv /\ [Next]_vars => GhostInv'
<1> SUFFICES ASSUME GhostInv, [Next]_vars PROVE GhostInv'
  OBVIOUS
<1>1. ASSUME NEW k \in Conns, Accept(k) PROVE GhostInv'
  BY <1>1, TransportAssumption
  DEF Bridge!BridgeAssumption, Accept, Page!Opens, bridge, GhostInv, HandlerInv,
      NoGhostConnection
<1>2. ASSUME NEW k \in Conns, Handler(k) PROVE GhostInv'
  BY <1>2, GhostHandler
<1>3. ASSUME NEW k \in Conns, Writer(k) PROVE GhostInv'
  <2>1. UNCHANGED <<connected, conn, rpc>>
    BY <1>3 DEF Writer, WriteCapabilities, WriterReceive, WriteRequest,
       WriteFails, WriterCancelled, bridge, Bridge!ReceiveRequest,
       Bridge!handler
  <2> QED
    BY <2>1, GhostUnmoved
<1>4. ASSUME NEW k \in Conns,
             TabReceive(k) \/ TabRefuse(k) \/ TabClose(k) \/ TabDropped(k)
      PROVE GhostInv'
  BY <1>4, GhostUnmoved
  DEF TabReceive, TabRefuse, TabClose, TabDropped, bridge, goroutines
<1>5. ASSUME NEW t \in Tabs, Tab(t) PROVE GhostInv'
  BY <1>5, GhostUnmoved DEF Tab, TabAnswer, TabAnswerLost, bridge, goroutines
<1>6. ASSUME NEW c \in Calls, CallStep(c) PROVE GhostInv'
  <2>1. UNCHANGED <<connected, conn, rpc>>
    BY <1>6 DEF CallStep, goroutines, Bridge!Caller, Bridge!CallRefused,
       Bridge!CallRegister, Bridge!CallSend, Bridge!CallReceive,
       Bridge!CallClosed, Bridge!CallCancelled, Bridge!CallReturn,
       Bridge!CancelContext, Bridge!handler, Bridge!session
  <2> QED
    BY <2>1, GhostUnmoved
<1>7. CASE UNCHANGED vars
  BY <1>7, GhostUnmoved DEF vars, bridge, goroutines
<1> QED
  BY <1>1, <1>2, <1>3, <1>4, <1>5, <1>6, <1>7 DEF Next

\* A session counts as connected only while a handler of it is still to run
\* its deferred Disconnect.
THEOREM NoGhost == Spec => []NoGhostConnection
<1>1. GhostInv => NoGhostConnection
  BY DEF GhostInv
<1> QED
  BY <1>1, GhostInit, GhostStep, PTL DEF Spec

-----------------------------------------------------------------------------

\* A step of the endpoint is a step of the bridge or leaves it alone.
LEMMA BridgeStep == [Next]_vars => [Bridge!Next]_(Bridge!vars)
<1> SUFFICES ASSUME [Next]_vars PROVE Bridge!Next \/ UNCHANGED bridge
  BY DEF bridge, Bridge!vars, Bridge!session, Bridge!caller, Bridge!channel,
     Bridge!handler, Bridge!history
<1>1. ASSUME NEW k \in Conns, Handler(k)
      PROVE Bridge!Next \/ UNCHANGED bridge
  BY <1>1 DEF Handler, HandlerConnect, HandleCapabilities, HandleResult,
     HandleResultSend, HandleUnknownResult, ReadFails, HandlerDisconnect,
     HandlerCloseResponse, HandlerClose, Bridge!Next
<1>2. ASSUME NEW k \in Conns, Writer(k)
      PROVE Bridge!Next \/ UNCHANGED bridge
  BY <1>2 DEF Writer, WriteCapabilities, WriterReceive, WriteRequest,
     WriteFails, WriterCancelled, Bridge!Next
<1>3. ASSUME NEW c \in Calls, CallStep(c) PROVE Bridge!Next
  BY <1>3 DEF CallStep, Bridge!Next
<1>4. ASSUME NEW k \in Conns,
             \/ Accept(k) \/ TabReceive(k) \/ TabRefuse(k)
             \/ TabClose(k) \/ TabDropped(k)
      PROVE UNCHANGED bridge
  BY <1>4 DEF Accept, TabReceive, TabRefuse, TabClose, TabDropped
<1>5. ASSUME NEW t \in Tabs, Tab(t) PROVE UNCHANGED bridge
  BY <1>5 DEF Tab, TabAnswer, TabAnswerLost
<1>6. CASE UNCHANGED vars
  BY <1>6 DEF vars
<1> QED
  BY <1>1, <1>2, <1>3, <1>4, <1>5, <1>6 DEF Next

\* The endpoint drives the bridge within its specification: what is proved
\* of every behaviour of BrowserBridge holds of the bridge behind it.
THEOREM EndpointDrivesBridge == Spec => Bridge!Spec
<1>1. Init => Bridge!Init
  BY DEF Init
<1> QED
  BY <1>1, BridgeStep, PTL DEF Spec, Bridge!Spec

-----------------------------------------------------------------------------

OfBridge == INSTANCE BrowserBridgeProofs

\* The two names of the bridge, that of the model and that of its proofs,
\* stand for the same formulas.
LEMMA SameBridge ==
    /\ Bridge!BridgeAssumption <=> OfBridge!BridgeAssumption
    /\ Bridge!Init <=> OfBridge!Init
    /\ [Bridge!Next]_(Bridge!vars) <=> [OfBridge!Next]_(OfBridge!vars)
    /\ Bridge!BridgeInv <=> OfBridge!BridgeInv
    /\ Bridge!BridgeInv' <=> OfBridge!BridgeInv'
    /\ Bridge!NoChannelPanic <=> OfBridge!NoChannelPanic
<1>1. Bridge!BridgeAssumption <=> OfBridge!BridgeAssumption
  BY DEF Bridge!BridgeAssumption, OfBridge!BridgeAssumption, Bridge!Results,
      OfBridge!Results
<1>2. Bridge!Init <=> OfBridge!Init
  BY DEF Bridge!Init, OfBridge!Init
<1>3. [Bridge!Next]_(Bridge!vars) <=> [OfBridge!Next]_(OfBridge!vars)
  BY DEF Bridge!Next, OfBridge!Next, Bridge!vars, OfBridge!vars, Bridge!session,
      OfBridge!session, Bridge!caller, OfBridge!caller, Bridge!channel,
      OfBridge!channel, Bridge!handler, OfBridge!handler, Bridge!history,
      OfBridge!history, Bridge!Free, OfBridge!Free, Bridge!Connect,
      OfBridge!Connect, Bridge!PublishCapabilities,
      OfBridge!PublishCapabilities, Bridge!Disconnect, OfBridge!Disconnect,
      Bridge!CloseResponse, OfBridge!CloseResponse, Bridge!Results,
      OfBridge!Results, Bridge!SubmitLookup, OfBridge!SubmitLookup,
      Bridge!SubmitSend, OfBridge!SubmitSend, Bridge!ReceiveRequest,
      OfBridge!ReceiveRequest, Bridge!Finish, OfBridge!Finish,
      Bridge!CallRefused, OfBridge!CallRefused, Bridge!CallRegister,
      OfBridge!CallRegister, Bridge!CallSend, OfBridge!CallSend,
      Bridge!CallReceive, OfBridge!CallReceive, Bridge!CallClosed,
      OfBridge!CallClosed, Bridge!CallCancelled, OfBridge!CallCancelled,
      Bridge!CallReturn, OfBridge!CallReturn, Bridge!CancelContext,
      OfBridge!CancelContext, Bridge!Caller, OfBridge!Caller
<1>4. /\ Bridge!BridgeInv <=> OfBridge!BridgeInv
      /\ Bridge!BridgeInv' <=> OfBridge!BridgeInv'
  BY DEF Bridge!BridgeInv, OfBridge!BridgeInv, Bridge!TypeOK, OfBridge!TypeOK,
      Bridge!PendingInv, OfBridge!PendingInv, Bridge!ClaimInv,
      OfBridge!ClaimInv, Bridge!ClosingInv, OfBridge!ClosingInv,
      Bridge!OpenInv, OfBridge!OpenInv, Bridge!AnswerInv,
      OfBridge!AnswerInv, Bridge!QueueInv, OfBridge!QueueInv,
      Bridge!SessionInv, OfBridge!SessionInv, Bridge!Revoked,
      OfBridge!Revoked, Bridge!Results, OfBridge!Results
<1>5. Bridge!NoChannelPanic <=> OfBridge!NoChannelPanic
  BY DEF Bridge!NoChannelPanic, OfBridge!NoChannelPanic
<1> QED
  BY <1>1, <1>2, <1>3, <1>4, <1>5

\* The inductive invariant of the bridge holds behind the endpoint.
THEOREM BridgeInvBehind == Spec => []Bridge!BridgeInv
<1>1. Bridge!BridgeAssumption
  BY TransportAssumption
<1>2. Init => Bridge!BridgeInv
  BY <1>1, SameBridge, OfBridge!InvInit DEF Init
<1>3. Bridge!BridgeInv /\ [Next]_vars => Bridge!BridgeInv'
  BY <1>1, SameBridge, BridgeStep, OfBridge!InvStep
<1> QED
  BY <1>2, <1>3, PTL DEF Spec

\* The handlers of a server never panic on a channel of the bridge and never
\* find one full, whatever tabs and calls do.
THEOREM EndpointNoPanic == Spec => []Bridge!NoChannelPanic
<1>1. Bridge!BridgeAssumption
  BY TransportAssumption
<1>2. Bridge!BridgeInv => Bridge!NoChannelPanic
  BY <1>1, SameBridge, OfBridge!InvChannels
<1> QED
  BY <1>2, BridgeInvBehind, PTL

-----------------------------------------------------------------------------
(* Types.                                                                  *)

\* Taking a frame from the front moves the others up by one.
LEMMA TailOf ==
    ASSUME NEW S, NEW q \in Seq(S), q # <<>>
    PROVE  /\ Head(q) = q[1] /\ Head(q) \in S
           /\ 1 \in 1 .. Len(q)
           /\ Tail(q) \in Seq(S)
           /\ Len(Tail(q)) = Len(q) - 1
           /\ \A i \in 1 .. Len(Tail(q)) :
                 /\ Tail(q)[i] = q[i + 1]
                 /\ i + 1 \in 1 .. Len(q)
  OBVIOUS

\* Adding a frame at the end leaves the others where they are.
LEMMA AppendTo ==
    ASSUME NEW S, NEW q \in Seq(S), NEW e \in S
    PROVE  /\ Append(q, e) \in Seq(S)
           /\ Len(Append(q, e)) = Len(q) + 1
           /\ \A i \in 1 .. Len(q) : Append(q, e)[i] = q[i]
           /\ Append(q, e)[Len(q) + 1] = e
  OBVIOUS

\* A result that a tab sends is one.
LEMMA ReplyTyped ==
    ASSUME up \in [Conns -> Seq(Caps \cup Bridge!Results)],
           NEW k \in Conns, NEW c \in Calls, Reply(k, c)
    PROVE  up' \in [Conns -> Seq(Caps \cup Bridge!Results)]
<1>1. PICK output \in Outputs :
         up' = IF rpc[k] = "gone" THEN up
               ELSE [up EXCEPT ![k] = Append(@, [id |-> c, output |-> output])]
  BY DEF Reply
<1>2. [id |-> c, output |-> output] \in Caps \cup Bridge!Results
  BY DEF Bridge!Results
<1>3. Append(up[k], [id |-> c, output |-> output]) \in Seq(Caps \cup Bridge!Results)
  BY <1>2, AppendTo
<1> QED
  BY <1>1, <1>3

\* A write that gets through adds its frame at the end.
LEMMA WrittenFrame ==
    ASSUME TypeOK, NEW k \in Conns, NEW frame \in Calls \cup Caps \cup {None},
           Written(k, frame)
    PROVE  /\ down' \in [Conns -> Seq(Calls \cup Caps \cup {None})]
           /\ \A j \in Conns : j # k => down'[j] = down[j]
           /\ down'[k] = down[k] \/ down'[k] = Append(down[k], frame)
<1>1. down[k] \in Seq(Calls \cup Caps \cup {None})
  BY DEF TypeOK
<1>2. Append(down[k], frame) \in Seq(Calls \cup Caps \cup {None})
  BY <1>1, AppendTo
<1> QED
  BY <1>1, <1>2 DEF Written, TypeOK

\* A step of the endpoint keeps its own state of the declared types.
LEMMA EndpointTypeStep ==
    ASSUME TypeOK, Bridge!TypeOK, [Next]_vars
    PROVE  TypeOK'
<1> USE TransportAssumption DEF Bridge!BridgeAssumption
<1>1. ASSUME NEW k \in Conns, Accept(k) PROVE TypeOK'
  <2>1. PICK caps \in Caps : up' = [up EXCEPT ![k] = Append(@, caps)]
    BY <1>1 DEF Accept, Page!Opens
  <2>2. Append(up[k], caps) \in Seq(Caps \cup Bridge!Results)
    BY AppendTo DEF TypeOK
  <2>3. up' \in [Conns -> Seq(Caps \cup Bridge!Results)]
    BY <2>1, <2>2 DEF TypeOK
  <2> QED
    BY <1>1, <2>3 DEF TypeOK, Accept, Page!Opens, tabs
<1>2. ASSUME NEW k \in Conns, Handler(k) PROVE TypeOK'
  <2>1. Incoming(k) => up' \in [Conns -> Seq(Caps \cup Bridge!Results)]
    <3>1. up[k] # <<>> => Tail(up[k]) \in Seq(Caps \cup Bridge!Results)
      BY TailOf DEF TypeOK
    <3> QED
      BY <3>1 DEF Incoming, TypeOK
  <2>2. CASE HandlerConnect(k)
    BY <2>2 DEF TypeOK, HandlerConnect, sockets, tabs
  <2>3. CASE HandleCapabilities(k) \/ HandleResult(k)
    BY <2>1, <2>3
    DEF TypeOK, HandleCapabilities, HandleResult, goroutines, tabs
  <2>4. CASE HandleResultSend(k) \/ \E c \in Calls : HandlerCloseResponse(k, c)
    BY <2>4
    DEF TypeOK, HandleResultSend, HandlerCloseResponse, goroutines, sockets,
       tabs
  <2>5. CASE HandleUnknownResult(k)
    BY <2>1, <2>5 DEF TypeOK, HandleUnknownResult, Leave, tabs
  <2>6. CASE ReadFails(k) \/ HandlerDisconnect(k)
    BY <2>6 DEF TypeOK, ReadFails, HandlerDisconnect, Leave, sockets, tabs
  <2>7. CASE HandlerClose(k)
    <3>1. <<>> \in Seq(Caps \cup Bridge!Results)
      OBVIOUS
    <3>2. up' \in [Conns -> Seq(Caps \cup Bridge!Results)]
      BY <2>7, <3>1 DEF TypeOK, HandlerClose
    <3> QED
      BY <2>7, <3>2 DEF TypeOK, HandlerClose, tabs
  <2> QED
    BY <1>2, <2>2, <2>3, <2>4, <2>5, <2>6, <2>7 DEF Handler
<1>3. ASSUME NEW k \in Conns, Writer(k) PROVE TypeOK'
  <2>1. capabilities[ConnSession[k]] \in Calls \cup Caps \cup {None}
    BY DEF Bridge!TypeOK
  <2>2. CASE WriteCapabilities(k)
    <3>1. down' \in [Conns -> Seq(Calls \cup Caps \cup {None})]
      BY <2>1, <2>2, WrittenFrame DEF WriteCapabilities
    <3> QED
      BY <2>2, <3>1 DEF TypeOK, WriteCapabilities, tabs
  <2>3. CASE WriterReceive(k)
    <3>1. Head(requests[ConnSession[k]]) \in Calls
      BY <2>3, TailOf
      DEF WriterReceive, Bridge!ReceiveRequest, Bridge!TypeOK
    <3> QED
      BY <2>3, <3>1 DEF TypeOK, WriterReceive, sockets, tabs
  <2>4. CASE WriteRequest(k)
    <3>1. writing[k] \in Calls \cup Caps \cup {None}
      BY DEF TypeOK
    <3>2. down' \in [Conns -> Seq(Calls \cup Caps \cup {None})]
      BY <2>4, <3>1, WrittenFrame DEF WriteRequest
    <3> QED
      BY <2>4, <3>2 DEF TypeOK, WriteRequest, tabs
  <2>5. CASE WriteFails(k) \/ WriterCancelled(k)
    BY <2>5 DEF TypeOK, WriteFails, WriterCancelled, WriterStops, sockets, tabs
  <2> QED
    BY <1>3, <2>2, <2>3, <2>4, <2>5 DEF Writer
<1>4. ASSUME NEW k \in Conns, TabReceive(k) PROVE TypeOK'
  <2>1. /\ Tail(down[k]) \in Seq(Calls \cup Caps \cup {None})
        /\ ConnTab[k] \in Tabs
    BY <1>4, TailOf
    DEF TypeOK, TabReceive, Read, Page!Takes, Page!Delivered, Tabs
  <2>2. down' \in [Conns -> Seq(Calls \cup Caps \cup {None})]
    BY <1>4, <2>1 DEF TypeOK, TabReceive, Read, Page!Takes, Page!Delivered
  <2>3. running' \in [Tabs -> SUBSET Calls] /\ delivered' \in [Calls -> Nat]
    <3>1. CASE Head(down[k]) \in Calls
      <4> DEFINE frame == Head(down[k])
      <4>1. /\ running' = [running EXCEPT ![ConnTab[k]] = @ \cup {frame}]
            /\ delivered' = [delivered EXCEPT ![frame] = @ + 1]
        BY <1>4, <3>1 DEF TabReceive, Read, Page!Takes, Page!Delivered
      <4> HIDE DEF frame
      <4>2. frame \in Calls
        BY <3>1 DEF frame
      <4> QED
        BY <2>1, <4>1, <4>2 DEF TypeOK
    <3>2. CASE Head(down[k]) \notin Calls
      BY <1>4, <3>2 DEF TypeOK, TabReceive, Read, Page!Takes, Page!Delivered
    <3> QED
      BY <3>1, <3>2
  <2> QED
    BY <1>4, <2>2, <2>3
    DEF TypeOK, TabReceive, Read, Page!Takes, Page!Delivered, goroutines
<1>5. ASSUME NEW k \in Conns, TabClose(k) \/ TabDropped(k) PROVE TypeOK'
  <2>1. <<>> \in Seq(Calls \cup Caps \cup {None})
    OBVIOUS
  <2>2. down' \in [Conns -> Seq(Calls \cup Caps \cup {None})]
    BY <1>5, <2>1 DEF TypeOK, TabClose, TabDropped, Shut, Page!Shuts
  <2> QED
    BY <1>5, <2>2
    DEF TypeOK, TabClose, TabDropped, Shut, Page!Shuts, goroutines, tabs
<1>6. ASSUME NEW t \in Tabs, Tab(t) PROVE TypeOK'
  <2>1. ASSUME NEW c \in Calls, NEW k \in Conns, TabAnswer(t, c, k)
        PROVE  TypeOK'
    <3>1. up' \in [Conns -> Seq(Caps \cup Bridge!Results)]
      BY <2>1, ReplyTyped DEF TabAnswer, TypeOK
    <3> QED
      BY <2>1, <3>1 DEF TypeOK, TabAnswer, Page!Answers, Page!Ends, goroutines
  <2>2. ASSUME NEW c \in Calls, TabAnswerLost(t, c) PROVE TypeOK'
    BY <2>2
    DEF TypeOK, TabAnswerLost, Page!Loses, Page!Ends, goroutines, sockets
  <2> QED
    BY <1>6, <2>1, <2>2 DEF Tab
<1>7. ASSUME NEW c \in Calls, CallStep(c) PROVE TypeOK'
  BY <1>7 DEF TypeOK, CallStep, goroutines, sockets, tabs
<1>8. CASE UNCHANGED vars
  BY <1>8 DEF TypeOK, vars, goroutines, sockets, tabs
<1>9. ASSUME NEW k \in Conns, TabRefuse(k) PROVE TypeOK'
  <2>1. Tail(down[k]) \in Seq(Calls \cup Caps \cup {None})
    BY <1>9, TailOf DEF TypeOK, TabRefuse, Read
  <2>2. down' \in [Conns -> Seq(Calls \cup Caps \cup {None})]
    BY <1>9, <2>1 DEF TypeOK, TabRefuse, Read
  <2>3. up' \in [Conns -> Seq(Caps \cup Bridge!Results)]
    BY <1>9, ReplyTyped DEF TabRefuse, TypeOK
  <2> QED
    BY <1>9, <2>2, <2>3
    DEF TypeOK, TabRefuse, Page!Refuses, Page!Delivered, goroutines
<1> QED
  BY <1>1, <1>2, <1>3, <1>4, <1>5, <1>6, <1>7, <1>8, <1>9 DEF Next

\* The endpoint's own state is always of the declared types.
THEOREM EndpointTyped == Spec => []TypeOK
<1>1. Init => TypeOK
  BY DEF Init, Page!Init, Tabs, TypeOK
<1>2. Bridge!BridgeInv => Bridge!TypeOK
  BY DEF Bridge!BridgeInv
<1> QED
  BY <1>1, <1>2, EndpointTypeStep, BridgeInvBehind, PTL DEF Spec

-----------------------------------------------------------------------------
(* The way of a request.                                                   *)

\* The writer of k has request c in its hands.
Held(c, k) == wpc[k] = "write" /\ writing[k] = c

\* Request c is in frame i on its way to the tab of k.
InFrame(c, k, i) == i \in 1 .. Len(down[k]) /\ down[k][i] = c

\* A request that a writer took is in its hands, in one frame of its socket
\* or was delivered, or it is lost.
OnItsWay ==
    \A c \in Calls, k \in Conns :
        /\ Held(c, k) => taken[c] = k /\ delivered[c] = 0
        /\ \A i \in 1 .. Len(down[k]) : InFrame(c, k, i) =>
              /\ taken[c] = k /\ delivered[c] = 0 /\ ~Held(c, k)
              /\ \A j \in 1 .. Len(down[k]) : InFrame(c, k, j) => i = j

\* It is delivered once, and executions and results are of delivered ones.
Arrived ==
    \A c \in Calls :
        /\ delivered[c] \in {0, 1}
        /\ delivered[c] = 1 => taken[c] # None
        /\ accepted[c] # None => delivered[c] = 1
        /\ \A t \in Tabs : c \in running[t] => delivered[c] = 1

\* A result on its way to the backend is that of a delivered request.
Answers ==
    \A k \in Conns : \A i \in 1 .. Len(up[k]) :
        up[k][i] \in Bridge!Results => delivered[up[k][i].id] = 1

WayInv == OnItsWay /\ Arrived /\ Answers

\* Nothing is on its way initially.
LEMMA WayInit == Init => WayInv
  BY DEF Init, Bridge!Init, Page!Init, Tabs, WayInv, OnItsWay, Arrived,
     Answers, Held, InFrame

\* Nothing of the way changes.
LEMMA WayUnmoved ==
    ASSUME WayInv, UNCHANGED <<taken, accepted, running, delivered>>,
           \A c \in Calls, k \in Conns : Held(c, k)' => Held(c, k),
           down' = down, up' = up
    PROVE  WayInv'
  BY DEF WayInv, OnItsWay, Arrived, Answers, Held, InFrame

\* A frame towards the backend was there before, or is one that may be.
LEMMA AnswersKept ==
    ASSUME Answers, delivered' = delivered,
           \A j \in Conns : \A i \in 1 .. Len(up'[j]) :
              \/ \E l \in 1 .. Len(up[j]) : up'[j][i] = up[j][l]
              \/ up'[j][i] \notin Bridge!Results
              \/ delivered[up'[j][i].id] = 1
    PROVE  Answers'
  BY DEF Answers

\* A frame is taken off.
LEMMA WayIncoming ==
    ASSUME TypeOK, WayInv, NEW k \in Conns, Incoming(k),
           UNCHANGED <<taken, running, delivered, wpc, writing, down>>,
           \A c \in Calls : accepted'[c] # None =>
               accepted[c] # None \/ delivered[c] = 1
    PROVE  WayInv'
<1>1. /\ up[k] \in Seq(Caps \cup Bridge!Results) /\ up[k] # <<>>
      /\ \A j \in Conns : up'[j] = IF j = k THEN Tail(up[k]) ELSE up[j]
  BY DEF TypeOK, Incoming
<1>2. \A i \in 1 .. Len(Tail(up[k])) :
         Tail(up[k])[i] = up[k][i + 1] /\ i + 1 \in 1 .. Len(up[k])
  BY <1>1, TailOf
<1>3. ASSUME NEW j \in Conns, NEW i \in 1 .. Len(up'[j])
      PROVE  \E l \in 1 .. Len(up[j]) : up'[j][i] = up[j][l]
  <2>1. CASE j = k
    <3>1. up'[j] = Tail(up[k])
      BY <1>1, <2>1
    <3> QED
      BY <1>2, <2>1, <3>1
  <2>2. CASE j # k
    BY <1>1, <2>2
  <2> QED
    BY <2>1, <2>2
<1>4. Answers'
  BY <1>3, AnswersKept DEF WayInv
<1> QED
  BY <1>4 DEF WayInv, OnItsWay, Arrived, Held, InFrame

\* The steps of the handler goroutine.
LEMMA WayHandler ==
    ASSUME TypeOK, WayInv, NEW k \in Conns, Handler(k)
    PROVE  WayInv'
<1>1. CASE HandlerConnect(k)
  BY <1>1, WayUnmoved
  DEF HandlerConnect, Bridge!Connect, Bridge!history, sockets, tabs, Held
<1>2. CASE HandleCapabilities(k)
  BY <1>2, WayIncoming
  DEF HandleCapabilities, Bridge!PublishCapabilities, Bridge!history,
      goroutines, tabs
<1>3. CASE HandleResult(k)
  <2> DEFINE result == Head(up[k])
  <2>1. /\ Incoming(k) /\ result \in Bridge!Results
        /\ accepted' = [accepted EXCEPT ![result.id] = result]
        /\ UNCHANGED <<taken, running, delivered, wpc, writing, down>>
    BY <1>3 DEF HandleResult, Bridge!SubmitLookup, goroutines, tabs
  <2>2. 1 \in 1 .. Len(up[k]) /\ result = up[k][1]
    BY <2>1, TailOf DEF Incoming, TypeOK
  <2>3. delivered[result.id] = 1
    BY <2>1, <2>2 DEF WayInv, Answers
  <2> HIDE DEF result
  <2>4. \A c \in Calls : accepted'[c] # None =>
           accepted[c] # None \/ delivered[c] = 1
    BY <2>1, <2>3
  <2> QED
    BY <2>1, <2>4, WayIncoming
<1>4. CASE HandleUnknownResult(k)
  BY <1>4, WayIncoming DEF HandleUnknownResult, bridge, tabs
<1>5. CASE HandlerClose(k)
  <2>3. /\ up' = [up EXCEPT ![k] = <<>>]
        /\ delivered' = delivered
    BY <1>5 DEF HandlerClose, tabs
  <2>4. \A j \in Conns : \A i \in 1 .. Len(up'[j]) :
           j # k /\ up'[j] = up[j]
    BY <2>3 DEF TypeOK
  <2>1. Answers'
    BY <2>3, <2>4 DEF WayInv, Answers
  <2>2. UNCHANGED <<taken, accepted, running, delivered, wpc, writing, down>>
    BY <1>5 DEF HandlerClose, tabs, bridge
  <2> QED
    BY <2>1, <2>2 DEF WayInv, OnItsWay, Arrived, Held, InFrame
<1>6. CASE ReadFails(k) \/ HandlerDisconnect(k)
  BY <1>6, WayUnmoved
  DEF ReadFails, HandlerDisconnect, Bridge!Disconnect, Bridge!history, bridge,
      sockets, tabs, Held
<1>7. CASE HandleResultSend(k) \/ \E c \in Calls : HandlerCloseResponse(k, c)
  BY <1>7, WayUnmoved
  DEF HandleResultSend, HandlerCloseResponse, Bridge!SubmitSend,
      Bridge!CloseResponse, Bridge!history, goroutines, sockets, tabs, Held
<1> QED
  BY <1>1, <1>2, <1>3, <1>4, <1>5, <1>6, <1>7 DEF Handler

\* A frame that is written adds a request to those on their way only if the
\* writer held it, and then no longer does.
LEMMA WayWritten ==
    ASSUME TypeOK, WayInv, NEW k \in Conns,
           NEW frame \in Calls \cup Caps \cup {None}, Written(k, frame),
           frame \in Calls => Held(frame, k),
           wpc'[k] # "write",
           \A j \in Conns \ {k} : wpc'[j] = wpc[j] /\ writing'[j] = writing[j],
           UNCHANGED <<taken, accepted, running, delivered, up>>
    PROVE  WayInv'
<1>1. /\ \A j \in Conns : j # k => down'[j] = down[j]
      /\ down'[k] = down[k] \/ down'[k] = Append(down[k], frame)
      /\ down[k] \in Seq(Calls \cup Caps \cup {None})
  BY WrittenFrame DEF TypeOK
<1>2. /\ Len(Append(down[k], frame)) = Len(down[k]) + 1
      /\ \A i \in 1 .. Len(down[k]) : Append(down[k], frame)[i] = down[k][i]
      /\ Append(down[k], frame)[Len(down[k]) + 1] = frame
      /\ Len(down[k]) \in Nat
  BY <1>1, AppendTo
<1>3. ASSUME NEW c \in Calls, NEW j \in Conns
      PROVE  /\ Held(c, j)' => taken'[c] = j /\ delivered'[c] = 0
             /\ \A i \in 1 .. Len(down'[j]) : InFrame(c, j, i)' =>
                   /\ taken'[c] = j /\ delivered'[c] = 0 /\ ~Held(c, j)'
                   /\ \A l \in 1 .. Len(down'[j]) : InFrame(c, j, l)' => i = l
  <2>1. CASE j # k
    BY <1>1, <2>1 DEF WayInv, OnItsWay, Held, InFrame
  <2>2. CASE j = k /\ down'[k] = down[k]
    BY <2>2 DEF WayInv, OnItsWay, Held, InFrame
  <2>3. CASE j = k /\ down'[k] = Append(down[k], frame)
    <3>1. ASSUME NEW i \in 1 .. Len(down'[k]), down'[k][i] = c
          PROVE  \/ i \in 1 .. Len(down[k]) /\ InFrame(c, k, i)
                 \/ i = Len(down[k]) + 1 /\ c = frame /\ Held(c, k)
      BY <1>2, <2>3, <3>1 DEF InFrame
    <3> QED
      BY <2>3, <3>1 DEF WayInv, OnItsWay, Held, InFrame
  <2> QED
    BY <1>1, <2>1, <2>2, <2>3
<1>4. OnItsWay'
  BY <1>3 DEF OnItsWay
<1> QED
  BY <1>4 DEF WayInv, Arrived, Answers

\* The steps of the writer goroutine.
LEMMA WayWriter ==
    ASSUME TypeOK, Bridge!TypeOK, Bridge!QueueInv, WayInv,
           NEW k \in Conns, Writer(k)
    PROVE  WayInv'
<1> USE TransportAssumption DEF Bridge!BridgeAssumption
<1>1. CASE WriteCapabilities(k)
  <2>1. capabilities[ConnSession[k]] \in Caps \cup {None}
    BY DEF Bridge!TypeOK
  <2>2. /\ Written(k, capabilities[ConnSession[k]])
        /\ wpc' = [wpc EXCEPT ![k] = "select"] /\ writing' = writing
        /\ UNCHANGED <<taken, accepted, running, delivered, up>>
    BY <1>1 DEF WriteCapabilities, bridge, tabs
  <2>3. capabilities[ConnSession[k]] \notin Calls
    BY <2>1
  <2>4. /\ wpc'[k] # "write"
        /\ \A j \in Conns \ {k} : wpc'[j] = wpc[j] /\ writing'[j] = writing[j]
    BY <2>2 DEF TypeOK
  <2> QED
    BY <2>1, <2>2, <2>3, <2>4, WayWritten
<1>2. CASE WriterReceive(k)
  <2> DEFINE s == ConnSession[k]
             new == Head(requests[s])
  <2>1. /\ requests[s] \in Seq(Calls) /\ requests[s] # <<>>
        /\ taken' = [taken EXCEPT ![new] = k]
        /\ wpc' = [wpc EXCEPT ![k] = "write"]
        /\ writing' = [writing EXCEPT ![k] = new]
        /\ UNCHANGED <<accepted, running, delivered, up, down>>
    BY <1>2
    DEF WriterReceive, Bridge!ReceiveRequest, Bridge!TypeOK, sockets, tabs
  <2>2. new \in Calls /\ taken[new] = None
    <3>1. 1 \in 1 .. Len(requests[s]) /\ new = requests[s][1] /\ new \in Calls
      BY <2>1, TailOf
    <3>2. s \in Sessions
      OBVIOUS
    <3> QED
      BY <3>1, <3>2 DEF Bridge!QueueInv
  <2> HIDE DEF new, s
  <2>3. /\ \A j \in Conns : ~Held(new, j) /\ \A i : ~InFrame(new, j, i)
        /\ delivered[new] = 0
    BY <2>2 DEF WayInv, OnItsWay, Arrived, InFrame
  <2>4. \A c \in Calls : taken'[c] = IF c = new THEN k ELSE taken[c]
    BY <2>1, <2>2 DEF Bridge!TypeOK
  <2>5. \A c \in Calls, j \in Conns :
           /\ \A i : InFrame(c, j, i)' = InFrame(c, j, i)
           /\ Held(c, j)' => Held(c, j) \/ (c = new /\ j = k)
    BY <2>1 DEF InFrame, Held, TypeOK
  <2>6. OnItsWay'
    BY <2>1, <2>3, <2>4, <2>5 DEF WayInv, OnItsWay, InFrame
  <2> QED
    BY <2>1, <2>4, <2>6 DEF WayInv, Arrived, Answers
<1>3. CASE WriteRequest(k)
  <2>1. /\ writing[k] \in Calls \cup {None} /\ Written(k, writing[k])
        /\ wpc[k] = "write"
        /\ wpc' = [wpc EXCEPT ![k] = "select"]
        /\ writing' = [writing EXCEPT ![k] = None]
        /\ UNCHANGED <<taken, accepted, running, delivered, up>>
    BY <1>3 DEF WriteRequest, bridge, tabs, TypeOK
  <2>2. Held(writing[k], k)
    BY <2>1 DEF Held
  <2>3. /\ wpc'[k] # "write"
        /\ \A j \in Conns \ {k} : wpc'[j] = wpc[j] /\ writing'[j] = writing[j]
    BY <2>1 DEF TypeOK
  <2> QED
    BY <2>1, <2>2, <2>3, WayWritten
<1>4. CASE WriteFails(k) \/ WriterCancelled(k)
  <2>1. \A c \in Calls, j \in Conns : Held(c, j)' => Held(c, j)
    BY <1>4 DEF WriteFails, WriterCancelled, WriterStops, Held, TypeOK
  <2> QED
    BY <1>4, <2>1, WayUnmoved
    DEF WriteFails, WriterCancelled, bridge, sockets, tabs
<1> QED
  BY <1>1, <1>2, <1>3, <1>4 DEF Writer

\* A tab reads a frame: a request in it was delivered, once and for all, and
\* may be executed or answered.
LEMMA WayRead ==
    ASSUME TypeOK, WayInv, NEW k \in Conns, Read(k), NEW frame,
           frame = Head(down[k]),
           UNCHANGED <<taken, accepted, wpc, writing>>,
           delivered' = IF frame \in Calls
                        THEN [delivered EXCEPT ![frame] = @ + 1] ELSE delivered,
           \A c \in Calls, t \in Tabs :
              c \in running'[t] => c \in running[t] \/ c = frame,
           \A j \in Conns : \A i \in 1 .. Len(up'[j]) :
              \/ \E l \in 1 .. Len(up[j]) : up'[j][i] = up[j][l]
              \/ up'[j][i].id = frame
    PROVE  WayInv'
<1>1. /\ down[k] \in Seq(Calls \cup Caps \cup {None}) /\ down[k] # <<>>
      /\ \A j \in Conns : down'[j] = IF j = k THEN Tail(down[k]) ELSE down[j]
      /\ UNCHANGED <<taken, accepted, wpc, writing>>
  BY DEF TypeOK, Read
<1>2. /\ Len(Tail(down[k])) = Len(down[k]) - 1
      /\ \A i \in 1 .. Len(Tail(down[k])) :
            Tail(down[k])[i] = down[k][i + 1] /\ i + 1 \in 1 .. Len(down[k])
      /\ 1 \in 1 .. Len(down[k]) /\ frame = down[k][1]
      /\ Len(down[k]) \in Nat
  BY <1>1, TailOf
<1>4. frame \in Calls => InFrame(frame, k, 1)
  BY <1>2 DEF InFrame
<1>5. \A c \in Calls : /\ delivered'[c] = IF c = frame THEN 1 ELSE delivered[c]
                       /\ delivered[c] = 1 => delivered'[c] = 1
  <2>1. CASE frame \in Calls
    <3>1. delivered[frame] = 0
      BY <1>2, <1>4, <2>1 DEF WayInv, OnItsWay
    <3> QED
      BY <2>1, <3>1 DEF TypeOK
  <2>2. CASE frame \notin Calls
    BY <2>2
  <2> QED
    BY <2>1, <2>2
<1>6. \A c \in Calls, j \in Conns : \A i \in 1 .. Len(down'[j]) :
         InFrame(c, j, i)' =>
            IF j = k THEN i + 1 \in 1 .. Len(down[k]) /\ InFrame(c, k, i + 1)
                     ELSE i \in 1 .. Len(down[j]) /\ InFrame(c, j, i)
  BY <1>1, <1>2 DEF InFrame
<1>7. \A c \in Calls, j \in Conns : \A i \in 1 .. Len(down'[j]) :
         InFrame(c, j, i)' => c # frame
  <2> SUFFICES ASSUME NEW c \in Calls, NEW j \in Conns,
                      NEW i \in 1 .. Len(down'[j]), InFrame(c, j, i)', c = frame
               PROVE  FALSE
    OBVIOUS
  <2>1. taken[c] = k
    BY <1>2, <1>4 DEF WayInv, OnItsWay
  <2>2. j = k
    BY <1>6, <2>1 DEF WayInv, OnItsWay
  <2>3. i + 1 \in 1 .. Len(down[k]) /\ InFrame(c, k, i + 1)
    BY <1>6, <2>2
  <2>4. i + 1 = 1
    BY <1>2, <1>4, <2>3 DEF WayInv, OnItsWay
  <2>5. i >= 1
    OBVIOUS
  <2> QED
    BY <2>4, <2>5
<1>8. \A c \in Calls, j \in Conns : Held(c, j)' => Held(c, j) /\ c # frame
  BY <1>1, <1>2, <1>4 DEF WayInv, OnItsWay, Held
<1>9. ASSUME NEW c \in Calls, NEW j \in Conns
      PROVE  /\ Held(c, j)' => taken'[c] = j /\ delivered'[c] = 0
             /\ \A i \in 1 .. Len(down'[j]) : InFrame(c, j, i)' =>
                   /\ taken'[c] = j /\ delivered'[c] = 0 /\ ~Held(c, j)'
                   /\ \A l \in 1 .. Len(down'[j]) : InFrame(c, j, l)' => i = l
  <2>1. Held(c, j)' => taken'[c] = j /\ delivered'[c] = 0
    BY <1>1, <1>5, <1>8 DEF WayInv, OnItsWay
  <2>2. ASSUME NEW i \in 1 .. Len(down'[j]), InFrame(c, j, i)'
        PROVE  /\ taken'[c] = j /\ delivered'[c] = 0 /\ ~Held(c, j)'
               /\ \A l \in 1 .. Len(down'[j]) : InFrame(c, j, l)' => i = l
    <3>1. c # frame
      BY <1>7, <2>2
    <3>2. CASE j = k
      <4>1. i + 1 \in 1 .. Len(down[k]) /\ InFrame(c, k, i + 1)
        BY <1>6, <2>2, <3>2
      <4>2. \A l \in 1 .. Len(down'[j]) : InFrame(c, j, l)' =>
               l + 1 \in 1 .. Len(down[k]) /\ InFrame(c, k, l + 1)
        BY <1>6, <3>2
      <4> QED
        BY <1>1, <1>5, <1>8, <3>1, <3>2, <4>1, <4>2 DEF WayInv, OnItsWay
    <3>3. CASE j # k
      <4>1. i \in 1 .. Len(down[j]) /\ InFrame(c, j, i)
        BY <1>6, <2>2, <3>3
      <4>2. \A l \in 1 .. Len(down'[j]) : InFrame(c, j, l)' =>
               l \in 1 .. Len(down[j]) /\ InFrame(c, j, l)
        BY <1>6, <3>3
      <4> QED
        BY <1>1, <1>5, <1>8, <3>1, <3>3, <4>1, <4>2 DEF WayInv, OnItsWay
    <3> QED
      BY <3>2, <3>3
  <2> QED
    BY <2>1, <2>2
<1>10. Arrived'
  <2>1. frame \in Calls => taken[frame] # None
    BY <1>2, <1>4, TransportAssumption
    DEF WayInv, OnItsWay, Bridge!BridgeAssumption
  <2> QED
    BY <1>1, <1>5, <2>1 DEF WayInv, Arrived
<1>11. Answers'
  BY <1>1, <1>5 DEF WayInv, Answers, Bridge!Results
<1> QED
  BY <1>9, <1>10, <1>11 DEF WayInv, OnItsWay

\* A tab takes up a request, or refuses it.
LEMMA WayReceive ==
    ASSUME TypeOK, WayInv, NEW k \in Conns, TabReceive(k) \/ TabRefuse(k)
    PROVE  WayInv'
<1> DEFINE frame == Head(down[k])
<1>1. /\ Read(k)
      /\ UNCHANGED <<taken, accepted, wpc, writing>>
      /\ delivered' = IF frame \in Calls
                      THEN [delivered EXCEPT ![frame] = @ + 1] ELSE delivered
  BY DEF TabReceive, TabRefuse, Page!Takes, Page!Refuses, Page!Delivered,
     bridge,
         goroutines
<1>2. \/ running' = running
      \/ running' = [running EXCEPT ![ConnTab[k]] = @ \cup {frame}]
  BY DEF TabReceive, TabRefuse, Page!Takes, Page!Refuses
<1>3. \/ up' = up
      \/ /\ frame \in Calls
         /\ \E output \in Outputs :
               up' = [up EXCEPT ![k] = Append(@, [id |-> frame, output |-> output])]
  BY DEF TabReceive, TabRefuse, Reply
<1> HIDE DEF frame
<1>4. \A c \in Calls, t \in Tabs : c \in running'[t] => c \in running[t] \/ c = frame
  <2>1. CASE running' = running
    BY <2>1
  <2>2. CASE running' = [running EXCEPT ![ConnTab[k]] = @ \cup {frame}]
    <3>1. \A t \in Tabs : \/ running'[t] = running[t]
                         \/ running'[t] = running[t] \cup {frame}
      BY <2>2 DEF TypeOK
    <3> QED
      BY <3>1
  <2> QED
    BY <1>2, <2>1, <2>2
<1>5. \A j \in Conns : \A i \in 1 .. Len(up'[j]) :
         \/ \E l \in 1 .. Len(up[j]) : up'[j][i] = up[j][l]
         \/ up'[j][i].id = frame
  <2>1. CASE up' = up
    BY <2>1
  <2>2. ASSUME frame \in Calls, NEW output \in Outputs,
               up' = [up EXCEPT ![k] = Append(@, [id |-> frame, output |-> output])]
        PROVE  \A j \in Conns : \A i \in 1 .. Len(up'[j]) :
                  \/ \E l \in 1 .. Len(up[j]) : up'[j][i] = up[j][l]
                  \/ up'[j][i].id = frame
    <3> DEFINE result == [id |-> frame, output |-> output]
    <3>1. \A j \in Conns : up'[j] = IF j = k THEN Append(up[k], result) ELSE up[j]
      BY <2>2 DEF TypeOK
    <3>2. result.id = frame
      OBVIOUS
    <3>3. /\ up[k] \in Seq(Caps \cup Bridge!Results)
          /\ result \in Caps \cup Bridge!Results
      BY <2>2 DEF TypeOK, Bridge!Results
    <3> HIDE DEF result
    <3>4. /\ Len(Append(up[k], result)) = Len(up[k]) + 1
          /\ \A i \in 1 .. Len(up[k]) : Append(up[k], result)[i] = up[k][i]
          /\ Append(up[k], result)[Len(up[k]) + 1] = result
          /\ Len(up[k]) \in Nat
      BY <3>3, AppendTo
    <3>5. \A i \in 1 .. Len(Append(up[k], result)) :
             i \in 1 .. Len(up[k]) \/ i = Len(up[k]) + 1
      BY <3>4
    <3> QED
      BY <3>1, <3>2, <3>4, <3>5
  <2> QED
    BY <1>3, <2>1, <2>2
<1> QED
  BY <1>1, <1>4, <1>5, WayRead DEF frame

\* Every step preserves the invariant.
LEMMA WayStep ==
    ASSUME TypeOK, Bridge!BridgeInv, WayInv, [Next]_vars
    PROVE  WayInv'
<1> USE TransportAssumption
<1>0. Bridge!TypeOK /\ Bridge!QueueInv
  BY DEF Bridge!BridgeInv
<1>1. ASSUME NEW k \in Conns, Accept(k) PROVE WayInv'
  <2>1. PICK caps \in Caps : up' = [up EXCEPT ![k] = Append(@, caps)]
    BY <1>1 DEF Accept, Page!Opens
  <2>2. /\ up[k] \in Seq(Caps \cup Bridge!Results)
        /\ caps \in Caps \cup Bridge!Results
        /\ \A j \in Conns : up'[j] = IF j = k THEN Append(up[k], caps) ELSE up[j]
        /\ caps \notin Bridge!Results
    BY <2>1 DEF TypeOK
  <2>3. /\ Len(Append(up[k], caps)) = Len(up[k]) + 1
        /\ \A i \in 1 .. Len(up[k]) : Append(up[k], caps)[i] = up[k][i]
        /\ Append(up[k], caps)[Len(up[k]) + 1] = caps
        /\ Len(up[k]) \in Nat
    BY <2>2, AppendTo
  <2>4. UNCHANGED <<taken, accepted, running, delivered, wpc, writing, down>>
    BY <1>1 DEF Accept, Page!Opens, bridge, tabs
  <2>5. ASSUME NEW j \in Conns, NEW i \in 1 .. Len(up'[j])
        PROVE  \/ \E l \in 1 .. Len(up[j]) : up'[j][i] = up[j][l]
               \/ up'[j][i] \notin Bridge!Results
    <3>1. CASE j = k
      <4>1. up'[j] = Append(up[k], caps)
        BY <2>2, <3>1
      <4>2. i \in 1 .. Len(up[k]) \/ i = Len(up[k]) + 1
        BY <2>3, <4>1
      <4> QED
        BY <2>2, <2>3, <3>1, <4>1, <4>2
    <3>2. CASE j # k
      BY <2>2, <3>2
    <3> QED
      BY <3>1, <3>2
  <2>6. Answers'
    BY <2>4, <2>5, AnswersKept DEF WayInv
  <2> QED
    BY <2>4, <2>6 DEF WayInv, OnItsWay, Arrived, Held, InFrame
<1>2. ASSUME NEW k \in Conns, Handler(k) PROVE WayInv'
  BY <1>2, WayHandler
<1>3. ASSUME NEW k \in Conns, Writer(k) PROVE WayInv'
  BY <1>0, <1>3, WayWriter
<1>4. ASSUME NEW k \in Conns, TabReceive(k) \/ TabRefuse(k) PROVE WayInv'
  BY <1>4, WayReceive
<1>5. ASSUME NEW k \in Conns, TabClose(k) \/ TabDropped(k) PROVE WayInv'
  <2>1. /\ \A j \in Conns : down'[j] = IF j = k THEN <<>> ELSE down[j]
        /\ UNCHANGED <<taken, accepted, running, delivered, wpc, writing, up>>
    BY <1>5
    DEF TabClose, TabDropped, Shut, Page!Shuts, bridge, goroutines, tabs, TypeOK
  <2>2. OnItsWay'
    BY <2>1 DEF WayInv, OnItsWay, Held, InFrame
  <2> QED
    BY <2>1, <2>2 DEF WayInv, Arrived, Answers
<1>6. ASSUME NEW t \in Tabs, NEW c \in Calls, NEW k \in Conns, TabAnswer(t, c, k)
      PROVE  WayInv'
  <2>1. PICK output \in Outputs :
           up' = IF rpc[k] = "gone" THEN up
                 ELSE [up EXCEPT ![k] = Append(@, [id |-> c, output |-> output])]
    BY <1>6 DEF TabAnswer, Reply, Page!Answers, Page!Ends
  <2> DEFINE result == [id |-> c, output |-> output]
  <2>2. /\ up[k] \in Seq(Caps \cup Bridge!Results)
        /\ result \in Caps \cup Bridge!Results
        /\ result.id = c
    BY DEF TypeOK, Bridge!Results
  <2>3. /\ Len(Append(up[k], result)) = Len(up[k]) + 1
        /\ \A i \in 1 .. Len(up[k]) : Append(up[k], result)[i] = up[k][i]
        /\ Append(up[k], result)[Len(up[k]) + 1] = result
        /\ Len(up[k]) \in Nat
    BY <2>2, AppendTo
  <2>4. \/ up' = up
        \/ \A j \in Conns :
              up'[j] = IF j = k THEN Append(up[k], result) ELSE up[j]
    BY <2>1 DEF TypeOK
  <2>5. /\ UNCHANGED <<taken, accepted, delivered, wpc, writing, down>>
        /\ \A u \in Tabs, d \in Calls : d \in running'[u] => d \in running[u]
        /\ c \in running[t]
    BY <1>6
    DEF TabAnswer, Reply, Page!Answers, Page!Ends, bridge, goroutines, TypeOK
  <2>6. delivered[c] = 1
    BY <2>5 DEF WayInv, Arrived
  <2> HIDE DEF result
  <2>7. ASSUME NEW j \in Conns, NEW i \in 1 .. Len(up'[j])
        PROVE  \/ \E l \in 1 .. Len(up[j]) : up'[j][i] = up[j][l]
               \/ delivered[up'[j][i].id] = 1
    <3>1. CASE up'[j] = Append(up[j], result) /\ j = k
      <4>1. i \in 1 .. Len(up[k]) \/ i = Len(up[k]) + 1
        BY <2>3, <3>1
      <4> QED
        BY <2>2, <2>3, <2>6, <3>1, <4>1
    <3>2. CASE up'[j] = up[j]
      BY <3>2
    <3> QED
      BY <2>4, <3>1, <3>2
  <2>8. Answers'
    BY <2>5, <2>7, AnswersKept DEF WayInv
  <2> QED
    BY <2>5, <2>8 DEF WayInv, OnItsWay, Arrived, Held, InFrame
<1>7. ASSUME NEW t \in Tabs, NEW c \in Calls, TabAnswerLost(t, c)
      PROVE  WayInv'
  <2>1. /\ UNCHANGED <<taken, accepted, delivered, wpc, writing, down, up>>
        /\ \A u \in Tabs, d \in Calls : d \in running'[u] => d \in running[u]
    BY <1>7
    DEF TabAnswerLost, Page!Loses, Page!Ends, bridge, goroutines, sockets,
       TypeOK
  <2> QED
    BY <2>1 DEF WayInv, OnItsWay, Arrived, Answers, Held, InFrame
<1>8. ASSUME NEW c \in Calls, CallStep(c) PROVE WayInv'
  <2>1. UNCHANGED <<taken, accepted>>
    BY <1>8
    DEF CallStep, Bridge!Caller, Bridge!CallRefused, Bridge!CallRegister,
        Bridge!CallSend, Bridge!CallReceive, Bridge!CallClosed,
        Bridge!CallCancelled, Bridge!CallReturn, Bridge!CancelContext,
        Bridge!history
  <2> QED
    BY <1>8, <2>1, WayUnmoved DEF CallStep, goroutines, sockets, tabs, Held
<1>9. CASE UNCHANGED vars
  BY <1>9, WayUnmoved DEF vars, bridge, goroutines, sockets, tabs, Held
<1> QED
  BY <1>1, <1>2, <1>3, <1>4, <1>5, <1>6, <1>7, <1>8, <1>9 DEF Next, Tab

\* A request reaches a tab at most once, and before its call is answered.
THEOREM RequestsRunOnce == Spec => []DeliveredOnce
<1>1. WayInv => DeliveredOnce
  BY DEF WayInv, Arrived, DeliveredOnce
<1> QED
  BY <1>1, WayInit, WayStep, EndpointTyped, BridgeInvBehind, PTL DEF Spec

-----------------------------------------------------------------------------
(* No call is forgotten.                                                   *)

\* A tab has one open socket at a time.
OneSocket ==
    \A j, k \in Conns : open[j] /\ open[k] /\ ConnTab[j] = ConnTab[k] => j = k

\* Only a connection that its handler has announced receives requests.
TakerStarted ==
    \A c \in Calls, k \in Conns : taken[c] = k => rpc[k] \notin {"off", "accepted"}

\* A writer holds a request only on its way from the select to the write.
HandsFree == \A k \in Conns : writing[k] # None => wpc[k] = "write"

InQueue(c) ==
    \E i \in DOMAIN requests[CallSession[c]] : requests[CallSession[c]][i] = c

\* What was sent and not received is in the request channel.
SentIsQueued ==
    \A c \in Calls : pc[c] = "wait" /\ taken[c] = None => InQueue(c)

Pending(c) == c \in responses[CallSession[c]]

\* What a connection received is underway there, unless something failed.
TakenIsUnderway ==
    \A c \in Calls, k \in Conns :
        Pending(c) /\ taken[c] = k /\ Healthy(k) => Underway(c, k)

ServedInv ==
    OneSocket /\ TakerStarted /\ HandsFree /\ SentIsQueued /\ TakenIsUnderway

\* The invariants of the sections above.
Settled == TypeOK /\ Bridge!BridgeInv /\ GhostInv /\ WayInv

\* Initially nothing is pending and nothing was sent.
LEMMA ServedInit == Init => ServedInv
  BY TransportAssumption
  DEF Init, Bridge!Init, Page!Init, Bridge!BridgeAssumption, ServedInv,
     OneSocket,
      TakerStarted, HandsFree, SentIsQueued, TakenIsUnderway, Pending

\* A tab opens a socket only when it has none open.
LEMMA OneSocketStep == TypeOK /\ ServedInv /\ [Next]_vars => OneSocket'
<1> SUFFICES ASSUME TypeOK, OneSocket, [Next]_vars PROVE OneSocket'
  BY DEF ServedInv
<1>1. ASSUME NEW k \in Conns, Accept(k) PROVE OneSocket'
  BY <1>1 DEF Accept, Page!Opens, OneSocket, TypeOK
<1>2. ASSUME \A j \in Conns : open'[j] => open[j] PROVE OneSocket'
  BY <1>2 DEF OneSocket
<1>3. ASSUME NEW k \in Conns, TabClose(k) \/ TabDropped(k) PROVE OneSocket'
  BY <1>2, <1>3 DEF TabClose, TabDropped, Shut, Page!Shuts, TypeOK
<1>4. ASSUME NEW k \in Conns, Handler(k) PROVE OneSocket'
  BY <1>2, <1>4 DEF Handler, HandlerConnect, HandleCapabilities, HandleResult,
     HandleResultSend, HandleUnknownResult, ReadFails, HandlerDisconnect,
     HandlerCloseResponse, HandlerClose, sockets
<1>5. ASSUME NEW k \in Conns, Writer(k) PROVE OneSocket'
  BY <1>2, <1>5 DEF Writer, WriteCapabilities, WriterReceive, WriteRequest,
     WriteFails, WriterCancelled, sockets
<1>6. ASSUME NEW k \in Conns, TabReceive(k) \/ TabRefuse(k) PROVE OneSocket'
  BY <1>2, <1>6
  DEF TabReceive, TabRefuse, Page!Takes, Page!Refuses, Page!Delivered
<1>7. ASSUME NEW t \in Tabs, Tab(t) PROVE OneSocket'
  BY <1>2, <1>7
  DEF Tab, TabAnswer, Page!Answers, TabAnswerLost, Page!Loses, Page!Ends
<1>8. ASSUME NEW c \in Calls, CallStep(c) PROVE OneSocket'
  BY <1>2, <1>8 DEF CallStep, sockets
<1>9. CASE UNCHANGED vars
  BY <1>2, <1>9 DEF vars, sockets
<1> QED
  BY <1>1, <1>3, <1>4, <1>5, <1>6, <1>7, <1>8, <1>9 DEF Next

\* Who received a request changes only when a writer receives one.
LEMMA TakenKept ==
    ASSUME [Next]_vars, ~\E k \in Conns : WriterReceive(k)
    PROVE  taken' = taken
<1>1. ASSUME NEW k \in Conns, Handler(k) PROVE taken' = taken
  BY <1>1 DEF Handler, HandlerConnect, HandleCapabilities, HandleResult,
     HandleResultSend, HandleUnknownResult, ReadFails, HandlerDisconnect,
     HandlerCloseResponse, HandlerClose, bridge, Bridge!Connect,
     Bridge!PublishCapabilities, Bridge!SubmitLookup, Bridge!SubmitSend,
     Bridge!Disconnect, Bridge!CloseResponse, Bridge!history
<1>2. ASSUME NEW k \in Conns, Writer(k) PROVE taken' = taken
  BY <1>2 DEF Writer, WriteCapabilities, WriteRequest, WriteFails,
     WriterCancelled, bridge
<1>3. ASSUME NEW k \in Conns,
             \/ Accept(k) \/ TabReceive(k) \/ TabRefuse(k)
             \/ TabClose(k) \/ TabDropped(k)
      PROVE taken' = taken
  BY <1>3 DEF Accept, TabReceive, TabRefuse, TabClose, TabDropped, bridge
<1>4. ASSUME NEW t \in Tabs, Tab(t) PROVE taken' = taken
  BY <1>4 DEF Tab, TabAnswer, TabAnswerLost, bridge
<1>5. ASSUME NEW c \in Calls, CallStep(c) PROVE taken' = taken
  BY <1>5 DEF CallStep, Bridge!Caller, Bridge!CallRefused,
     Bridge!CallRegister, Bridge!CallSend, Bridge!CallReceive,
     Bridge!CallClosed, Bridge!CallCancelled, Bridge!CallReturn,
     Bridge!CancelContext, Bridge!history
<1>6. CASE UNCHANGED vars
  BY <1>6 DEF vars, bridge
<1> QED
  BY <1>1, <1>2, <1>3, <1>4, <1>5, <1>6 DEF Next

\* A handler that has announced its connection never goes back.
LEMMA AnnouncedForGood ==
    ASSUME GhostInv, [Next]_vars, NEW j \in Conns,
           rpc'[j] \in {"off", "accepted"}
    PROVE  rpc[j] \in {"off", "accepted"}
<1>1. ASSUME NEW k \in Conns, Handler(k)
      PROVE rpc[j] \in {"off", "accepted"}
  BY <1>1 DEF Handler, HandlerConnect, HandleCapabilities, HandleResult,
     HandleResultSend, HandleUnknownResult, ReadFails, HandlerDisconnect,
     HandlerCloseResponse, HandlerClose, Leave, goroutines, GhostInv
<1>2. ASSUME NEW k \in Conns, Accept(k) PROVE rpc[j] \in {"off", "accepted"}
  BY <1>2 DEF Accept, Page!Opens, GhostInv
<1>3. ASSUME NEW k \in Conns,
             \/ Writer(k) \/ TabReceive(k) \/ TabRefuse(k)
             \/ TabClose(k) \/ TabDropped(k)
      PROVE rpc[j] \in {"off", "accepted"}
  BY <1>3
  DEF TabReceive, TabRefuse, TabClose, TabDropped, Writer, WriteCapabilities,
     WriterReceive, WriteRequest, WriteFails, WriterCancelled, goroutines
<1>4. ASSUME NEW t \in Tabs, Tab(t) PROVE rpc[j] \in {"off", "accepted"}
  BY <1>4 DEF Tab, TabAnswer, TabAnswerLost, goroutines
<1>5. ASSUME NEW c \in Calls, CallStep(c) PROVE rpc[j] \in {"off", "accepted"}
  BY <1>5 DEF CallStep, goroutines
<1>6. CASE UNCHANGED vars
  BY <1>6 DEF vars, goroutines
<1> QED
  BY <1>1, <1>2, <1>3, <1>4, <1>5, <1>6 DEF Next

\* What a writer receives is a call of its session that nobody received.
LEMMA Received ==
    ASSUME Settled, NEW k \in Conns, WriterReceive(k),
           NEW new, new = Head(requests[ConnSession[k]])
    PROVE  /\ new \in Calls /\ taken[new] = None
           /\ CallSession[new] = ConnSession[k]
           /\ \A c \in Calls : taken'[c] = IF c = new THEN k ELSE taken[c]
           /\ writing' = [writing EXCEPT ![k] = new]
           /\ rpc[k] \notin {"off", "accepted"}
<1> DEFINE s == ConnSession[k]
<1>1. /\ requests[s] \in Seq(Calls) /\ requests[s] # <<>>
      /\ s \in Sessions
      /\ taken' = [taken EXCEPT ![new] = k]
      /\ writing' = [writing EXCEPT ![k] = new]
      /\ conn[k] # "new"
  BY TransportAssumption
  DEF WriterReceive, Bridge!ReceiveRequest, Settled, Bridge!BridgeInv,
      Bridge!TypeOK, Bridge!BridgeAssumption
<1>2. 1 \in 1 .. Len(requests[s]) /\ new = requests[s][1] /\ new \in Calls
  BY <1>1, TailOf
<1>3. taken[new] = None /\ CallSession[new] = s
  BY <1>1, <1>2 DEF Settled, Bridge!BridgeInv, Bridge!QueueInv
<1>4. taken \in [Calls -> Conns \cup {None}]
  BY DEF Settled, Bridge!BridgeInv, Bridge!TypeOK
<1>5. rpc[k] \notin {"off", "accepted"}
  BY <1>1 DEF Settled, GhostInv, HandlerInv
<1> QED
  BY <1>1, <1>2, <1>3, <1>4, <1>5

\* A connection that received a request had been announced and stays so.
LEMMA TakerStep == Settled /\ ServedInv /\ [Next]_vars => TakerStarted'
<1> SUFFICES ASSUME Settled, TakerStarted, [Next]_vars PROVE TakerStarted'
  BY DEF ServedInv
<1>1. \A j \in Conns : rpc'[j] \in {"off", "accepted"}
         => rpc[j] \in {"off", "accepted"}
  BY AnnouncedForGood DEF Settled
<1>2. ASSUME NEW k \in Conns, WriterReceive(k) PROVE TakerStarted'
  <2>1. /\ rpc[k] \notin {"off", "accepted"}
        /\ \A c \in Calls : taken'[c] = k \/ taken'[c] = taken[c]
    BY <1>2, Received
  <2> QED
    BY <1>1, <2>1 DEF TakerStarted
<1>3. ASSUME ~\E k \in Conns : WriterReceive(k) PROVE TakerStarted'
  BY <1>1, <1>3, TakenKept DEF TakerStarted
<1> QED
  BY <1>2, <1>3

\* A writer that starts or leaves its write holds nothing.
LEMMA HandsStep == Settled /\ ServedInv /\ [Next]_vars => HandsFree'
<1> SUFFICES ASSUME Settled, TakerStarted, HandsFree, [Next]_vars
             PROVE  HandsFree'
  BY DEF ServedInv
<1>0. TypeOK /\ OnItsWay
  BY DEF Settled, WayInv
<1>1. ASSUME UNCHANGED <<wpc, writing>> PROVE HandsFree'
  BY <1>1 DEF HandsFree
<1>2. ASSUME NEW k \in Conns, HandlerConnect(k) PROVE HandsFree'
  <2>1. writing[k] = None
    <3> SUFFICES ASSUME writing[k] # None PROVE FALSE
      OBVIOUS
    <3>1. writing[k] \in Calls /\ wpc[k] = "write"
      BY <1>0 DEF TypeOK, HandsFree
    <3>2. taken[writing[k]] = k
      BY <1>0, <3>1 DEF OnItsWay, Held
    <3> QED
      BY <1>2, <3>1, <3>2 DEF TakerStarted, HandlerConnect
  <2> QED
    BY <1>0, <1>2, <2>1 DEF HandlerConnect, HandsFree, TypeOK
<1>3. ASSUME NEW k \in Conns, Handler(k) PROVE HandsFree'
  BY <1>1, <1>2, <1>3 DEF Handler, HandleCapabilities, HandleResult,
     HandleResultSend, HandleUnknownResult, ReadFails, HandlerDisconnect,
     HandlerCloseResponse, HandlerClose, goroutines
<1>4. ASSUME NEW k \in Conns, Writer(k) PROVE HandsFree'
  BY <1>0, <1>4 DEF Writer, WriteCapabilities, WriterReceive, WriteRequest,
     WriteFails, WriterCancelled, WriterStops, HandsFree, TypeOK
<1>5. ASSUME NEW k \in Conns,
             \/ Accept(k) \/ TabReceive(k) \/ TabRefuse(k)
             \/ TabClose(k) \/ TabDropped(k)
      PROVE HandsFree'
  BY <1>1, <1>5
  DEF Accept, TabReceive, TabRefuse, TabClose, TabDropped, goroutines
<1>6. ASSUME NEW t \in Tabs, Tab(t) PROVE HandsFree'
  BY <1>1, <1>6 DEF Tab, TabAnswer, TabAnswerLost, goroutines
<1>7. ASSUME NEW c \in Calls, CallStep(c) PROVE HandsFree'
  BY <1>1, <1>7 DEF CallStep, goroutines
<1>8. CASE UNCHANGED vars
  BY <1>1, <1>8 DEF vars, goroutines
<1> QED
  BY <1>3, <1>4, <1>5, <1>6, <1>7, <1>8 DEF Next

\* Adding an element to a sequence leaves the others where they are.
LEMMA HeldAfterAppend ==
    ASSUME NEW S, NEW q \in Seq(S), NEW e \in S
    PROVE  /\ \A i \in DOMAIN q :
                 i \in DOMAIN Append(q, e) /\ Append(q, e)[i] = q[i]
           /\ \E i \in DOMAIN Append(q, e) : Append(q, e)[i] = e
<1>1. /\ Append(q, e) \in Seq(S) /\ Len(Append(q, e)) = Len(q) + 1
      /\ \A i \in 1 .. Len(q) : Append(q, e)[i] = q[i]
      /\ Append(q, e)[Len(q) + 1] = e
      /\ Len(q) \in Nat
  BY AppendTo
<1>2. DOMAIN q = 1 .. Len(q) /\ DOMAIN Append(q, e) = 1 .. (Len(q) + 1)
  BY <1>1
<1> QED
  BY <1>1, <1>2

\* Taking the first element off a sequence leaves every other one.
LEMMA HeldAfterTail ==
    ASSUME NEW S, NEW q \in Seq(S), q # <<>>, NEW i \in DOMAIN q
    PROVE  \/ q[i] = Head(q)
           \/ \E j \in DOMAIN Tail(q) : Tail(q)[j] = q[i]
<1>1. /\ Head(q) = q[1] /\ Tail(q) \in Seq(S)
      /\ Len(Tail(q)) = Len(q) - 1
      /\ \A j \in 1 .. Len(Tail(q)) : Tail(q)[j] = q[j + 1]
      /\ Len(q) \in Nat
  BY TailOf
<1>2. DOMAIN q = 1 .. Len(q) /\ DOMAIN Tail(q) = 1 .. Len(Tail(q))
  BY <1>1
<1>3. CASE i # 1
  <2>1. i - 1 \in 1 .. Len(Tail(q)) /\ (i - 1) + 1 = i
    BY <1>1, <1>2, <1>3
  <2> QED
    BY <1>1, <1>2, <2>1
<1> QED
  BY <1>1, <1>3

\* A request enters the channel as its caller begins to wait and leaves it as
\* a writer receives it.
LEMMA QueuedStep == Settled /\ ServedInv /\ [Next]_vars => SentIsQueued'
<1> SUFFICES ASSUME Settled, SentIsQueued, [Next]_vars PROVE SentIsQueued'
  BY DEF ServedInv
<1>0. /\ requests \in [Sessions -> Seq(Calls)]
      /\ pc \in [Calls -> {"idle", "send", "wait", "return", "done"}]
      /\ CallSession \in [Calls -> Sessions]
  BY TransportAssumption
  DEF Settled, Bridge!BridgeInv, Bridge!TypeOK, Bridge!BridgeAssumption
<1>1. ASSUME requests' = requests, taken' = taken,
             \A c \in Calls : pc'[c] = "wait" => pc[c] = "wait"
      PROVE  SentIsQueued'
  BY <1>1 DEF SentIsQueued, InQueue
<1>2. ASSUME NEW k \in Conns, Handler(k) PROVE SentIsQueued'
  BY <1>1, <1>2 DEF Handler, HandlerConnect, HandleCapabilities, HandleResult,
     HandleResultSend, HandleUnknownResult, ReadFails, HandlerDisconnect,
     HandlerCloseResponse, HandlerClose, bridge, Bridge!Connect,
     Bridge!PublishCapabilities, Bridge!SubmitLookup, Bridge!SubmitSend,
     Bridge!Disconnect, Bridge!CloseResponse, Bridge!history, Bridge!caller,
     Bridge!session
<1>3. ASSUME NEW k \in Conns, WriterReceive(k) PROVE SentIsQueued'
  <2> DEFINE s == ConnSession[k]
             new == Head(requests[s])
  <2>1. /\ requests[s] \in Seq(Calls) /\ requests[s] # <<>>
        /\ requests' = [requests EXCEPT ![s] = Tail(requests[s])]
        /\ pc' = pc
        /\ s \in Sessions
    BY <1>0, <1>3, TransportAssumption
    DEF WriterReceive, Bridge!ReceiveRequest, Bridge!caller,
        Bridge!BridgeAssumption
  <2>2. \A c \in Calls : taken'[c] = IF c = new THEN k ELSE taken[c]
    BY <1>3, Received
  <2>3. \A i \in DOMAIN requests[s] :
           \/ requests[s][i] = new
           \/ \E j \in DOMAIN Tail(requests[s]) :
                 Tail(requests[s])[j] = requests[s][i]
    BY <2>1, HeldAfterTail
  <2>4. k # None
    BY TransportAssumption DEF Bridge!BridgeAssumption
  <2> HIDE DEF new, s
  <2>5. ASSUME NEW c \in Calls, pc'[c] = "wait", taken'[c] = None
        PROVE  InQueue(c)'
    <3>1. c # new /\ InQueue(c)
      BY <2>1, <2>2, <2>4, <2>5 DEF SentIsQueued
    <3>2. PICK i \in DOMAIN requests[CallSession[c]] :
             requests[CallSession[c]][i] = c
      BY <3>1 DEF InQueue
    <3>3. CASE CallSession[c] = s
      <4>1. \E j \in DOMAIN Tail(requests[s]) : Tail(requests[s])[j] = c
        BY <2>3, <3>1, <3>2, <3>3
      <4>2. requests'[CallSession[c]] = Tail(requests[s])
        BY <1>0, <2>1, <3>3
      <4> QED
        BY <4>1, <4>2 DEF InQueue
    <3>4. CASE CallSession[c] # s
      <4>1. requests'[CallSession[c]] = requests[CallSession[c]]
        BY <1>0, <2>1, <3>4
      <4> QED
        BY <3>2, <4>1 DEF InQueue
    <3> QED
      BY <3>3, <3>4
  <2> QED
    BY <2>5 DEF SentIsQueued
<1>4. ASSUME NEW k \in Conns, Writer(k) PROVE SentIsQueued'
  BY <1>1, <1>3, <1>4 DEF Writer, WriteCapabilities, WriteRequest, WriteFails,
     WriterCancelled, bridge
<1>5. ASSUME NEW k \in Conns,
             \/ Accept(k) \/ TabReceive(k) \/ TabRefuse(k)
             \/ TabClose(k) \/ TabDropped(k)
      PROVE SentIsQueued'
  BY <1>1, <1>5 DEF Accept, TabReceive, TabRefuse, TabClose, TabDropped, bridge
<1>6. ASSUME NEW t \in Tabs, Tab(t) PROVE SentIsQueued'
  BY <1>1, <1>6 DEF Tab, TabAnswer, TabAnswerLost, bridge
<1>7. ASSUME NEW d \in Calls, CallStep(d) PROVE SentIsQueued'
  <2>1. CASE Bridge!CallSend(d)
    <3>1. /\ requests' = [requests EXCEPT
                ![CallSession[d]] = Append(requests[CallSession[d]], d)]
          /\ pc' = [pc EXCEPT ![d] = "wait"]
          /\ taken' = taken
      BY <2>1 DEF Bridge!CallSend, Bridge!history
    <3>2. requests[CallSession[d]] \in Seq(Calls)
      BY <1>0
    <3>3. /\ \A i \in DOMAIN requests[CallSession[d]] :
                /\ i \in DOMAIN Append(requests[CallSession[d]], d)
                /\ Append(requests[CallSession[d]], d)[i]
                      = requests[CallSession[d]][i]
          /\ \E i \in DOMAIN Append(requests[CallSession[d]], d) :
                Append(requests[CallSession[d]], d)[i] = d
      BY <3>2, HeldAfterAppend
    <3>4. ASSUME NEW c \in Calls, pc'[c] = "wait", taken'[c] = None
          PROVE  InQueue(c)'
      <4>1. c = d \/ InQueue(c)
        BY <1>0, <3>1, <3>4 DEF SentIsQueued
      <4>2. requests'[CallSession[c]] =
               IF CallSession[c] = CallSession[d]
               THEN Append(requests[CallSession[d]], d)
               ELSE requests[CallSession[c]]
        BY <1>0, <3>1
      <4>3. CASE c = d
        BY <3>3, <4>2, <4>3 DEF InQueue
      <4>4. CASE c # d
        BY <3>3, <4>1, <4>2, <4>4 DEF InQueue
      <4> QED
        BY <4>3, <4>4
    <3> QED
      BY <3>4 DEF SentIsQueued
  <2>2. CASE ~Bridge!CallSend(d)
    BY <1>0, <1>1, <1>7, <2>2
    DEF CallStep, Bridge!Caller, Bridge!CallRefused, Bridge!CallRegister,
        Bridge!CallReceive, Bridge!CallClosed, Bridge!CallCancelled,
        Bridge!CallReturn, Bridge!Finish, Bridge!CancelContext,
        Bridge!history, Bridge!session, Bridge!caller
  <2> QED
    BY <2>1, <2>2
<1>8. CASE UNCHANGED vars
  BY <1>1, <1>8 DEF vars, bridge
<1> QED
  BY <1>2, <1>4, <1>5, <1>6, <1>7, <1>8 DEF Next

\* A call stays pending only if it was, unless nobody has received it.
LEMMA PendingKept ==
    ASSUME Settled, [Next]_vars, NEW c \in Calls, taken[c] # None, Pending(c)'
    PROVE  Pending(c)
<1>0. /\ responses \in [Sessions -> SUBSET Calls]
      /\ CallSession[c] \in Sessions
      /\ pc[c] # "idle"
  BY TransportAssumption
  DEF Settled, Bridge!BridgeInv, Bridge!TypeOK, Bridge!QueueInv,
      Bridge!BridgeAssumption
<1>1. ASSUME \A s \in Sessions : responses'[s] \subseteq responses[s]
      PROVE  Pending(c)
  BY <1>0, <1>1 DEF Pending
<1>2. ASSUME NEW k \in Conns, Handler(k) PROVE Pending(c)
  BY <1>0, <1>1, <1>2
  DEF Handler, HandlerConnect, HandleCapabilities, HandleResult,
     HandleResultSend, HandleUnknownResult, ReadFails, HandlerDisconnect,
     HandlerCloseResponse, HandlerClose, bridge, Bridge!Connect,
     Bridge!PublishCapabilities, Bridge!SubmitLookup, Bridge!SubmitSend,
     Bridge!Disconnect, Bridge!CloseResponse, Bridge!session
<1>3. ASSUME NEW k \in Conns, Writer(k) PROVE Pending(c)
  BY <1>1, <1>3 DEF Writer, WriteCapabilities, WriterReceive, WriteRequest,
     WriteFails, WriterCancelled, bridge, Bridge!ReceiveRequest
<1>4. ASSUME NEW k \in Conns,
             \/ Accept(k) \/ TabReceive(k) \/ TabRefuse(k)
             \/ TabClose(k) \/ TabDropped(k)
      PROVE Pending(c)
  BY <1>1, <1>4 DEF Accept, TabReceive, TabRefuse, TabClose, TabDropped, bridge
<1>5. ASSUME NEW t \in Tabs, Tab(t) PROVE Pending(c)
  BY <1>1, <1>5 DEF Tab, TabAnswer, TabAnswerLost, bridge
<1>6. ASSUME NEW d \in Calls, CallStep(d) PROVE Pending(c)
  <2>1. CASE Bridge!CallRegister(d)
    BY <1>0, <2>1 DEF Bridge!CallRegister, Pending
  <2>2. CASE ~Bridge!CallRegister(d)
    BY <1>0, <1>1, <1>6, <2>2
    DEF CallStep, Bridge!Caller, Bridge!CallRefused, Bridge!CallSend,
        Bridge!CallReceive, Bridge!CallClosed, Bridge!CallCancelled,
        Bridge!CallReturn, Bridge!CancelContext, Bridge!session
  <2> QED
    BY <2>1, <2>2
<1>7. CASE UNCHANGED vars
  BY <1>1, <1>7 DEF vars, bridge
<1> QED
  BY <1>2, <1>3, <1>4, <1>5, <1>6, <1>7 DEF Next

\* The places a request underway may be in.
InDown(c, k) == \E i \in DOMAIN down[k] : down[k][i] = c

InUp(c, k) ==
    \E i \in DOMAIN up[k] : up[k][i] \in Bridge!Results /\ up[k][i].id = c

\* Underway is to be in one of them.
LEMMA UnderwayIn ==
    ASSUME NEW c \in Calls, NEW k \in Conns
    PROVE  /\ Underway(c, k) <=> \/ writing[k] = c
                                 \/ InDown(c, k)
                                 \/ c \in running[ConnTab[k]]
                                 \/ InUp(c, k)
           /\ Underway(c, k)' <=> \/ writing'[k] = c
                                  \/ InDown(c, k)'
                                  \/ c \in running'[ConnTab[k]]
                                  \/ InUp(c, k)'
  BY DEF Underway, InDown, InUp

\* The calls of which TakenIsUnderway speaks, at one connection.
Owed(c, k) == Pending(c) /\ taken[c] = k /\ Healthy(k)

\* It is enough that a step keeps underway what it leaves owed.
LEMMA UnderwayKept ==
    ASSUME TakenIsUnderway,
           \A c \in Calls, k \in Conns : Owed(c, k)' =>
              \/ Owed(c, k) /\ (Underway(c, k) => Underway(c, k)')
              \/ Underway(c, k)'
    PROVE  TakenIsUnderway'
  BY DEF TakenIsUnderway, Owed

\* The steps of the handler goroutine.
LEMMA UnderwayHandler ==
    ASSUME Settled, ServedInv, [Next]_vars, NEW k \in Conns, Handler(k)
    PROVE  TakenIsUnderway'
<1>0. TypeOK /\ TakerStarted /\ TakenIsUnderway
  BY DEF Settled, ServedInv
<1>1. \A c \in Calls, j \in Conns : Owed(c, j)' /\ taken[c] = j => Pending(c)
  <2>1. \A j \in Conns : j # None
    BY TransportAssumption DEF Bridge!BridgeAssumption
  <2> QED
    BY <2>1, PendingKept DEF Owed
<1>2. UNCHANGED <<taken, writing, down, running, open>>
  BY DEF Handler, HandlerConnect, HandleCapabilities, HandleResult,
     HandleResultSend, HandleUnknownResult, ReadFails, HandlerDisconnect,
     HandlerCloseResponse, HandlerClose, bridge, Bridge!Connect,
     Bridge!PublishCapabilities, Bridge!SubmitLookup, Bridge!SubmitSend,
     Bridge!Disconnect, Bridge!CloseResponse, Bridge!history, goroutines,
     sockets, tabs
<1>3. ASSUME \A j \in Conns : Healthy(j)' => Healthy(j),
             \A c \in Calls, j \in Conns :
                 Owed(c, j)' /\ InUp(c, j) => InUp(c, j)'
      PROVE  TakenIsUnderway'
  <2>1. ASSUME NEW c \in Calls, NEW j \in Conns, Owed(c, j)'
        PROVE  Owed(c, j) /\ (Underway(c, j) => Underway(c, j)')
    <3>1. Owed(c, j)
      BY <1>1, <1>2, <1>3, <2>1 DEF Owed
    <3>2. InDown(c, j) => InDown(c, j)'
      BY <1>2 DEF InDown
    <3> QED
      BY <1>2, <1>3, <2>1, <3>1, <3>2, UnderwayIn
  <2> QED
    BY <1>0, <2>1, UnderwayKept
<1>4. CASE HandlerConnect(k)
  <2>1. \A c \in Calls : taken[c] # k
    BY <1>0, <1>4 DEF TakerStarted, HandlerConnect
  <2>2. \A j \in Conns : j # k => (Healthy(j)' => Healthy(j))
    BY <1>0, <1>4 DEF HandlerConnect, Healthy, sockets, TypeOK
  <2>3. up' = up
    BY <1>4 DEF HandlerConnect, sockets
  <2>4. ASSUME NEW c \in Calls, NEW j \in Conns, Owed(c, j)'
        PROVE  Owed(c, j) /\ (Underway(c, j) => Underway(c, j)')
    <3>1. Owed(c, j)
      BY <1>1, <1>2, <2>1, <2>2, <2>4 DEF Owed
    <3>2. /\ InDown(c, j) => InDown(c, j)'
          /\ InUp(c, j) => InUp(c, j)'
      BY <1>2, <2>3 DEF InDown, InUp
    <3> QED
      BY <1>2, <3>1, <3>2, UnderwayIn
  <2> QED
    BY <1>0, <2>4, UnderwayKept
<1>5. CASE HandleCapabilities(k)
  <2>1. /\ up[k] \in Seq(Caps \cup Bridge!Results) /\ up[k] # <<>>
        /\ \A j \in Conns : up'[j] = IF j = k THEN Tail(up[k]) ELSE up[j]
        /\ Head(up[k]) \notin Bridge!Results
    BY <1>0, <1>5, TransportAssumption DEF HandleCapabilities, Incoming, TypeOK
  <2>2. \A i \in DOMAIN up[k] :
           \/ up[k][i] = Head(up[k])
           \/ \E j \in DOMAIN Tail(up[k]) : Tail(up[k])[j] = up[k][i]
    BY <2>1, HeldAfterTail
  <2>3. \A c \in Calls, j \in Conns : InUp(c, j) => InUp(c, j)'
    BY <2>1, <2>2 DEF InUp
  <2>4. \A j \in Conns : Healthy(j)' => Healthy(j)
    BY <1>5 DEF HandleCapabilities, Healthy, goroutines
  <2> QED
    BY <1>3, <2>3, <2>4
<1>6. CASE HandleResult(k)
  <2> DEFINE result == Head(up[k])
             s == ConnSession[k]
  <2>1. /\ up[k] \in Seq(Caps \cup Bridge!Results) /\ up[k] # <<>>
        /\ \A j \in Conns : up'[j] = IF j = k THEN Tail(up[k]) ELSE up[j]
        /\ result.id \in responses[s]
        /\ responses' = [responses EXCEPT ![s] = @ \ {result.id}]
        /\ responses \in [Sessions -> SUBSET Calls]
        /\ s \in Sessions
    BY <1>0, <1>6, TransportAssumption
    DEF HandleResult, Incoming, TypeOK, Bridge!SubmitLookup, Settled,
        Bridge!BridgeInv, Bridge!TypeOK, Bridge!BridgeAssumption
  <2>2. CallSession[result.id] = s
    BY <2>1 DEF Settled, Bridge!BridgeInv, Bridge!PendingInv
  <2>3. \A i \in DOMAIN up[k] :
           \/ up[k][i] = result
           \/ \E j \in DOMAIN Tail(up[k]) : Tail(up[k])[j] = up[k][i]
    BY <2>1, HeldAfterTail
  <2> HIDE DEF result, s
  <2>4. \A c \in Calls : Pending(c)' => c # result.id
    BY <2>1, <2>2 DEF Pending
  <2>5. ASSUME NEW c \in Calls, NEW j \in Conns, Owed(c, j)', InUp(c, j)
        PROVE  InUp(c, j)'
    <3>1. c # result.id
      BY <2>4, <2>5 DEF Owed
    <3> QED
      BY <2>1, <2>3, <2>5, <3>1 DEF InUp
  <2>6. \A j \in Conns : Healthy(j)' => Healthy(j)
    BY <1>6 DEF HandleResult, Healthy, goroutines
  <2> QED
    BY <1>3, <2>5, <2>6
<1>7. CASE HandleResultSend(k) \/ \E c \in Calls : HandlerCloseResponse(k, c)
  <2>1. UNCHANGED <<up, open, rpc, cancelled>>
    BY <1>7 DEF HandleResultSend, HandlerCloseResponse, goroutines, sockets
  <2>2. \A c \in Calls, j \in Conns : InUp(c, j) => InUp(c, j)'
    BY <2>1 DEF InUp
  <2>3. \A j \in Conns : Healthy(j)' => Healthy(j)
    BY <2>1 DEF Healthy
  <2> QED
    BY <1>3, <2>2, <2>3
<1>8. CASE \/ HandleUnknownResult(k)
           \/ ReadFails(k)
           \/ HandlerDisconnect(k)
           \/ HandlerClose(k)
  <2>1. /\ rpc'[k] # "reading"
        /\ \A j \in Conns \ {k} :
              /\ rpc'[j] = rpc[j] /\ up'[j] = up[j]
              /\ cancelled'[j] = cancelled[j]
    BY <1>0, <1>8
    DEF HandleUnknownResult, ReadFails, HandlerDisconnect, HandlerClose,
        Incoming, Leave, sockets, TypeOK
  <2>2. \A j \in Conns : Healthy(j)' => j # k /\ Healthy(j)
    BY <1>2, <2>1 DEF Healthy
  <2>3. ASSUME NEW c \in Calls, NEW j \in Conns, Owed(c, j)', InUp(c, j)
        PROVE  InUp(c, j)'
    <3>1. up'[j] = up[j]
      BY <2>1, <2>2, <2>3 DEF Owed
    <3> QED
      BY <2>3, <3>1 DEF InUp
  <2> QED
    BY <1>3, <2>2, <2>3
<1> QED
  BY <1>4, <1>5, <1>6, <1>7, <1>8 DEF Handler

\* The steps of the writer goroutine.
LEMMA UnderwayWriter ==
    ASSUME Settled, ServedInv, [Next]_vars, NEW k \in Conns, Writer(k)
    PROVE  TakenIsUnderway'
<1>0. TypeOK /\ HandsFree /\ TakenIsUnderway
  BY DEF Settled, ServedInv
<1>1. UNCHANGED <<rpc, open, up, running>>
  BY DEF Writer, WriteCapabilities, WriterReceive, WriteRequest, WriteFails,
     WriterCancelled, sockets, tabs
<1>2. \A j \in Conns : j # None
  BY TransportAssumption DEF Bridge!BridgeAssumption
<1>3. /\ \A j \in Conns : Healthy(j)' => Healthy(j)
      /\ \A c \in Calls, j \in Conns : InUp(c, j) => InUp(c, j)'
  <2>1. \A j \in Conns : ~cancelled'[j] => ~cancelled[j]
    BY <1>0 DEF Writer, WriteCapabilities, WriterReceive, WriteRequest,
       WriteFails, WriterCancelled, WriterStops, TypeOK
  <2> QED
    BY <1>1, <2>1 DEF Healthy, InUp
<1>4. CASE WriterReceive(k)
  <2> DEFINE new == Head(requests[ConnSession[k]])
  <2>1. /\ \A c \in Calls : taken'[c] = IF c = new THEN k ELSE taken[c]
        /\ writing' = [writing EXCEPT ![k] = new]
    BY <1>4, Received
  <2>2. writing[k] = None /\ down' = down
    BY <1>0, <1>4 DEF WriterReceive, HandsFree, sockets
  <2> HIDE DEF new
  <2>3. ASSUME NEW c \in Calls, NEW j \in Conns, Owed(c, j)'
        PROVE  \/ Owed(c, j) /\ (Underway(c, j) => Underway(c, j)')
               \/ Underway(c, j)'
    <3>1. CASE c = new
      <4>1. j = k
        BY <2>1, <2>3, <3>1 DEF Owed
      <4>2. writing'[j] = c
        BY <1>0, <2>1, <3>1, <4>1 DEF TypeOK
      <4> QED
        BY <4>2, UnderwayIn
    <3>2. CASE c # new
      <4>1. Owed(c, j)
        BY <1>2, <1>3, <2>1, <2>3, <3>2, PendingKept DEF Owed
      <4>2. writing[j] = c => writing'[j] = c
        <5>1. c # None
          BY TransportAssumption
        <5> QED
          BY <1>0, <2>1, <2>2, <5>1 DEF TypeOK
      <4>3. InDown(c, j) => InDown(c, j)'
        BY <2>2 DEF InDown
      <4> QED
        BY <1>1, <1>3, <4>1, <4>2, <4>3, UnderwayIn
    <3> QED
      BY <3>1, <3>2
  <2> QED
    BY <1>0, <2>3, UnderwayKept
<1>5. ASSUME taken' = taken,
             \A c \in Calls, j \in Conns :
                 Owed(c, j)' /\ (writing[j] = c \/ InDown(c, j))
                     => writing'[j] = c \/ InDown(c, j)'
      PROVE  TakenIsUnderway'
  <2>1. ASSUME NEW c \in Calls, NEW j \in Conns, Owed(c, j)'
        PROVE  Owed(c, j) /\ (Underway(c, j) => Underway(c, j)')
    <3>1. Owed(c, j)
      BY <1>2, <1>3, <1>5, <2>1, PendingKept DEF Owed
    <3> QED
      BY <1>1, <1>3, <1>5, <2>1, <3>1, UnderwayIn
  <2> QED
    BY <1>0, <2>1, UnderwayKept
<1>6. ASSUME NEW frame \in Calls \cup Caps \cup {None}, Written(k, frame),
             NEW c \in Calls, NEW j \in Conns, open[k]
      PROVE  /\ InDown(c, j) => InDown(c, j)'
             /\ c = frame => InDown(c, k)'
  <2>1. /\ down[k] \in Seq(Calls \cup Caps \cup {None})
        /\ \A l \in Conns :
              down'[l] = IF l = k THEN Append(down[k], frame) ELSE down[l]
    BY <1>0, <1>6 DEF Written, TypeOK
  <2>2. /\ \A i \in DOMAIN down[k] :
              /\ i \in DOMAIN Append(down[k], frame)
              /\ Append(down[k], frame)[i] = down[k][i]
        /\ \E i \in DOMAIN Append(down[k], frame) :
              Append(down[k], frame)[i] = frame
    BY <2>1, HeldAfterAppend
  <2> QED
    BY <2>1, <2>2 DEF InDown
<1>7. CASE WriteCapabilities(k)
  <2>1. capabilities[ConnSession[k]] \in Calls \cup Caps \cup {None}
    BY TransportAssumption
    DEF Settled, Bridge!BridgeInv, Bridge!TypeOK, Bridge!BridgeAssumption
  <2>2. /\ Written(k, capabilities[ConnSession[k]])
        /\ taken' = taken /\ writing' = writing
    BY <1>7 DEF WriteCapabilities, bridge
  <2>3. ASSUME NEW c \in Calls, NEW j \in Conns, InDown(c, j)
        PROVE  InDown(c, j)'
    <3>1. CASE open[k]
      BY <1>6, <2>1, <2>2, <2>3, <3>1
    <3>2. CASE ~open[k]
      BY <2>2, <2>3, <3>2 DEF Written, InDown
    <3> QED
      BY <3>1, <3>2
  <2> QED
    BY <1>5, <2>2, <2>3
<1>8. CASE WriteRequest(k)
  <2>1. /\ writing[k] \in Calls \cup Caps \cup {None}
        /\ Written(k, writing[k]) /\ taken' = taken
        /\ \A j \in Conns : j # k => writing'[j] = writing[j]
    BY <1>0, <1>8 DEF WriteRequest, bridge, TypeOK
  <2>2. ASSUME NEW c \in Calls, NEW j \in Conns, Owed(c, j)',
               writing[j] = c \/ InDown(c, j)
        PROVE  writing'[j] = c \/ InDown(c, j)'
    <3>1. open[j]
      BY <1>1, <2>2 DEF Owed, Healthy
    <3>2. CASE open[k]
      <4>1. /\ InDown(c, j) => InDown(c, j)'
            /\ c = writing[k] => InDown(c, k)'
        BY <1>6, <2>1, <3>2
      <4> QED
        BY <2>1, <2>2, <4>1
    <3>3. CASE ~open[k]
      <4>1. j # k /\ down' = down
        BY <2>1, <3>1, <3>3 DEF Written
      <4> QED
        BY <2>1, <2>2, <4>1 DEF InDown
    <3> QED
      BY <3>2, <3>3
  <2> QED
    BY <1>5, <2>1, <2>2
<1>9. CASE WriteFails(k) \/ WriterCancelled(k)
  <2>1. /\ cancelled'[k] /\ down' = down /\ taken' = taken
        /\ \A j \in Conns : j # k => writing'[j] = writing[j]
    BY <1>0, <1>9 DEF WriteFails, WriterCancelled, WriterStops, bridge, sockets,
       TypeOK
  <2>2. \A c \in Calls, j \in Conns : Owed(c, j)' => j # k
    BY <2>1 DEF Owed, Healthy
  <2>3. \A c \in Calls, j \in Conns : InDown(c, j) => InDown(c, j)'
    BY <2>1 DEF InDown
  <2> QED
    BY <1>5, <2>1, <2>2, <2>3
<1> QED
  BY <1>4, <1>7, <1>8, <1>9 DEF Writer

\* A tab reads a request off a socket and executes it.
LEMMA UnderwayReceive ==
    ASSUME Settled, ServedInv, NEW k \in Conns, TabReceive(k)
    PROVE  TakenIsUnderway'
<1> DEFINE frame == Head(down[k])
<1>0. TypeOK /\ TakenIsUnderway
  BY DEF Settled, ServedInv
<1>1. /\ down[k] \in Seq(Calls \cup Caps \cup {None}) /\ down[k] # <<>>
      /\ \A j \in Conns : down'[j] = IF j = k THEN Tail(down[k]) ELSE down[j]
      /\ UNCHANGED <<taken, responses, rpc, cancelled, open, up, writing>>
      /\ ConnTab[k] \in Tabs
  BY <1>0
  DEF TypeOK, TabReceive, Read, Page!Takes, Page!Delivered, bridge, goroutines,
     Tabs
<1>2. /\ \A i \in DOMAIN down[k] :
            \/ down[k][i] = frame
            \/ \E j \in DOMAIN Tail(down[k]) : Tail(down[k])[j] = down[k][i]
  BY <1>1, HeldAfterTail
<1>3. running' = IF frame \in Calls
                 THEN [running EXCEPT ![ConnTab[k]] = @ \cup {frame}]
                 ELSE running
  BY DEF TabReceive, Read, Page!Takes, Page!Delivered
<1> HIDE DEF frame
<1>4. ASSUME NEW c \in Calls, NEW j \in Conns, Owed(c, j)'
      PROVE  Owed(c, j) /\ (Underway(c, j) => Underway(c, j)')
  <2>1. Owed(c, j)
    BY <1>1, <1>4 DEF Owed, Pending, Healthy
  <2>2. /\ c \in running[ConnTab[j]] => c \in running'[ConnTab[j]]
        /\ c = frame => c \in running'[ConnTab[k]]
    <3>1. ConnTab[j] \in Tabs
      BY DEF Tabs
    <3> QED
      BY <1>0, <1>1, <1>3, <3>1 DEF TypeOK
  <2>3. InDown(c, j) => InDown(c, j)' \/ (c = frame /\ j = k)
    BY <1>1, <1>2 DEF InDown
  <2>4. InUp(c, j) => InUp(c, j)'
    BY <1>1 DEF InUp
  <2> QED
    BY <1>1, <2>1, <2>2, <2>3, <2>4, UnderwayIn
<1> QED
  BY <1>0, <1>4, UnderwayKept

\* A tab refuses a request: the result leaves over the socket it came by.
LEMMA UnderwayRefuse ==
    ASSUME Settled, ServedInv, NEW k \in Conns, TabRefuse(k)
    PROVE  TakenIsUnderway'
<1>0. TypeOK /\ TakenIsUnderway
  BY DEF Settled, ServedInv
<1>8. PICK frame \in Calls : frame = Head(down[k])
  BY DEF TabRefuse
<1>1. /\ down[k] \in Seq(Calls \cup Caps \cup {None}) /\ down[k] # <<>>
      /\ \A j \in Conns : down'[j] = IF j = k THEN Tail(down[k]) ELSE down[j]
      /\ UNCHANGED <<taken, responses, rpc, cancelled, open, running, writing>>
  BY <1>0
  DEF TypeOK, TabRefuse, Read, Page!Refuses, Page!Delivered, bridge, goroutines
<1>2. \A i \in DOMAIN down[k] :
         \/ down[k][i] = frame
         \/ \E j \in DOMAIN Tail(down[k]) : Tail(down[k])[j] = down[k][i]
  BY <1>1, <1>8, HeldAfterTail
<1>3. PICK output \in Outputs :
         up' = IF rpc[k] = "gone" THEN up
               ELSE [up EXCEPT ![k] = Append(@, [id |-> frame, output |-> output])]
  BY <1>8 DEF TabRefuse, Reply
<1> DEFINE result == [id |-> frame, output |-> output]
<1>4. /\ up[k] \in Seq(Caps \cup Bridge!Results)
      /\ result \in Caps \cup Bridge!Results
  BY <1>0 DEF TypeOK, Bridge!Results
<1>5. /\ result \in Bridge!Results /\ result.id = frame
      /\ up' = up \/ \A j \in Conns :
            up'[j] = IF j = k THEN Append(up[k], result) ELSE up[j]
      /\ rpc[k] # "gone" => up'[k] = Append(up[k], result)
  BY <1>0, <1>3 DEF TypeOK, Bridge!Results
<1> HIDE DEF result
<1>6. /\ \A i \in DOMAIN up[k] :
            /\ i \in DOMAIN Append(up[k], result)
            /\ Append(up[k], result)[i] = up[k][i]
      /\ \E i \in DOMAIN Append(up[k], result) :
            Append(up[k], result)[i] = result
  BY <1>4, HeldAfterAppend
<1>7. ASSUME NEW c \in Calls, NEW j \in Conns, Owed(c, j)'
      PROVE  Owed(c, j) /\ (Underway(c, j) => Underway(c, j)')
  <2>1. Owed(c, j) /\ rpc[j] = "reading"
    BY <1>1, <1>7 DEF Owed, Pending, Healthy
  <2>2. InUp(c, j) => InUp(c, j)'
    <3>1. CASE up'[j] = up[j]
      BY <3>1 DEF InUp
    <3>2. CASE j = k /\ up'[k] = Append(up[k], result)
      BY <1>6, <3>2 DEF InUp
    <3> QED
      BY <1>5, <3>1, <3>2
  <2>3. InDown(c, j) => InDown(c, j)' \/ InUp(c, j)'
    <3>1. CASE c = frame /\ j = k
      <4>1. up'[j] = Append(up[k], result)
        BY <1>5, <2>1, <3>1
      <4> QED
        BY <1>5, <1>6, <3>1, <4>1 DEF InUp
    <3>2. CASE c # frame \/ j # k
      BY <1>1, <1>2, <3>2 DEF InDown
    <3> QED
      BY <3>1, <3>2
  <2> QED
    BY <1>1, <2>1, <2>2, <2>3, UnderwayIn
<1> QED
  BY <1>0, <1>7, UnderwayKept

\* A result leaves over the only socket its tab has open, the one its request
\* came from if that is still healthy.
LEMMA UnderwayAnswer ==
    ASSUME Settled, ServedInv, NEW d \in Calls, NEW k \in Conns, NEW t \in Tabs,
           TabAnswer(t, d, k)
    PROVE  TakenIsUnderway'
<1>0. TypeOK /\ OneSocket /\ TakenIsUnderway
  BY DEF Settled, ServedInv
<1>1. /\ UNCHANGED <<taken, responses, rpc, cancelled, open, down, writing>>
      /\ running' = [running EXCEPT ![t] = @ \ {d}]
      /\ ConnTab[k] = t /\ open[k]
  BY DEF TabAnswer, Reply, Page!Answers, Page!Ends, bridge, goroutines
<1>2. PICK output \in Outputs :
         up' = IF rpc[k] = "gone" THEN up
               ELSE [up EXCEPT ![k] = Append(@, [id |-> d, output |-> output])]
  BY DEF TabAnswer, Reply, Page!Answers, Page!Ends
<1> DEFINE result == [id |-> d, output |-> output]
<1>3. /\ up[k] \in Seq(Caps \cup Bridge!Results)
      /\ result \in Caps \cup Bridge!Results
  BY <1>0 DEF TypeOK, Bridge!Results
<1>4. /\ result \in Bridge!Results /\ result.id = d
      /\ up' = up \/ \A j \in Conns :
            up'[j] = IF j = k THEN Append(up[k], result) ELSE up[j]
      /\ rpc[k] # "gone" => up'[k] = Append(up[k], result)
  BY <1>0, <1>2 DEF TypeOK, Bridge!Results
<1> HIDE DEF result
<1>5. /\ \A i \in DOMAIN up[k] :
            /\ i \in DOMAIN Append(up[k], result)
            /\ Append(up[k], result)[i] = up[k][i]
      /\ \E i \in DOMAIN Append(up[k], result) :
            Append(up[k], result)[i] = result
  BY <1>3, HeldAfterAppend
<1>6. ASSUME NEW c \in Calls, NEW j \in Conns, Owed(c, j)'
      PROVE  Owed(c, j) /\ (Underway(c, j) => Underway(c, j)')
  <2>1. Owed(c, j) /\ open[j] /\ rpc[j] = "reading"
    BY <1>1, <1>6 DEF Owed, Pending, Healthy
  <2>2. InUp(c, j) => InUp(c, j)'
    <3>1. CASE up'[j] = up[j]
      BY <3>1 DEF InUp
    <3>2. CASE j = k /\ up'[k] = Append(up[k], result)
      BY <1>5, <3>2 DEF InUp
    <3> QED
      BY <1>4, <3>1, <3>2
  <2>3. c \in running[ConnTab[j]] => c \in running'[ConnTab[j]] \/ InUp(c, j)'
    <3>1. CASE c = d /\ ConnTab[j] = t
      <4>1. j = k
        BY <1>0, <1>1, <2>1, <3>1 DEF OneSocket
      <4>2. up'[j] = Append(up[k], result)
        BY <1>4, <2>1, <4>1
      <4> QED
        BY <1>4, <1>5, <3>1, <4>2 DEF InUp
    <3>2. CASE c # d \/ ConnTab[j] # t
      <4>1. ConnTab[j] \in Tabs
        BY DEF Tabs
      <4> QED
        BY <1>0, <1>1, <3>2, <4>1 DEF TypeOK
    <3> QED
      BY <3>1, <3>2
  <2>4. InDown(c, j) => InDown(c, j)'
    BY <1>1 DEF InDown
  <2> QED
    BY <1>1, <2>1, <2>2, <2>3, <2>4, UnderwayIn
<1> QED
  BY <1>0, <1>6, UnderwayKept

\* A result is lost only where no socket is open, so none is healthy.
LEMMA UnderwayAnswerLost ==
    ASSUME Settled, ServedInv, NEW d \in Calls, NEW t \in Tabs,
           TabAnswerLost(t, d)
    PROVE  TakenIsUnderway'
<1>0. TypeOK /\ TakenIsUnderway
  BY DEF Settled, ServedInv
<1>1. /\ UNCHANGED <<taken, responses, rpc, cancelled, open, down, up, writing>>
      /\ running' = [running EXCEPT ![t] = @ \ {d}]
      /\ \A j \in Conns : ConnTab[j] = t => ~open[j]
  BY DEF TabAnswerLost, Page!Loses, Page!Ends, bridge, goroutines, sockets
<1>2. ASSUME NEW c \in Calls, NEW j \in Conns, Owed(c, j)'
      PROVE  Owed(c, j) /\ (Underway(c, j) => Underway(c, j)')
  <2>1. Owed(c, j) /\ open[j]
    BY <1>1, <1>2 DEF Owed, Pending, Healthy
  <2>2. c \in running[ConnTab[j]] => c \in running'[ConnTab[j]]
    <3>1. ConnTab[j] \in Tabs /\ ConnTab[j] # t
      BY <1>1, <2>1 DEF Tabs
    <3> QED
      BY <1>0, <1>1, <3>1 DEF TypeOK
  <2>3. /\ InDown(c, j) => InDown(c, j)'
        /\ InUp(c, j) => InUp(c, j)'
    BY <1>1 DEF InDown, InUp
  <2> QED
    BY <1>1, <2>1, <2>2, <2>3, UnderwayIn
<1> QED
  BY <1>0, <1>2, UnderwayKept

\* A socket opens, when nothing was received from its connection yet, or
\* shuts, when nothing is owed at it any more.
LEMMA UnderwaySocket ==
    ASSUME Settled, ServedInv, NEW k \in Conns,
           Accept(k) \/ TabClose(k) \/ TabDropped(k)
    PROVE  TakenIsUnderway'
<1>0. TypeOK /\ TakerStarted /\ TakenIsUnderway
  BY DEF Settled, ServedInv
<1>1. /\ UNCHANGED <<taken, responses, cancelled, writing, running>>
      /\ \A j \in Conns \ {k} : /\ rpc'[j] = rpc[j] /\ open'[j] = open[j]
                                /\ up'[j] = up[j] /\ down'[j] = down[j]
  BY <1>0
  DEF Accept, Page!Opens, TabClose, TabDropped, Shut, Page!Shuts, bridge,
     goroutines, tabs, TypeOK
<1>2. rpc'[k] = "accepted" \/ ~open'[k]
  BY <1>0 DEF Accept, Page!Opens, TabClose, TabDropped, Shut, Page!Shuts, TypeOK
<1>3. ASSUME NEW c \in Calls, NEW j \in Conns, Owed(c, j)'
      PROVE  Owed(c, j) /\ (Underway(c, j) => Underway(c, j)')
  <2>1. j # k
    BY <1>2, <1>3 DEF Owed, Healthy
  <2>2. Owed(c, j)
    BY <1>1, <1>3, <2>1 DEF Owed, Pending, Healthy
  <2>3. /\ InDown(c, j) => InDown(c, j)'
        /\ InUp(c, j) => InUp(c, j)'
    BY <1>1, <2>1 DEF InDown, InUp
  <2> QED
    BY <1>1, <2>2, <2>3, UnderwayIn
<1> QED
  BY <1>0, <1>3, UnderwayKept

\* Every step keeps what a healthy connection received underway.
LEMMA UnderwayStep == Settled /\ ServedInv /\ [Next]_vars => TakenIsUnderway'
<1> SUFFICES ASSUME Settled, ServedInv, [Next]_vars PROVE TakenIsUnderway'
  OBVIOUS
<1>1. ASSUME NEW k \in Conns, Handler(k) \/ Writer(k) PROVE TakenIsUnderway'
  BY <1>1, UnderwayHandler, UnderwayWriter
<1>2. ASSUME NEW k \in Conns,
             \/ Accept(k) \/ TabReceive(k) \/ TabRefuse(k)
             \/ TabClose(k) \/ TabDropped(k)
      PROVE  TakenIsUnderway'
  BY <1>2, UnderwaySocket, UnderwayReceive, UnderwayRefuse
<1>3. ASSUME NEW t \in Tabs, Tab(t) PROVE TakenIsUnderway'
  BY <1>3, UnderwayAnswer, UnderwayAnswerLost DEF Tab
<1>4. ASSUME UNCHANGED <<taken, goroutines, sockets, tabs>>
      PROVE  TakenIsUnderway'
  <2>1. \A j \in Conns : j # None
    BY TransportAssumption DEF Bridge!BridgeAssumption
  <2>2. ASSUME NEW c \in Calls, NEW j \in Conns, Owed(c, j)'
        PROVE  Owed(c, j) /\ (Underway(c, j) => Underway(c, j)')
    <3>1. Owed(c, j)
      BY <1>4, <2>1, <2>2, PendingKept DEF Owed, Healthy, goroutines, sockets
    <3> QED
      BY <1>4, <3>1 DEF Underway, goroutines, sockets, tabs
  <2> QED
    BY <2>2, UnderwayKept DEF ServedInv
<1>5. ASSUME NEW c \in Calls, CallStep(c) PROVE TakenIsUnderway'
  <2>1. UNCHANGED <<goroutines, sockets, tabs>>
    BY <1>5 DEF CallStep
  <2>2. taken' = taken
    BY <1>5 DEF CallStep, Bridge!Caller, Bridge!CallRefused,
       Bridge!CallRegister, Bridge!CallSend, Bridge!CallReceive,
       Bridge!CallClosed, Bridge!CallCancelled, Bridge!CallReturn,
       Bridge!CancelContext, Bridge!history
  <2> QED
    BY <1>4, <2>1, <2>2
<1>6. CASE UNCHANGED vars
  BY <1>4, <1>6 DEF vars, bridge
<1> QED
  BY <1>1, <1>2, <1>3, <1>5, <1>6 DEF Next

\* Every step preserves the invariant.
LEMMA ServedStep == Settled /\ ServedInv /\ [Next]_vars => ServedInv'
  BY OneSocketStep, TakerStep, HandsStep, QueuedStep, UnderwayStep
  DEF Settled, ServedInv

\* The property is the invariant together with NoGhostConnection.
LEMMA NothingLost == Settled /\ ServedInv => NoCallForgotten
<1> SUFFICES ASSUME Settled, ServedInv, NEW s \in Sessions,
                    NEW c \in responses[s]
             PROVE  /\ \E k \in Conns :
                          ConnSession[k] = s /\ rpc[k] \in {"reading", "leaving"}
                    /\ pc[c] = "wait" /\ taken[c] = None
                          => \E i \in DOMAIN requests[s] : requests[s][i] = c
                    /\ \A k \in Conns :
                          taken[c] = k /\ Healthy(k) => Underway(c, k)
  BY DEF NoCallForgotten
<1>1. c \in Calls /\ CallSession[c] = s /\ connected[s]
  BY DEF Settled, Bridge!BridgeInv, Bridge!TypeOK, Bridge!PendingInv
<1>2. \E k \in Conns : ConnSession[k] = s /\ rpc[k] \in {"reading", "leaving"}
  BY <1>1 DEF Settled, GhostInv, NoGhostConnection
<1> QED
  BY <1>1, <1>2
  DEF ServedInv, SentIsQueued, InQueue, TakenIsUnderway, Pending

\* While the response channel of a call is in the map, somebody has the call:
\* the queue, a writer, a socket or a tab, and a handler with its Disconnect
\* to come.  It is the part of EveryCallReturns that needs no fairness.
THEOREM NothingForgotten == Spec => []NoCallForgotten
<1>1. Init => ServedInv
  BY ServedInit
<1>2. Settled /\ ServedInv /\ [Next]_vars => ServedInv'
  BY ServedStep
<1>3. Spec => []GhostInv
  BY GhostInit, GhostStep, PTL DEF Spec
<1>4. Spec => []WayInv
  BY WayInit, WayStep, EndpointTyped, BridgeInvBehind, PTL DEF Spec
<1>5. TypeOK /\ Bridge!BridgeInv /\ GhostInv /\ WayInv => Settled
  BY DEF Settled
<1>6. Settled /\ ServedInv => NoCallForgotten
  BY NothingLost
<1> QED
  BY <1>1, <1>2, <1>3, <1>4, <1>5, <1>6, EndpointTyped, BridgeInvBehind, PTL
  DEF Spec

-----------------------------------------------------------------------------
(* The promise to the callers, behind the endpoint.                        *)

\* The two names of the promise stand for the same steps.
LEMMA SamePromise ==
    [Bridge!Remote!Next]_(Bridge!Remote!vars)
        <=> [OfBridge!Remote!Next]_(OfBridge!Remote!vars)
<1>1. /\ Bridge!CallPhase = OfBridge!CallPhase
      /\ Bridge!CallValue = OfBridge!CallValue
  BY DEF Bridge!CallPhase, OfBridge!CallPhase, Bridge!Revoked,
     OfBridge!Revoked, Bridge!CallValue, OfBridge!CallValue
<1>2. /\ Bridge!CallPhase' = OfBridge!CallPhase'
      /\ Bridge!CallValue' = OfBridge!CallValue'
  BY DEF Bridge!CallPhase, OfBridge!CallPhase, Bridge!Revoked,
     OfBridge!Revoked, Bridge!CallValue, OfBridge!CallValue
<1> QED
  BY <1>1, <1>2 DEF Bridge!Remote!vars, OfBridge!Remote!vars,
       Bridge!Remote!Next, OfBridge!Remote!Next, Bridge!Remote!Answers,
       OfBridge!Remote!Answers, Bridge!Remote!Attach, OfBridge!Remote!Attach,
       Bridge!Remote!Detach, OfBridge!Remote!Detach, Bridge!Remote!Abandon,
       OfBridge!Remote!Abandon, Bridge!Remote!Request, OfBridge!Remote!Request,
       Bridge!Remote!Refuse, OfBridge!Remote!Refuse, Bridge!Remote!Answer,
       OfBridge!Remote!Answer, Bridge!Remote!Return, OfBridge!Remote!Return,
       Bridge!Remote!ReturnAnswer, OfBridge!Remote!ReturnAnswer,
       Bridge!Remote!ReturnRevoked, OfBridge!Remote!ReturnRevoked,
       Bridge!Remote!ReturnAbandoned, OfBridge!Remote!ReturnAbandoned

\* Whatever sockets, goroutines and tabs do, the callers of the bridge get
\* what RemoteCall promises them.
THEOREM EndpointKeepsPromise == Spec => Bridge!KeepsPromise
<1>1. Bridge!BridgeAssumption
  BY TransportAssumption
<1>2. Init => Bridge!Remote!Init
  BY DEF Init, Bridge!Init, Bridge!Remote!Init, Bridge!CallPhase,
     Bridge!CallValue
<1>3. Bridge!BridgeInv /\ [Next]_vars
         => [Bridge!Remote!Next]_(Bridge!Remote!vars)
  BY <1>1, SameBridge, SamePromise, BridgeStep, OfBridge!RefineStep
<1> QED
  BY <1>2, <1>3, BridgeInvBehind, PTL
  DEF Spec, Bridge!KeepsPromise, Bridge!Remote!Spec

-----------------------------------------------------------------------------
(* The ends of the goroutines.                                             *)

\* The context of a connection is cancelled before either of its goroutines
\* ends, and the two begin together.
EndInv ==
    /\ wpc \in [Conns -> {"off", "caps", "select", "write", "done"}]
    /\ cancelled \in [Conns -> BOOLEAN]
    /\ \A k \in Conns :
          /\ rpc[k] \in {"leaving", "closing", "gone"} => cancelled[k]
          /\ wpc[k] = "done" => cancelled[k]
          /\ wpc[k] = "off" <=> rpc[k] \in {"off", "accepted"}

\* Every step preserves it.
LEMMA EndStep == GhostInv /\ EndInv /\ [Next]_vars => EndInv'
<1> SUFFICES ASSUME GhostInv, EndInv, [Next]_vars PROVE EndInv'
  OBVIOUS
<1> USE DEF EndInv, GhostInv
<1>1. ASSUME NEW k \in Conns, Accept(k) PROVE EndInv'
  BY <1>1 DEF Accept, Page!Opens
<1>2. ASSUME NEW k \in Conns, Handler(k) PROVE EndInv'
  <2>1. CASE HandlerConnect(k)
    BY <2>1 DEF HandlerConnect
  <2>2. CASE HandleUnknownResult(k) \/ ReadFails(k)
    BY <2>2 DEF HandleUnknownResult, ReadFails, Incoming, Leave
  <2>3. CASE HandlerDisconnect(k)
    BY <2>3 DEF HandlerDisconnect
  <2>4. CASE HandlerClose(k)
    BY <2>4 DEF HandlerClose
  <2>5. CASE \/ HandleCapabilities(k)
             \/ HandleResult(k)
             \/ HandleResultSend(k)
             \/ \E c \in Calls : HandlerCloseResponse(k, c)
    BY <2>5 DEF HandleCapabilities, HandleResult, HandleResultSend,
       HandlerCloseResponse, goroutines
  <2> QED
    BY <1>2, <2>1, <2>2, <2>3, <2>4, <2>5 DEF Handler
<1>3. ASSUME NEW k \in Conns, Writer(k) PROVE EndInv'
  BY <1>3 DEF Writer, WriteCapabilities, WriterReceive, WriteRequest,
     WriteFails, WriterCancelled, WriterStops
<1>4. ASSUME NEW k \in Conns,
             TabReceive(k) \/ TabRefuse(k) \/ TabClose(k) \/ TabDropped(k)
      PROVE EndInv'
  BY <1>4 DEF TabReceive, TabRefuse, TabClose, TabDropped, goroutines
<1>5. ASSUME NEW t \in Tabs, Tab(t) PROVE EndInv'
  BY <1>5 DEF Tab, TabAnswer, TabAnswerLost, goroutines
<1>6. ASSUME NEW c \in Calls, CallStep(c) PROVE EndInv'
  BY <1>6 DEF CallStep, goroutines
<1>7. CASE UNCHANGED vars
  BY <1>7 DEF vars, goroutines
<1> QED
  BY <1>1, <1>2, <1>3, <1>4, <1>5, <1>6, <1>7 DEF Next

\* When one goroutine of a connection has ended, the other can go on to its
\* end: the writer sees the context cancelled, whatever blocks it, and the
\* handler has a send, a close, a failing read, its Disconnect or its Close
\* to do, none of which waits for anybody.
NeitherStuck ==
    \A k \in Conns :
        /\ rpc[k] = "gone" /\ wpc[k] # "done"
              => wpc[k] \in {"caps", "select", "write"} /\ cancelled[k]
        /\ wpc[k] = "done" /\ rpc[k] # "gone" =>
              \/ submitting[k] # None /\ ~closed[submitting[k].id]
              \/ closing[k] # {}
              \/ rpc[k] = "reading" /\ Bridge!Free(k) /\ cancelled[k]
              \/ rpc[k] = "leaving" /\ Bridge!Free(k) /\ conn[k] = "attached"
              \/ rpc[k] = "closing" /\ closing[k] = {}

\* No goroutine waits for one that has ended: what GoroutinesEndTogether
\* needs beside fairness.
THEOREM GoroutinesCanEnd == Spec => []NeitherStuck
<1>1. Init => EndInv
  BY DEF Init, EndInv
<1>2. GhostInv /\ EndInv /\ Bridge!NoChannelPanic => NeitherStuck
  BY DEF GhostInv, HandlerInv, EndInv, Bridge!NoChannelPanic, Bridge!Free,
     NeitherStuck
<1>3. Spec => []GhostInv
  BY GhostInit, GhostStep, PTL DEF Spec
<1> QED
  BY <1>1, <1>2, <1>3, EndStep, EndpointNoPanic, PTL DEF Spec
=============================================================================
