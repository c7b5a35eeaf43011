------------------------- MODULE BrowserBridgeProofs -------------------------
(***************************************************************************)
(* Proofs about BrowserBridge for every set of sessions, calls and         *)
(* connections and every capacity of the request channel.                  *)
(***************************************************************************)
EXTENDS BrowserBridge, TLAPS

USE DEF vars, session, caller, channel, handler, history

\* Every step of the bridge keeps its state of the declared types.
LEMMA TypeStep == TypeOK /\ [Next]_vars => TypeOK'
<1> USE BridgeAssumption
<1> SUFFICES ASSUME TypeOK, [Next]_vars PROVE TypeOK'
  OBVIOUS
<1>1. ASSUME NEW k \in Conns, Connect(k) PROVE TypeOK'
  BY <1>1 DEF TypeOK, Connect
<1>2. ASSUME NEW k \in Conns, NEW caps \in Caps, PublishCapabilities(k, caps)
      PROVE TypeOK'
  BY <1>2 DEF TypeOK, PublishCapabilities
<1>3. ASSUME NEW k \in Conns, Disconnect(k) PROVE TypeOK'
  BY <1>3 DEF TypeOK, Disconnect
<1>4. ASSUME NEW k \in Conns, NEW c \in Calls, CloseResponse(k, c)
      PROVE TypeOK'
  BY <1>4 DEF TypeOK, CloseResponse
<1>5. ASSUME NEW k \in Conns, NEW result \in Results, SubmitLookup(k, result)
      PROVE TypeOK'
  BY <1>5 DEF TypeOK, SubmitLookup
<1>6. ASSUME NEW k \in Conns, SubmitSend(k) PROVE TypeOK'
  BY <1>6 DEF TypeOK, SubmitSend
<1>7. ASSUME NEW k \in Conns, ReceiveRequest(k) PROVE TypeOK'
  BY <1>7 DEF TypeOK, ReceiveRequest
<1>8. ASSUME NEW c \in Calls, CallRefused(c) PROVE TypeOK'
  BY <1>8 DEF TypeOK, CallRefused
<1>9. ASSUME NEW c \in Calls, CallRegister(c) PROVE TypeOK'
  BY <1>9 DEF TypeOK, CallRegister
<1>10. ASSUME NEW c \in Calls, CallSend(c) PROVE TypeOK'
  BY <1>10 DEF TypeOK, CallSend
<1>11. ASSUME NEW c \in Calls, CallReceive(c) PROVE TypeOK'
  BY <1>11 DEF TypeOK, CallReceive, Finish
<1>12. ASSUME NEW c \in Calls, CallClosed(c) PROVE TypeOK'
  BY <1>12 DEF TypeOK, CallClosed, Finish
<1>13. ASSUME NEW c \in Calls, CallCancelled(c) PROVE TypeOK'
  BY <1>13 DEF TypeOK, CallCancelled, Finish
<1>14. ASSUME NEW c \in Calls, CallReturn(c) PROVE TypeOK'
  BY <1>14 DEF TypeOK, CallReturn
<1>15. ASSUME NEW c \in Calls, CancelContext(c) PROVE TypeOK'
  BY <1>15 DEF TypeOK, CancelContext
<1>16. CASE UNCHANGED vars
  BY <1>16 DEF TypeOK
<1> QED
  BY <1>1, <1>2, <1>3, <1>4, <1>5, <1>6, <1>7, <1>8, <1>9, <1>10, <1>11,
     <1>12, <1>13, <1>14, <1>15, <1>16
  DEF Next, Caller

\* The state of the bridge is always of the declared types.
THEOREM TypeCorrect == Spec => []TypeOK
<1>1. Init => TypeOK
  BY DEF Init, TypeOK
<1> QED
  BY <1>1, TypeStep, PTL DEF Spec

\* No step leaves a pending entry that a result or a disconnect has claimed.
LEMMA PendingStep == BridgeInv /\ [Next]_vars => PendingInv'
<1> USE BridgeAssumption
<1> SUFFICES ASSUME BridgeInv, [Next]_vars PROVE PendingInv'
  OBVIOUS
<1>1. ASSUME NEW k \in Conns, Connect(k) PROVE PendingInv'
  BY <1>1 DEF BridgeInv, PendingInv, Revoked, Connect
<1>2. ASSUME NEW k \in Conns, Disconnect(k) PROVE PendingInv'
  BY <1>2 DEF BridgeInv, TypeOK, PendingInv, Revoked, Disconnect
<1>3. ASSUME NEW k \in Conns, NEW c \in Calls, CloseResponse(k, c)
      PROVE PendingInv'
  BY <1>3 DEF BridgeInv, PendingInv, Revoked, CloseResponse
<1>4. ASSUME NEW k \in Conns, NEW result \in Results, SubmitLookup(k, result)
      PROVE PendingInv'
  BY <1>4 DEF BridgeInv, TypeOK, PendingInv, Revoked, SubmitLookup
<1>5. ASSUME NEW c \in Calls, CallRefused(c) PROVE PendingInv'
  BY <1>5 DEF BridgeInv, PendingInv, Revoked, CallRefused
<1>6. ASSUME NEW c \in Calls, CallRegister(c) PROVE PendingInv'
  BY <1>6
  DEF BridgeInv, TypeOK, PendingInv, Revoked, ClaimInv, ClosingInv,
      CallRegister
<1>7. ASSUME NEW c \in Calls, CallSend(c) PROVE PendingInv'
  BY <1>7 DEF BridgeInv, PendingInv, Revoked, CallSend
<1>8. ASSUME NEW c \in Calls, CallReceive(c) PROVE PendingInv'
  BY <1>8 DEF BridgeInv, PendingInv, Revoked, CallReceive, Finish
<1>9. ASSUME NEW c \in Calls, CallClosed(c) PROVE PendingInv'
  BY <1>9 DEF BridgeInv, PendingInv, Revoked, CallClosed, Finish
<1>10. ASSUME NEW c \in Calls, CallCancelled(c) PROVE PendingInv'
  BY <1>10 DEF BridgeInv, PendingInv, Revoked, CallCancelled, Finish
<1>11. ASSUME NEW c \in Calls, CallReturn(c) PROVE PendingInv'
  BY <1>11 DEF BridgeInv, TypeOK, PendingInv, Revoked, CallReturn
<1>12. CASE UNCHANGED <<connected, responses, pc, accepted, closed, closing>>
  BY <1>12 DEF BridgeInv, PendingInv, Revoked
<1> QED
  BY <1>1, <1>2, <1>3, <1>4, <1>5, <1>6, <1>7, <1>8, <1>9, <1>10, <1>11,
     <1>12
  DEF Next, Caller, PublishCapabilities, SubmitSend, ReceiveRequest,
      CancelContext

\* A result that finds its entry in the map finds its call unclaimed.
LEMMA ClaimLookup ==
  ASSUME BridgeInv, NEW k \in Conns, NEW result \in Results,
         SubmitLookup(k, result)
  PROVE  ClaimInv'
<1> USE BridgeAssumption
<1> DEFINE c == result.id
<1>0. /\ c \in Calls
      /\ result # None
  BY DEF Results
<1>1. /\ c \in responses[ConnSession[k]]
      /\ pc[c] # "idle" /\ accepted[c] = None /\ ~Revoked(c) /\ buf[c] = None
      /\ \A j \in Conns : submitting[j] # None => submitting[j].id # c
  <2>1. ConnSession[k] \in Sessions /\ c \in responses[ConnSession[k]]
    BY DEF SubmitLookup
  <2>2. pc[c] # "idle" /\ accepted[c] = None /\ ~Revoked(c)
    BY <2>1 DEF BridgeInv, PendingInv
  <2>3. buf[c] = None
    BY <1>0, <2>2 DEF BridgeInv, ClaimInv
  <2>4. \A j \in Conns : submitting[j] # None => submitting[j].id # c
    BY <2>2 DEF BridgeInv, ClaimInv
  <2> QED
    BY <2>1, <2>2, <2>3, <2>4
<1>2. /\ accepted' = [accepted EXCEPT ![c] = result]
      /\ submitting' = [submitting EXCEPT ![k] = result]
      /\ UNCHANGED <<buf, pc, closed, closing>>
  BY DEF SubmitLookup
<1> HIDE DEF c
<1>3. ASSUME NEW d \in Calls
      PROVE  /\ buf'[d] # None => buf'[d] = accepted'[d]
             /\ accepted'[d] # None =>
                   accepted'[d].id = d /\ pc'[d] # "idle" /\ ~Revoked(d)'
  <2>1. CASE d = c
    BY <1>1, <1>2, <2>1 DEF Revoked, c
  <2>2. CASE d # c
    BY <1>2, <2>2 DEF BridgeInv, ClaimInv, Revoked
  <2> QED
    BY <2>1, <2>2
<1>4. ASSUME NEW h \in Conns, submitting'[h] # None
      PROVE  /\ accepted'[submitting'[h].id] = submitting'[h]
             /\ buf'[submitting'[h].id] = None
             /\ \A j \in Conns \ {h} : submitting'[j] # None =>
                   submitting'[j].id # submitting'[h].id
  <2>1. CASE h = k
    BY <1>1, <1>2, <2>1 DEF BridgeInv, TypeOK, c
  <2>2. CASE h # k
    BY <1>1, <1>2, <1>4, <2>2 DEF BridgeInv, ClaimInv, c
  <2> QED
    BY <2>1, <2>2
<1> QED
  BY <1>3, <1>4 DEF ClaimInv

\* No step lets two results, or a result and a disconnect, claim one call.
LEMMA ClaimStep == BridgeInv /\ [Next]_vars => ClaimInv'
<1> USE BridgeAssumption
<1> SUFFICES ASSUME BridgeInv, [Next]_vars PROVE ClaimInv'
  OBVIOUS
<1>1. ASSUME NEW k \in Conns, Disconnect(k) PROVE ClaimInv'
  BY <1>1 DEF BridgeInv, ClaimInv, Revoked, PendingInv, Disconnect
<1>2. ASSUME NEW k \in Conns, NEW c \in Calls, CloseResponse(k, c)
      PROVE ClaimInv'
  BY <1>2 DEF BridgeInv, ClaimInv, Revoked, CloseResponse
<1>3. ASSUME NEW k \in Conns, NEW result \in Results, SubmitLookup(k, result)
      PROVE ClaimInv'
  BY <1>3, ClaimLookup
<1>4. ASSUME NEW k \in Conns, SubmitSend(k) PROVE ClaimInv'
  BY <1>4 DEF BridgeInv, TypeOK, ClaimInv, Revoked, SubmitSend
<1>5. ASSUME NEW c \in Calls, CallRefused(c) PROVE ClaimInv'
  BY <1>5 DEF BridgeInv, ClaimInv, Revoked, CallRefused
<1>6. ASSUME NEW c \in Calls, CallRegister(c) PROVE ClaimInv'
  BY <1>6 DEF BridgeInv, ClaimInv, Revoked, CallRegister
<1>7. ASSUME NEW c \in Calls, CallSend(c) PROVE ClaimInv'
  BY <1>7 DEF BridgeInv, ClaimInv, Revoked, CallSend
<1>8. ASSUME NEW c \in Calls, CallReceive(c) PROVE ClaimInv'
  BY <1>8 DEF BridgeInv, ClaimInv, Revoked, CallReceive, Finish
<1>9. ASSUME NEW c \in Calls, CallClosed(c) PROVE ClaimInv'
  BY <1>9 DEF BridgeInv, ClaimInv, Revoked, CallClosed, Finish
<1>10. ASSUME NEW c \in Calls, CallCancelled(c) PROVE ClaimInv'
  BY <1>10 DEF BridgeInv, ClaimInv, Revoked, CallCancelled, Finish
<1>11. ASSUME NEW c \in Calls, CallReturn(c) PROVE ClaimInv'
  BY <1>11 DEF BridgeInv, ClaimInv, Revoked, CallReturn
<1>12. CASE UNCHANGED <<buf, accepted, pc, closed, closing, submitting>>
  BY <1>12 DEF BridgeInv, ClaimInv, Revoked
<1> QED
  BY <1>1, <1>2, <1>3, <1>4, <1>5, <1>6, <1>7, <1>8, <1>9, <1>10, <1>11,
     <1>12
  DEF Next, Caller, Connect, PublishCapabilities, ReceiveRequest,
      CancelContext

\* A disconnect takes channels that no other disconnect holds or closed.
LEMMA ClosingDisconnect ==
  ASSUME BridgeInv, NEW k \in Conns, Disconnect(k)
  PROVE  ClosingInv'
<1> USE BridgeAssumption
<1>1. /\ closing' = [closing EXCEPT ![k] = responses[ConnSession[k]]]
      /\ UNCHANGED <<closed, pc>>
  BY DEF Disconnect
<1>2. ConnSession[k] \in Sessions
  OBVIOUS
<1>3. \A c \in responses[ConnSession[k]] : pc[c] # "idle" /\ ~Revoked(c)
  BY DEF BridgeInv, PendingInv
<1>4. \A c \in Calls : c \in closing[k] => c \notin closing'[k]
  BY DEF Disconnect, Free
<1> QED
  BY <1>1, <1>3 DEF BridgeInv, ClosingInv, Revoked

\* No step lets two disconnects claim one call.
LEMMA ClosingStep == BridgeInv /\ [Next]_vars => ClosingInv'
<1> USE BridgeAssumption
<1> SUFFICES ASSUME BridgeInv, [Next]_vars PROVE ClosingInv'
  OBVIOUS
<1>1. ASSUME NEW k \in Conns, Disconnect(k) PROVE ClosingInv'
  BY <1>1, ClosingDisconnect
<1>2. ASSUME NEW k \in Conns, NEW c \in Calls, CloseResponse(k, c)
      PROVE ClosingInv'
  BY <1>2 DEF BridgeInv, TypeOK, ClosingInv, Revoked, CloseResponse
<1>3. ASSUME NEW c \in Calls, CallRefused(c) PROVE ClosingInv'
  BY <1>3 DEF BridgeInv, ClosingInv, Revoked, CallRefused
<1>4. ASSUME NEW c \in Calls, CallRegister(c) PROVE ClosingInv'
  BY <1>4 DEF BridgeInv, ClosingInv, Revoked, CallRegister
<1>5. ASSUME NEW c \in Calls, CallSend(c) PROVE ClosingInv'
  BY <1>5 DEF BridgeInv, ClosingInv, Revoked, CallSend
<1>6. ASSUME NEW c \in Calls, CallReceive(c) PROVE ClosingInv'
  BY <1>6 DEF BridgeInv, ClosingInv, Revoked, CallReceive, Finish
<1>7. ASSUME NEW c \in Calls, CallClosed(c) PROVE ClosingInv'
  BY <1>7 DEF BridgeInv, ClosingInv, Revoked, CallClosed, Finish
<1>8. ASSUME NEW c \in Calls, CallCancelled(c) PROVE ClosingInv'
  BY <1>8 DEF BridgeInv, ClosingInv, Revoked, CallCancelled, Finish
<1>9. ASSUME NEW c \in Calls, CallReturn(c) PROVE ClosingInv'
  BY <1>9 DEF BridgeInv, ClosingInv, Revoked, CallReturn
<1>10. CASE UNCHANGED <<closed, closing, pc>>
  BY <1>10 DEF BridgeInv, ClosingInv, Revoked
<1> QED
  BY <1>1, <1>2, <1>3, <1>4, <1>5, <1>6, <1>7, <1>8, <1>9, <1>10
  DEF Next, Caller, Connect, PublishCapabilities, SubmitLookup, SubmitSend,
      ReceiveRequest, CancelContext

\* No step hides an unclaimed waiting call from results and disconnects.
LEMMA OpenStep == BridgeInv /\ [Next]_vars => OpenInv'
<1> USE BridgeAssumption
<1> SUFFICES ASSUME BridgeInv, [Next]_vars PROVE OpenInv'
  OBVIOUS
<1>1. ASSUME NEW k \in Conns, Disconnect(k) PROVE OpenInv'
  BY <1>1 DEF BridgeInv, TypeOK, OpenInv, Revoked, Disconnect, Free
<1>2. ASSUME NEW k \in Conns, NEW c \in Calls, CloseResponse(k, c)
      PROVE OpenInv'
  BY <1>2 DEF BridgeInv, TypeOK, OpenInv, Revoked, CloseResponse
<1>3. ASSUME NEW k \in Conns, NEW result \in Results, SubmitLookup(k, result)
      PROVE OpenInv'
  BY <1>3 DEF BridgeInv, TypeOK, OpenInv, Revoked, SubmitLookup
<1>4. ASSUME NEW c \in Calls, CallRefused(c) PROVE OpenInv'
  BY <1>4 DEF BridgeInv, OpenInv, Revoked, CallRefused
<1>5. ASSUME NEW c \in Calls, CallRegister(c) PROVE OpenInv'
  BY <1>5 DEF BridgeInv, TypeOK, OpenInv, Revoked, CallRegister
<1>6. ASSUME NEW c \in Calls, CallSend(c) PROVE OpenInv'
  BY <1>6 DEF BridgeInv, OpenInv, Revoked, CallSend
<1>7. ASSUME NEW c \in Calls, CallReceive(c) PROVE OpenInv'
  BY <1>7 DEF BridgeInv, OpenInv, Revoked, CallReceive, Finish
<1>8. ASSUME NEW c \in Calls, CallClosed(c) PROVE OpenInv'
  BY <1>8 DEF BridgeInv, OpenInv, Revoked, CallClosed, Finish
<1>9. ASSUME NEW c \in Calls, CallCancelled(c) PROVE OpenInv'
  BY <1>9 DEF BridgeInv, OpenInv, Revoked, CallCancelled, Finish
<1>10. ASSUME NEW c \in Calls, CallReturn(c) PROVE OpenInv'
  BY <1>10 DEF BridgeInv, OpenInv, Revoked, CallReturn
<1>11. CASE UNCHANGED <<pc, accepted, closed, closing, responses>>
  BY <1>11 DEF BridgeInv, OpenInv, Revoked
<1> QED
  BY <1>1, <1>2, <1>3, <1>4, <1>5, <1>6, <1>7, <1>8, <1>9, <1>10, <1>11
  DEF Next, Caller, Connect, PublishCapabilities, SubmitSend, ReceiveRequest,
      CancelContext

\* A result that was claimed is put into its channel, and only its call takes
\* it out again.
LEMMA AnswerStep == BridgeInv /\ [Next]_vars => AnswerInv'
<1> USE BridgeAssumption
<1> SUFFICES ASSUME BridgeInv, [Next]_vars PROVE AnswerInv'
  OBVIOUS
<1>1. ASSUME NEW k \in Conns, NEW result \in Results, SubmitLookup(k, result)
      PROVE AnswerInv'
  BY <1>1 DEF BridgeInv, TypeOK, AnswerInv, SubmitLookup, Free, Results
<1>2. ASSUME NEW k \in Conns, SubmitSend(k) PROVE AnswerInv'
  BY <1>2 DEF BridgeInv, TypeOK, AnswerInv, ClaimInv, SubmitSend, Results
<1>3. ASSUME NEW c \in Calls, CallRegister(c) PROVE AnswerInv'
  BY <1>3 DEF BridgeInv, TypeOK, AnswerInv, ClaimInv, CallRegister, channel,
              handler, history
<1>4. ASSUME NEW c \in Calls, CallSend(c) PROVE AnswerInv'
  BY <1>4 DEF BridgeInv, TypeOK, AnswerInv, CallSend, channel, handler, history
<1>5. ASSUME NEW c \in Calls, CallReceive(c) PROVE AnswerInv'
  BY <1>5 DEF BridgeInv, TypeOK, AnswerInv, CallReceive, Finish, handler, history
<1>6. ASSUME NEW c \in Calls,
             CallRefused(c) \/ CallClosed(c) \/ CallCancelled(c) \/ CallReturn(c)
      PROVE AnswerInv'
  BY <1>6 DEF BridgeInv, TypeOK, AnswerInv, CallRefused, CallClosed,
              CallCancelled, CallReturn, Finish, channel, handler, history
<1>7. CASE UNCHANGED <<pc, accepted, buf, submitting>>
  BY <1>7 DEF BridgeInv, AnswerInv
<1> QED
  BY <1>1, <1>2, <1>3, <1>4, <1>5, <1>6, <1>7
  DEF Next, Caller, Connect, PublishCapabilities, Disconnect, CloseResponse,
      ReceiveRequest, CancelContext, vars, caller, channel, handler, history

\* Receiving a request removes its only occurrence from the queue.
LEMMA QueueReceive ==
  ASSUME BridgeInv, NEW k \in Conns, ReceiveRequest(k)
  PROVE  QueueInv'
<1> USE BridgeAssumption
    <1> DEFINE s == ConnSession[k]
             q == requests[s]
             c == Head(q)
  <1>1. /\ s \in Sessions
        /\ q \in Seq(Calls)
        /\ q # <<>>
    BY DEF BridgeInv, TypeOK, ReceiveRequest
  <1>2. /\ Tail(q) \in Seq(Calls)
        /\ Len(Tail(q)) = Len(q) - 1
        /\ \A i \in 1 .. Len(Tail(q)) : Tail(q)[i] = q[i + 1]
        /\ 1 \in 1 .. Len(q)
        /\ c = q[1]
        /\ Len(q) \in Nat
        /\ c \in Calls
    BY <1>1
  <1>3. /\ requests' = [requests EXCEPT ![s] = Tail(q)]
        /\ taken' = [taken EXCEPT ![c] = k]
        /\ UNCHANGED pc
    BY DEF ReceiveRequest
  <1>4. /\ CallSession[c] = s
        /\ pc[c] \notin {"idle", "send"}
        /\ \A i \in 1 .. Len(Tail(q)) : Tail(q)[i] # c
    BY <1>2 DEF BridgeInv, QueueInv
  <1> HIDE DEF q, c, s
  <1>5. \A d \in Calls : taken'[d] # None => pc'[d] \notin {"idle", "send"}
    BY <1>3, <1>4 DEF BridgeInv, QueueInv
  <1>6. ASSUME NEW t \in Sessions, NEW i \in 1 .. Len(requests'[t])
        PROVE  /\ CallSession[requests'[t][i]] = t
               /\ taken'[requests'[t][i]] = None
               /\ pc'[requests'[t][i]] \notin {"idle", "send"}
               /\ \A j \in 1 .. Len(requests'[t]) :
                    requests'[t][j] = requests'[t][i] => j = i
    <2>1. CASE t = s
      <3>1. requests'[t] = Tail(q)
        BY <1>3, <2>1 DEF BridgeInv, TypeOK
      <3>2. \A j \in 1 .. Len(Tail(q)) : j + 1 \in 1 .. Len(q)
        BY <1>2
      <3>3. \A j \in 1 .. Len(q) :
              /\ CallSession[q[j]] = s /\ taken[q[j]] = None
              /\ pc[q[j]] \notin {"idle", "send"}
              /\ \A h \in 1 .. Len(q) : q[h] = q[j] => h = j
        BY <1>1 DEF BridgeInv, QueueInv, q
      <3>4. Tail(q)[i] # c /\ Tail(q)[i] = q[i + 1] /\ Tail(q)[i] \in Calls
        BY <1>2, <1>4, <3>1
      <3>5. taken'[Tail(q)[i]] = None
        BY <1>3, <3>1, <3>2, <3>3, <3>4 DEF BridgeInv, TypeOK
      <3>6. \A j \in 1 .. Len(Tail(q)) : Tail(q)[j] = Tail(q)[i] => j = i
        BY <1>2, <3>1, <3>2, <3>3
      <3> QED
        <4>1. i + 1 \in 1 .. Len(q)
          BY <3>1, <3>2
        <4>2. /\ CallSession[Tail(q)[i]] = s
              /\ pc[Tail(q)[i]] \notin {"idle", "send"}
          BY <3>3, <3>4, <4>1
        <4> QED
          BY <1>3, <2>1, <3>1, <3>5, <3>6, <4>2
    <2>2. CASE t # s
      <3>1. requests'[t] = requests[t]
        BY <1>3, <2>2
      <3>2. requests[t][i] \in Calls /\ CallSession[requests[t][i]] = t
        BY <3>1 DEF BridgeInv, TypeOK, QueueInv
      <3>3. requests[t][i] # c
        BY <1>4, <2>2, <3>2
      <3> QED
        <4>1. taken'[requests[t][i]] = taken[requests[t][i]]
          BY <1>3, <3>3
        <4>2. /\ CallSession[requests[t][i]] = t
              /\ taken[requests[t][i]] = None
              /\ pc[requests[t][i]] \notin {"idle", "send"}
              /\ \A j \in 1 .. Len(requests[t]) :
                    requests[t][j] = requests[t][i] => j = i
          BY <3>1 DEF BridgeInv, QueueInv
        <4> QED
          BY <1>3, <3>1, <4>1, <4>2
    <2> QED
      BY <2>1, <2>2
  <1> QED
    BY <1>5, <1>6 DEF QueueInv

\* No step queues a request twice or puts back one that was received.
LEMMA QueueStep == BridgeInv /\ [Next]_vars => QueueInv'
<1> USE BridgeAssumption
<1> SUFFICES ASSUME BridgeInv, [Next]_vars PROVE QueueInv'
  OBVIOUS
<1>1. ASSUME NEW k \in Conns, ReceiveRequest(k) PROVE QueueInv'
  BY <1>1, QueueReceive
<1>2. ASSUME NEW c \in Calls, CallRefused(c) PROVE QueueInv'
  BY <1>2 DEF BridgeInv, QueueInv, CallRefused
<1>3. ASSUME NEW c \in Calls, CallRegister(c) PROVE QueueInv'
  BY <1>3 DEF BridgeInv, QueueInv, CallRegister
<1>4. ASSUME NEW c \in Calls, CallSend(c) PROVE QueueInv'
  BY <1>4 DEF BridgeInv, TypeOK, QueueInv, CallSend
<1>5. ASSUME NEW c \in Calls, CallReceive(c) PROVE QueueInv'
  BY <1>5 DEF BridgeInv, QueueInv, CallReceive, Finish
<1>6. ASSUME NEW c \in Calls, CallClosed(c) PROVE QueueInv'
  BY <1>6 DEF BridgeInv, QueueInv, CallClosed, Finish
<1>7. ASSUME NEW c \in Calls, CallCancelled(c) PROVE QueueInv'
  BY <1>7 DEF BridgeInv, QueueInv, CallCancelled, Finish
<1>8. ASSUME NEW c \in Calls, CallReturn(c) PROVE QueueInv'
  BY <1>8 DEF BridgeInv, QueueInv, CallReturn
<1>9. CASE UNCHANGED <<requests, taken, pc>>
  BY <1>9 DEF BridgeInv, QueueInv
<1> QED
  BY <1>1, <1>2, <1>3, <1>4, <1>5, <1>6, <1>7, <1>8, <1>9
  DEF Next, Caller, Connect, PublishCapabilities, Disconnect, CloseResponse,
      SubmitLookup, SubmitSend, CancelContext

\* No step lets a connection touch a call of another session.
LEMMA SessionStep == BridgeInv /\ [Next]_vars => SessionInv'
<1> USE BridgeAssumption
<1> SUFFICES ASSUME BridgeInv, [Next]_vars PROVE SessionInv'
  OBVIOUS
<1>1. ASSUME NEW k \in Conns, Disconnect(k) PROVE SessionInv'
  BY <1>1 DEF BridgeInv, SessionInv, PendingInv, Disconnect
<1>2. ASSUME NEW k \in Conns, NEW c \in Calls, CloseResponse(k, c)
      PROVE SessionInv'
  BY <1>2 DEF BridgeInv, SessionInv, CloseResponse
<1>3. ASSUME NEW k \in Conns, NEW result \in Results, SubmitLookup(k, result)
      PROVE SessionInv'
  BY <1>3 DEF BridgeInv, SessionInv, PendingInv, SubmitLookup
<1>4. ASSUME NEW k \in Conns, SubmitSend(k) PROVE SessionInv'
  BY <1>4 DEF BridgeInv, SessionInv, SubmitSend
<1>5. ASSUME NEW k \in Conns, ReceiveRequest(k) PROVE SessionInv'
  BY <1>5 DEF BridgeInv, SessionInv, QueueInv, ReceiveRequest
<1>6. CASE UNCHANGED <<taken, submitting, closing>>
  BY <1>6 DEF BridgeInv, SessionInv
<1> QED
  BY <1>1, <1>2, <1>3, <1>4, <1>5, <1>6
  DEF Next, Caller, Connect, PublishCapabilities, CallRefused, CallRegister,
      CallSend, CallReceive, CallClosed, CallCancelled, CallReturn,
      CancelContext

\* The inductive invariant holds initially ...
LEMMA InvInit == Init => BridgeInv
  BY BridgeAssumption
  DEF Init, BridgeInv, TypeOK, PendingInv, ClaimInv, ClosingInv, OpenInv,
      AnswerInv, QueueInv, SessionInv, Revoked

\* ... every step preserves it ...
LEMMA InvStep == BridgeInv /\ [Next]_vars => BridgeInv'
  BY TypeStep, PendingStep, ClaimStep, ClosingStep, OpenStep, AnswerStep,
     QueueStep, SessionStep
  DEF BridgeInv

\* ... so it holds in every reachable state.
THEOREM BridgeInvariant == Spec => []BridgeInv
  BY InvInit, InvStep, PTL DEF Spec

\* What the invariant says of a result on its way and of a close on its way.
LEMMA InvChannels == BridgeInv => NoChannelPanic
  BY DEF BridgeInv, TypeOK, ClaimInv, ClosingInv, NoChannelPanic, Revoked,
         Results

\* No goroutine ever sends on or closes a response channel that is closed,
\* whatever the number of connections of a session that overlap, and the
\* "channel is full" branch of SubmitResult is dead code.
THEOREM NoPanic == Spec => []NoChannelPanic
  BY InvChannels, BridgeInvariant, PTL

\* A call that waits can be woken: its channel is in the map, where a result
\* or a disconnect will find it, or holds the answer, or is in the hands of a
\* goroutine that will put one in, or is closed or about to be.
NoLostWakeup ==
    \A c \in Calls : pc[c] \in {"send", "wait"} =>
        \/ c \in responses[CallSession[c]]
        \/ buf[c] # None
        \/ \E k \in Conns : submitting[k] # None /\ submitting[k].id = c
        \/ Revoked(c)

\* No call waits on a channel that everybody has let go of: what
\* DecidedCallReturns needs beside fairness.
THEOREM WaitersCanBeWoken == Spec => []NoLostWakeup
<1>1. BridgeInv => NoLostWakeup
  BY DEF BridgeInv, OpenInv, AnswerInv, ClaimInv, NoLostWakeup
<1> QED
  BY <1>1, BridgeInvariant, PTL

\* The map of pending responses leaks no entry past a call or a connection.
THEOREM NoPendingLeak == Spec => []PendingIsLive
<1>1. BridgeInv => PendingIsLive
  BY DEF BridgeInv, PendingInv, PendingIsLive
<1> QED
  BY <1>1, BridgeInvariant, PTL

\* Requests, results and disconnects stay within their session.
THEOREM SessionsStayApart == Spec => []StaysInSession
<1>1. BridgeInv => StaysInSession
  BY DEF BridgeInv, TypeOK, QueueInv, SessionInv, StaysInSession
<1> QED
  BY <1>1, BridgeInvariant, PTL

\* No request is handed to a second writer.
THEOREM AtMostOneWriter == Spec => HandedOutOnce
<1>1. BridgeInv /\ [Next]_vars
        => [\A c \in Calls : taken[c] # None => taken'[c] = taken[c]]_vars
  <2> SUFFICES ASSUME BridgeInv, [Next]_vars, NEW c \in Calls,
                      taken[c] # None
               PROVE  taken'[c] = taken[c]
    OBVIOUS
  <2>1. ASSUME NEW k \in Conns, ReceiveRequest(k) PROVE taken'[c] = taken[c]
    <3>1. requests[ConnSession[k]] \in Seq(Calls)
      BY BridgeAssumption DEF BridgeInv, TypeOK
    <3>2. 1 \in 1 .. Len(requests[ConnSession[k]])
      BY <2>1 DEF ReceiveRequest
    <3>3. taken[Head(requests[ConnSession[k]])] = None
      BY <3>2, BridgeAssumption DEF BridgeInv, QueueInv
    <3> QED
      BY <2>1, <3>3 DEF ReceiveRequest
  <2>2. CASE UNCHANGED taken
    BY <2>2
  <2> QED
    BY <2>1
    DEF Next, Caller, Connect, PublishCapabilities, Disconnect,
        CloseResponse, SubmitLookup, SubmitSend, CallRefused, CallRegister,
        CallSend, CallReceive, CallClosed, CallCancelled, CallReturn,
        CancelContext
<1> QED
  BY <1>1, BridgeInvariant, PTL DEF Spec, HandedOutOnce

-----------------------------------------------------------------------------
(* The bridge implements RemoteCall.                                       *)

\* A step that moves no call in the eyes of RemoteCall.
LEMMA Unmoved ==
  ASSUME UNCHANGED <<pc, accepted, outcome>>,
         \A c \in Calls : Revoked(c)' <=> Revoked(c)
  PROVE  UNCHANGED <<CallPhase, CallValue>>
  BY DEF CallPhase, CallValue

\* Writing the value a call already has changes nothing.
LEMMA OverwriteSame ==
  ASSUME NEW d \in Calls
  PROVE  /\ [CallPhase EXCEPT ![d] = CallPhase[d]] = CallPhase
         /\ [CallValue EXCEPT ![d] = CallValue[d]] = CallValue
<1>1. /\ CallPhase = [c \in Calls |-> CallPhase[c]]
      /\ CallValue = [c \in Calls |-> CallValue[c]]
  BY DEF CallPhase, CallValue
<1> QED
  BY <1>1

\* A step that moves one call at most leaves all others where they are.
LEMMA OneMoved ==
  ASSUME TypeOK, NEW d \in Calls,
         \A c \in Calls \ {d} : 
           /\ pc'[c] = pc[c] /\ accepted'[c] = accepted[c]
           /\ outcome'[c] = outcome[c] /\ (Revoked(c)' <=> Revoked(c))
  PROVE  /\ CallPhase' = [CallPhase EXCEPT ![d] = CallPhase'[d]]
         /\ CallValue' = [CallValue EXCEPT ![d] = CallValue'[d]]
  BY DEF CallPhase, CallValue

\* Every step of the bridge is a step of RemoteCall or a stutter.
LEMMA RefineStep == BridgeInv /\ [Next]_vars => [Remote!Next]_(Remote!vars)
<1> USE BridgeAssumption
<1> SUFFICES ASSUME BridgeInv, [Next]_vars PROVE [Remote!Next]_(Remote!vars)
  OBVIOUS
<1>1. ASSUME NEW k \in Conns, Connect(k) PROVE Remote!Attach(ConnSession[k])
  <2>1. UNCHANGED <<ctxDone, pc, accepted, outcome, closed, closing>>
    BY <1>1 DEF Connect
  <2>2. UNCHANGED <<CallPhase, CallValue>>
    BY <2>1, Unmoved DEF Revoked
  <2> QED
    BY <1>1, <2>2 DEF Connect, Remote!Attach
<1>2. ASSUME NEW k \in Conns, NEW caps \in Caps, PublishCapabilities(k, caps)
      PROVE UNCHANGED Remote!vars
  <2>1. UNCHANGED <<connected, ctxDone, pc, accepted, outcome, closed,
                    closing>>
    BY <1>2 DEF PublishCapabilities
  <2> QED
    BY <2>1, Unmoved DEF Remote!vars, Revoked
<1>3. ASSUME NEW k \in Conns, Disconnect(k) PROVE Remote!Detach(ConnSession[k])
  <2> DEFINE s == ConnSession[k]
  <2>1. /\ UNCHANGED <<ctxDone, pc, accepted, outcome, closed>>
        /\ closing' = [closing EXCEPT ![k] = responses[s]]
        /\ connected' = [connected EXCEPT ![s] = FALSE]
        /\ closing[k] = {}
    BY <1>3 DEF Disconnect, Free
  <2>2. s \in Sessions
    OBVIOUS
  <2> HIDE DEF s
  <2>3. ASSUME NEW c \in Calls
        PROVE  /\ Revoked(c)' <=> Revoked(c) \/ c \in responses[s]
               /\ c \in responses[s] => CallSession[c] = s
    BY <2>1, <2>2 DEF BridgeInv, TypeOK, PendingInv, Revoked
  <2>4. CallValue' = CallValue
    BY <2>1 DEF CallValue
  <2>5. ASSUME NEW c \in Calls
        PROVE  CallPhase'[c] = IF CallSession[c] = s /\ CallPhase[c] = "open"
                               THEN "revoked" ELSE CallPhase[c]
    <3>1. CASE pc[c] \in {"send", "wait"} /\ accepted[c] = None /\ ~Revoked(c)
      <4>1. CallPhase[c] = "open" /\ c \in responses[CallSession[c]]
        BY <3>1 DEF BridgeInv, OpenInv, CallPhase
      <4> QED
        BY <2>1, <2>3, <4>1 DEF CallPhase
    <3>2. CASE ~(/\ pc[c] \in {"send", "wait"}
                 /\ accepted[c] = None /\ ~Revoked(c))
      <4>1. CallPhase[c] # "open"
        BY <3>2 DEF BridgeInv, TypeOK, CallPhase
      <4> QED
        BY <2>1, <2>3, <4>1 DEF CallPhase
    <3> QED
      BY <3>1, <3>2
  <2>6. CallPhase' = [c \in Calls |->
                        IF CallSession[c] = s /\ CallPhase[c] = "open"
                        THEN "revoked" ELSE CallPhase[c]]
    BY <2>5 DEF CallPhase
  <2> QED
    BY <2>1, <2>4, <2>6 DEF Remote!Detach, s
<1>4. ASSUME NEW k \in Conns, NEW c \in Calls, CloseResponse(k, c)
      PROVE UNCHANGED Remote!vars
  <2>1. /\ UNCHANGED <<connected, ctxDone, pc, accepted, outcome>>
        /\ c \in closing[k]
        /\ closing' = [closing EXCEPT ![k] = @ \ {c}]
        /\ closed' = [closed EXCEPT ![c] = TRUE]
    BY <1>4 DEF CloseResponse
  <2>2. \A d \in Calls : Revoked(d)' <=> Revoked(d)
    BY <2>1 DEF BridgeInv, TypeOK, Revoked
  <2> QED
    BY <2>1, <2>2, Unmoved DEF Remote!vars
<1>5. ASSUME NEW k \in Conns, NEW result \in Results, SubmitLookup(k, result)
      PROVE Remote!Next \/ UNCHANGED Remote!vars
  <2> DEFINE c == result.id
  <2>1. /\ UNCHANGED <<connected, ctxDone, pc, outcome, closed, closing>>
        /\ accepted' = [accepted EXCEPT ![c] = result]
        /\ c \in responses[ConnSession[k]]
    BY <1>5 DEF SubmitLookup
  <2>2. /\ pc[c] \in {"send", "wait", "return"}
        /\ accepted[c] = None
        /\ ~Revoked(c)
    BY <2>1 DEF BridgeInv, PendingInv
  <2>3. c \in Calls /\ result # None
    BY DEF Results
  <2> HIDE DEF c
  <2>4. /\ CallPhase' = [CallPhase EXCEPT ![c] = CallPhase'[c]]
        /\ CallValue' = [CallValue EXCEPT ![c] = CallValue'[c]]
    BY <2>1, <2>3, OneMoved DEF BridgeInv, Revoked
  <2>5. accepted'[c] = result
    BY <2>1 DEF BridgeInv, TypeOK
  <2>6. CASE pc[c] \in {"send", "wait"}
    <3>1. CallPhase[c] = "open"
      BY <2>2, <2>3, <2>6 DEF CallPhase
    <3>2. CallPhase'[c] = "answered" /\ CallValue'[c] = result
      BY <2>1, <2>3, <2>5, <2>6 DEF CallPhase, CallValue
    <3>3. result \in Remote!Answers /\ result.id = c
      BY DEF Remote!Answers, Results, c
    <3>4. Remote!Answer(c, result)
      BY <2>1, <2>4, <3>1, <3>2, <3>3 DEF Remote!Answer
    <3> QED
      BY <2>3, <3>3, <3>4 DEF Remote!Next
  <2>7. CASE pc[c] = "return"
    <3>1. CallPhase'[c] = CallPhase[c] /\ CallValue'[c] = CallValue[c]
      BY <2>1, <2>3, <2>7 DEF CallPhase, CallValue
    <3> QED
      BY <2>1, <2>3, <2>4, <3>1, OverwriteSame DEF Remote!vars
  <2> QED
    BY <2>2, <2>6, <2>7
<1>6. ASSUME NEW k \in Conns, SubmitSend(k)
      PROVE UNCHANGED Remote!vars
  <2>1. UNCHANGED <<connected, ctxDone, pc, accepted, outcome, closed,
                    closing>>
    BY <1>6 DEF SubmitSend
  <2> QED
    BY <2>1, Unmoved DEF Remote!vars, Revoked
<1>7. ASSUME NEW k \in Conns, ReceiveRequest(k)
      PROVE UNCHANGED Remote!vars
  <2>1. UNCHANGED <<connected, ctxDone, pc, accepted, outcome, closed,
                    closing>>
    BY <1>7 DEF ReceiveRequest
  <2> QED
    BY <2>1, Unmoved DEF Remote!vars, Revoked
<1>8. ASSUME NEW c \in Calls, CallRefused(c) PROVE Remote!Refuse(c)
  <2>1. /\ UNCHANGED <<connected, ctxDone, accepted, closed, closing>>
        /\ pc' = [pc EXCEPT ![c] = "done"]
        /\ outcome' = [outcome EXCEPT ![c] = Unavailable]
    BY <1>8 DEF CallRefused
  <2>2. /\ CallPhase' = [CallPhase EXCEPT ![c] = CallPhase'[c]]
        /\ CallValue' = [CallValue EXCEPT ![c] = CallValue'[c]]
    BY <2>1, OneMoved DEF BridgeInv, Revoked
  <2>3. CallPhase[c] = "idle"
    BY <1>8 DEF CallRefused, CallPhase
  <2>4. CallPhase'[c] = "returned" /\ CallValue'[c] = Unavailable
    BY <2>1 DEF BridgeInv, TypeOK, CallPhase, CallValue
  <2> QED
    BY <1>8, <2>2, <2>3, <2>4 DEF CallRefused, Remote!Refuse, Remote!Return
<1>9. ASSUME NEW c \in Calls, CallRegister(c) PROVE Remote!Request(c)
  <2>1. /\ UNCHANGED <<connected, ctxDone, accepted, closed, closing>>
        /\ pc' = [pc EXCEPT ![c] = "send"]
        /\ UNCHANGED outcome
    BY <1>9 DEF CallRegister
  <2>2. /\ CallPhase' = [CallPhase EXCEPT ![c] = CallPhase'[c]]
        /\ CallValue' = [CallValue EXCEPT ![c] = CallValue'[c]]
    BY <2>1, OneMoved DEF BridgeInv, Revoked
  <2>3. CallPhase[c] = "idle" /\ accepted[c] = None /\ ~Revoked(c)
    BY <1>9 DEF CallRegister, BridgeInv, ClaimInv, ClosingInv, CallPhase
  <2>4. CallPhase'[c] = "open" /\ CallValue'[c] = CallValue[c]
    BY <2>1, <2>3 DEF BridgeInv, TypeOK, CallPhase, CallValue, Revoked
  <2> QED
    BY <1>9, <2>2, <2>3, <2>4, OverwriteSame DEF CallRegister, Remote!Request
<1>10. ASSUME NEW c \in Calls, CallSend(c) PROVE UNCHANGED Remote!vars
  <2>1. /\ UNCHANGED <<connected, ctxDone, accepted, outcome, closed, closing>>
        /\ pc[c] = "send" /\ pc' = [pc EXCEPT ![c] = "wait"]
    BY <1>10 DEF CallSend
  <2> QED
    BY <2>1 DEF Remote!vars, CallPhase, CallValue, Revoked
<1>11. ASSUME NEW c \in Calls, CallReceive(c) PROVE Remote!ReturnAnswer(c)
  <2>1. /\ UNCHANGED <<connected, ctxDone, accepted, closed, closing>>
        /\ pc' = [pc EXCEPT ![c] = "return"]
        /\ outcome' = [outcome EXCEPT ![c] = buf[c]]
    BY <1>11 DEF CallReceive, Finish
  <2>2. /\ CallPhase' = [CallPhase EXCEPT ![c] = CallPhase'[c]]
        /\ CallValue' = [CallValue EXCEPT ![c] = CallValue'[c]]
    BY <2>1, OneMoved DEF BridgeInv, Revoked
  <2>3. CallPhase[c] = "answered" /\ CallValue[c] = buf[c]
    BY <1>11 DEF CallReceive, BridgeInv, ClaimInv, CallPhase, CallValue
  <2>4. CallPhase'[c] = "returned" /\ CallValue'[c] = buf[c]
    BY <2>1 DEF BridgeInv, TypeOK, CallPhase, CallValue
  <2> QED
    BY <2>1, <2>2, <2>3, <2>4 DEF Remote!ReturnAnswer, Remote!Return
<1>12. ASSUME NEW c \in Calls, CallClosed(c) PROVE Remote!ReturnRevoked(c)
  <2>1. /\ UNCHANGED <<connected, ctxDone, accepted, closed, closing>>
        /\ pc' = [pc EXCEPT ![c] = "return"]
        /\ outcome' = [outcome EXCEPT ![c] = Unavailable]
    BY <1>12 DEF CallClosed, Finish
  <2>2. /\ CallPhase' = [CallPhase EXCEPT ![c] = CallPhase'[c]]
        /\ CallValue' = [CallValue EXCEPT ![c] = CallValue'[c]]
    BY <2>1, OneMoved DEF BridgeInv, Revoked
  <2>3. CallPhase[c] = "revoked"
    BY <1>12 DEF CallClosed, BridgeInv, ClaimInv, CallPhase, Revoked
  <2>4. CallPhase'[c] = "returned" /\ CallValue'[c] = Unavailable
    BY <2>1 DEF BridgeInv, TypeOK, CallPhase, CallValue
  <2> QED
    BY <2>1, <2>2, <2>3, <2>4 DEF Remote!ReturnRevoked, Remote!Return
<1>13. ASSUME NEW c \in Calls, CallCancelled(c) PROVE Remote!ReturnAbandoned(c)
  <2>1. /\ UNCHANGED <<connected, ctxDone, accepted, closed, closing>>
        /\ pc' = [pc EXCEPT ![c] = "return"]
        /\ outcome' = [outcome EXCEPT ![c] = Timeout]
    BY <1>13 DEF CallCancelled, Finish
  <2>2. /\ CallPhase' = [CallPhase EXCEPT ![c] = CallPhase'[c]]
        /\ CallValue' = [CallValue EXCEPT ![c] = CallValue'[c]]
    BY <2>1, OneMoved DEF BridgeInv, Revoked
  <2>3. ctxDone[c] /\ CallPhase[c] \in {"open", "answered", "revoked"}
    BY <1>13 DEF CallCancelled, CallPhase
  <2>4. CallPhase'[c] = "returned" /\ CallValue'[c] = Timeout
    BY <2>1 DEF BridgeInv, TypeOK, CallPhase, CallValue
  <2> QED
    BY <2>1, <2>2, <2>3, <2>4 DEF Remote!ReturnAbandoned, Remote!Return
<1>14. ASSUME NEW c \in Calls, CallReturn(c) PROVE UNCHANGED Remote!vars
  <2>1. /\ UNCHANGED <<connected, ctxDone, accepted, outcome, closed, closing>>
        /\ pc[c] = "return" /\ pc' = [pc EXCEPT ![c] = "done"]
    BY <1>14 DEF CallReturn
  <2> QED
    BY <2>1 DEF Remote!vars, CallPhase, CallValue, Revoked
<1>15. ASSUME NEW c \in Calls, CancelContext(c) PROVE Remote!Next
  <2>1. /\ UNCHANGED <<connected, pc, accepted, outcome, closed, closing>>
        /\ ctxDone' = [ctxDone EXCEPT ![c] = TRUE]
    BY <1>15 DEF CancelContext
  <2>2. UNCHANGED <<CallPhase, CallValue>>
    BY <2>1, Unmoved DEF Revoked
  <2>3. {d \in Calls : ctxDone'[d]} = {d \in Calls : ctxDone[d]} \cup {c}
    BY <2>1 DEF BridgeInv, TypeOK
  <2>4. Remote!Abandon({c})
    BY <2>1, <2>2, <2>3 DEF Remote!Abandon
  <2>5. {c} \in SUBSET Calls
    OBVIOUS
  <2> QED
    BY <2>4 DEF Remote!Next
<1>16. CASE UNCHANGED vars
  BY <1>16, Unmoved DEF Remote!vars, Revoked
<1> QED
  BY <1>1, <1>2, <1>3, <1>4, <1>5, <1>6, <1>7, <1>8, <1>9, <1>10, <1>11,
     <1>12, <1>13, <1>14, <1>15, <1>16
  DEF Next, Caller, Remote!Next

\* The bridge keeps the promise of RemoteCall in every behaviour.
THEOREM BridgeKeepsPromise == Spec => KeepsPromise
<1>1. Init => Remote!Init
  BY DEF Init, Remote!Init, CallPhase, CallValue
<1>2. BridgeInv /\ [Next]_vars => [Remote!Next]_(Remote!vars)
  BY RefineStep
<1> QED
  BY <1>1, <1>2, BridgeInvariant, PTL DEF Spec, KeepsPromise, Remote!Spec
=============================================================================
