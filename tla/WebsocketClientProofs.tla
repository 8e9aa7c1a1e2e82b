------------------------ MODULE WebsocketClientProofs ------------------------
(***************************************************************************)
(* Theorems about WebsocketClient, for any number of calls, of request     *)
(* identifiers and of readHandler goroutines, whether or not calls share   *)
(* an identifier.                                                          *)
(***************************************************************************)
EXTENDS WebsocketClient, TLAPS

(* A call that has not begun owns an unused channel: what makes storing it *)
(* under an identifier keep RegisteredChannelIsFresh.                      *)
IdleChannelIsFresh ==
    \A c \in Calls : pc[c] = "idle" => respChan[c] = Fresh /\ responses[ReqId[c]] # c

ChannelInv == /\ RegisteredChannelIsFresh
              /\ IdleChannelIsFresh
              /\ NoOrphanedWaiter
              /\ NoEntryOutlivesItsCall

IInv == TypeOK /\ ChannelInv /\ OneReconnectGoroutine

-----------------------------------------------------------------------------
(* What an outcome adds to an empty buffer. *)
LEMMA EmptyConcat ==
    ASSUME NEW d \in Buffers
    PROVE  <<>> \o d = d
  BY DEF Buffers, Outcomes

(* The two ways a channel is written: made, and closed.                    *)
LEMMA ChannelTypes ==
    /\ Fresh \in Channels
    /\ \A d \in Buffers : [buf |-> d, closed |-> TRUE] \in Channels
    /\ \A ch \in Channels : [ch EXCEPT !.closed = TRUE] \in Channels
  <1>1. <<>> \in Buffers BY DEF Buffers
  <1>2. TRUE \in BOOLEAN /\ FALSE \in BOOLEAN OBVIOUS
  <1>3. Fresh \in Channels BY <1>1, <1>2 DEF Fresh, Channels
  <1>4. ASSUME NEW d \in Buffers PROVE [buf |-> d, closed |-> TRUE] \in Channels
    BY <1>2 DEF Channels
  <1>5. ASSUME NEW ch \in Channels PROVE [ch EXCEPT !.closed = TRUE] \in Channels
    BY <1>2 DEF Channels
  <1> QED BY <1>3, <1>4, <1>5

(* What sendResponse does: the entry is gone, and the channel that was     *)
(* stored, if any, is closed and holds just the data sent.                 *)
LEMMA SendResponseEffect ==
    ASSUME TypeOK, RegisteredChannelIsFresh,
           NEW r \in ReqIds, NEW d \in Buffers, SendResponse(r, d)
    PROVE  /\ responses' = [responses EXCEPT ![r] = NoCall]
           /\ respChan' = [c \in Calls |-> IF c = responses[r]
                                           THEN [buf |-> d, closed |-> TRUE]
                                           ELSE respChan[c]]
  <1>1. responses \in [ReqIds -> Calls \cup {NoCall}] /\ respChan \in [Calls -> Channels]
    BY DEF TypeOK
  <1>2. CASE responses[r] = NoCall
    BY <1>1, <1>2, ClientAssumption DEF SendResponse, mapVars, ClientAssumption
  <1>3. CASE responses[r] # NoCall
    <2>1. responses[r] \in Calls /\ respChan[responses[r]] = Fresh
      BY <1>1, <1>3 DEF RegisteredChannelIsFresh, Registered, Fresh
    <2>2. respChan' = [respChan EXCEPT ![responses[r]] = [buf |-> <<>> \o d, closed |-> TRUE]]
      BY <1>1, <1>3, <2>1 DEF SendResponse, Fresh
    <2> QED BY <1>1, <1>3, <2>1, <2>2, EmptyConcat DEF SendResponse
  <1> QED BY <1>2, <1>3

(* Every use of sendResponse keeps the map and the channels well formed.   *)
LEMMA SendResponseTypes ==
    ASSUME TypeOK, RegisteredChannelIsFresh,
           NEW r \in ReqIds, NEW d \in Buffers, SendResponse(r, d)
    PROVE  /\ responses' \in [ReqIds -> Calls \cup {NoCall}]
           /\ respChan' \in [Calls -> Channels]
  <1>1. /\ responses' = [responses EXCEPT ![r] = NoCall]
        /\ respChan' = [c \in Calls |-> IF c = responses[r]
                                        THEN [buf |-> d, closed |-> TRUE]
                                        ELSE respChan[c]]
    BY SendResponseEffect
  <1> QED BY <1>1, ChannelTypes DEF TypeOK

-----------------------------------------------------------------------------
LEMMA InitIInv == Init => IInv
  <1> SUFFICES ASSUME Init PROVE IInv
    OBVIOUS
  <1> USE ClientAssumption, FrameAssumption DEF Init, ClientAssumption
  <1>1. TypeOK
    <2>1. reconnectInFlight \in BOOLEAN /\ connected \in BOOLEAN /\ released \in BOOLEAN
      OBVIOUS
    <2> QED BY <2>1, ChannelTypes DEF TypeOK, CallPcs, ReconnectPcs
  <1>2. ChannelInv
    BY DEF ChannelInv, RegisteredChannelIsFresh, Registered, IdleChannelIsFresh,
           NoOrphanedWaiter, NoEntryOutlivesItsCall
  <1>3. OneReconnectGoroutine
    BY DEF OneReconnectGoroutine
  <1> QED BY <1>1, <1>2, <1>3 DEF IInv

-----------------------------------------------------------------------------
(* Type correctness is preserved.                                          *)
LEMMA NextTypeOK == IInv /\ [Next]_vars => TypeOK'
  <1> SUFFICES ASSUME IInv, [Next]_vars PROVE TypeOK'
    OBVIOUS
  <1> USE ClientAssumption, FrameAssumption DEF ClientAssumption, CallPcs, ReconnectPcs, Ends, Goto, End
  <1>0. TypeOK /\ RegisteredChannelIsFresh BY DEF IInv, ChannelInv
  <1>d. <<>> \in Buffers /\ <<"ok">> \in Buffers /\ <<"error">> \in Buffers BY DEF Buffers, Outcomes
  <1>1. ASSUME NEW c \in Calls, StoreResponse(c) PROVE TypeOK'
    BY <1>0, <1>1 DEF TypeOK, StoreResponse, timeoutVars, handlerVars, closeVars, historyVars
  <1>2. ASSUME NEW c \in Calls, SendMessage(c) PROVE TypeOK'
    BY <1>0, <1>2 DEF TypeOK, SendMessage, mapVars, timeoutVars, handlerVars, closeVars
  <1>3. ASSUME NEW c \in Calls, SendFailed(c) PROVE TypeOK'
    <2>1. SendResponse(ReqId[c], <<>>) /\ ReqId[c] \in ReqIds BY <1>3 DEF SendFailed
    <2>2. responses' \in [ReqIds -> Calls \cup {NoCall}] /\ respChan' \in [Calls -> Channels]
      BY <1>0, <1>d, <2>1, SendResponseTypes
    <2> QED BY <1>0, <1>3, <2>2
    DEF TypeOK, SendFailed, timeoutVars, handlerVars, closeVars, historyVars
  <1>4. ASSUME NEW c \in Calls, Expire(c) PROVE TypeOK'
    BY <1>0, <1>4 DEF TypeOK, Expire, mapVars, timeoutVars, handlerVars, closeVars, historyVars
  <1>5. ASSUME NEW c \in Calls, CancelRequest(c) PROVE TypeOK'
    <2>1. SendResponse(ReqId[c], <<>>) /\ ReqId[c] \in ReqIds BY <1>5 DEF CancelRequest
    <2>2. responses' \in [ReqIds -> Calls \cup {NoCall}] /\ respChan' \in [Calls -> Channels]
      BY <1>0, <1>d, <2>1, SendResponseTypes
    <2> QED BY <1>0, <1>5, <2>2
    DEF TypeOK, CancelRequest, timeoutVars, handlerVars, closeVars, historyVars
  <1>6. ASSUME NEW c \in Calls, Receive(c) PROVE TypeOK'
    BY <1>0, <1>6 DEF TypeOK, Receive, mapVars, timeoutVars, handlerVars, closeVars, historyVars
  <1>7. ASSUME NEW c \in Calls, NotifyRequestTimeout(c) PROVE TypeOK'
    BY <1>0, <1>7 DEF TypeOK, NotifyRequestTimeout, mapVars, handlerVars, closeVars, historyVars
  <1>8. ASSUME NEW c \in Calls, StartReconnect(c) PROVE TypeOK'
    BY <1>0, <1>8 DEF TypeOK, StartReconnect, mapVars, handlerVars, closeVars, historyVars
  <1>9. ASSUME NEW c \in Calls, ReconnectReturns(c) PROVE TypeOK'
    <2>1. connected' \in BOOLEAN BY <1>0, <1>9 DEF TypeOK, ReconnectReturns
    <2>2. reconnectPc' \in [Calls -> ReconnectPcs] BY <1>0, <1>9 DEF TypeOK, ReconnectReturns
    <2> QED BY <1>0, <1>9, <2>1, <2>2 DEF TypeOK, ReconnectReturns, callVars, mapVars, handlerVars, historyVars
  <1>10. ASSUME NEW c \in Calls, ResetTimeouts(c) PROVE TypeOK'
    BY <1>0, <1>10 DEF TypeOK, ResetTimeouts, callVars, mapVars, handlerVars, closeVars
  <1>11. ASSUME NEW c \in Calls, ReleaseReconnect(c) PROVE TypeOK'
    BY <1>0, <1>11 DEF TypeOK, ReleaseReconnect, callVars, mapVars, handlerVars, closeVars, historyVars
  <1>12. ASSUME NEW h \in Handlers, NEW f \in Frames, Deliver(h, f) PROVE TypeOK'
    <2>1. answers' \in [Calls -> SUBSET {"ok", "error"}]
      <3>1. CASE f.kind = "reply"
        BY <1>0, <1>12, <3>1 DEF TypeOK, Deliver, Frames, Replies
      <3> QED BY <1>0, <1>12, <3>1 DEF TypeOK, Deliver
    <2> QED BY <1>0, <1>12, <2>1
    DEF TypeOK, Deliver, callVars, mapVars, timeoutVars, closeVars
  <1>13. ASSUME NEW h \in Handlers, ReadResetsTimeouts(h) PROVE TypeOK'
    BY <1>0, <1>13 DEF TypeOK, ReadResetsTimeouts, callVars, mapVars, closeVars, historyVars
  <1>14. ASSUME NEW h \in Handlers, ReadDispatch(h) PROVE TypeOK'
    <2>1. responses' \in [ReqIds -> Calls \cup {NoCall}] /\ respChan' \in [Calls -> Channels]
      <3>1. CASE handler[h].kind = "reply"
        <4>1. handler[h] \in Frames BY <1>0, <1>14 DEF TypeOK, ReadDispatch
        <4>2. handler[h] \in Replies BY <3>1, <4>1 DEF Frames
        <4>3. ReqId[handler[h].call] \in ReqIds /\ <<handler[h].status>> \in Buffers
          BY <4>2 DEF Replies, Buffers, Outcomes
        <4>4. SendResponse(ReqId[handler[h].call], <<handler[h].status>>)
          BY <1>14, <3>1 DEF ReadDispatch
        <4> QED BY <1>0, <4>3, <4>4, SendResponseTypes
      <3>2. CASE handler[h].kind # "reply"
        BY <1>0, <1>14, <3>2 DEF ReadDispatch, TypeOK, mapVars
      <3> QED BY <3>1, <3>2
    <2> QED BY <1>0, <1>14, <2>1
    DEF TypeOK, ReadDispatch, callVars, mapVars, timeoutVars, closeVars, historyVars
  <1>15. ASSUME Connect PROVE TypeOK'
    <2>1. connected' \in BOOLEAN /\ closePc' \in {"open", "released", "closed"}
      BY <1>0, <1>15 DEF TypeOK, Connect
    <2> QED BY <1>0, <1>15, <2>1 DEF TypeOK, Connect, callVars, mapVars, timeoutVars, handlerVars, historyVars
  <1>16. ASSUME CloseReleases PROVE TypeOK'
    <2>1. respChan' \in [Calls -> Channels]
      BY <1>0, <1>16, ChannelTypes DEF TypeOK, CloseReleases
    <2>2. responses' \in [ReqIds -> Calls \cup {NoCall}]
      BY <1>16 DEF CloseReleases
    <2> QED BY <1>0, <1>16, <2>1, <2>2 DEF TypeOK, CloseReleases, callVars, timeoutVars, handlerVars
  <1>17. ASSUME CloseTransport PROVE TypeOK'
    BY <1>0, <1>17 DEF TypeOK, CloseTransport, callVars, mapVars, timeoutVars, handlerVars, historyVars
  <1>18. ASSUME UNCHANGED vars PROVE TypeOK'
    BY <1>0, <1>18
    DEF TypeOK, vars, callVars, mapVars, timeoutVars, handlerVars, closeVars, historyVars
  <1> QED
    BY <1>1, <1>2, <1>3, <1>4, <1>5, <1>6, <1>7, <1>8, <1>9, <1>10, <1>11, <1>12, <1>13, <1>14,
       <1>15, <1>16, <1>17, <1>18
    DEF Next, HandleRequestStep, ReconnectStep, ReadStep

-----------------------------------------------------------------------------
(* How sendResponse moves the map and the channels, seen from each call:   *)
(* no call is stored that was not, a call that was stored either still is  *)
(* or finds its channel closed, and only a stored channel is written.      *)
LEMMA SendResponseChannels ==
    ASSUME TypeOK, RegisteredChannelIsFresh,
           NEW r \in ReqIds, NEW d \in Buffers, SendResponse(r, d)
    PROVE  /\ RegisteredChannelIsFresh'
           /\ responses'[r] = NoCall
           /\ \A c \in Calls :
                /\ responses'[ReqId[c]] = c => responses[ReqId[c]] = c
                /\ responses[ReqId[c]] = c => responses'[ReqId[c]] = c \/ respChan'[c].closed
                /\ respChan[c].closed => respChan'[c].closed
                /\ respChan'[c] # respChan[c] => responses[ReqId[c]] = c
  <1> USE ClientAssumption DEF ClientAssumption
  <1>1. responses \in [ReqIds -> Calls \cup {NoCall}]
    BY DEF TypeOK
  <1>2. /\ responses' = [responses EXCEPT ![r] = NoCall]
        /\ respChan' = [c \in Calls |-> IF c = responses[r]
                                        THEN [buf |-> d, closed |-> TRUE]
                                        ELSE respChan[c]]
    BY SendResponseEffect
  <1>3. \A q \in ReqIds : responses[q] # NoCall =>
            /\ responses[q] \in Calls
            /\ respChan[responses[q]] = Fresh
            /\ ReqId[responses[q]] = q
    BY <1>1 DEF RegisteredChannelIsFresh, Registered
  <1>4. \A q \in ReqIds : responses'[q] # NoCall => responses'[q] = responses[q] /\ q # r
    BY <1>1, <1>2
  <1>5. RegisteredChannelIsFresh'
    <2> SUFFICES ASSUME NEW q \in ReqIds, responses'[q] # NoCall
                 PROVE  respChan'[responses'[q]] = Fresh /\ ReqId[responses'[q]] = q
      BY DEF RegisteredChannelIsFresh, Registered, Fresh
    <2>1. responses'[q] = responses[q] /\ q # r BY <1>4
    <2>2. responses[q] \in Calls /\ respChan[responses[q]] = Fresh /\ ReqId[responses[q]] = q
      BY <1>3, <2>1
    <2>3. responses[q] # responses[r] BY <1>3, <2>1, <2>2
    <2> QED BY <1>2, <2>1, <2>2, <2>3
  <1>6. ASSUME NEW c \in Calls
        PROVE  /\ responses'[ReqId[c]] = c => responses[ReqId[c]] = c
               /\ responses[ReqId[c]] = c => responses'[ReqId[c]] = c \/ respChan'[c].closed
               /\ respChan[c].closed => respChan'[c].closed
               /\ respChan'[c] # respChan[c] => responses[ReqId[c]] = c
    <2>1. ReqId[c] \in ReqIds /\ c # NoCall OBVIOUS
    <2>2. CASE c = responses[r]
      BY <1>1, <1>2, <1>3, <2>1, <2>2
    <2>3. CASE c # responses[r]
      BY <1>1, <1>2, <2>1, <2>3
    <2> QED BY <2>2, <2>3
  <1> QED BY <1>1, <1>2, <1>5, <1>6

(* The invariants of the map and the channels are preserved.               *)
LEMMA NextChannelInv == IInv /\ [Next]_vars => ChannelInv'
  <1> SUFFICES ASSUME IInv, [Next]_vars PROVE ChannelInv'
    OBVIOUS
  <1> USE ClientAssumption DEF ClientAssumption
  <1>0. TypeOK /\ ChannelInv /\ RegisteredChannelIsFresh BY DEF IInv, ChannelInv
  <1>d. <<>> \in Buffers /\ <<"ok">> \in Buffers /\ <<"error">> \in Buffers
    BY DEF Buffers, Outcomes
  <1>u. ASSUME UNCHANGED <<pc, responses, respChan>> PROVE ChannelInv'
    BY <1>0, <1>u
    DEF ChannelInv, RegisteredChannelIsFresh, Registered, IdleChannelIsFresh, NoOrphanedWaiter,
        NoEntryOutlivesItsCall
  \* A step of a call between two places where its channel is treated alike.
  <1>g. ASSUME NEW c \in Calls, NEW where \in CallPcs, Goto(c, where), UNCHANGED mapVars,
               \/ pc[c] \in {"stored", "waiting"} /\ where \in {"sendFailed", "waiting", "expired"}
               \/ pc[c] \in {"notify", "cas"} /\ where = "cas"
        PROVE  ChannelInv'
    BY <1>0, <1>g
    DEF TypeOK, Goto, mapVars, ChannelInv, RegisteredChannelIsFresh, Registered,
        IdleChannelIsFresh, NoOrphanedWaiter, NoEntryOutlivesItsCall
  \* A step of a call that ends it, its channel being out of the map already.
  <1>e. ASSUME NEW c \in Calls, NEW how \in Ends, End(c, how), UNCHANGED mapVars,
               responses[ReqId[c]] # c
        PROVE  ChannelInv'
    BY <1>0, <1>e
    DEF TypeOK, End, mapVars, ChannelInv, RegisteredChannelIsFresh, Registered,
        IdleChannelIsFresh, NoOrphanedWaiter, NoEntryOutlivesItsCall
  \* A step that sends on, or closes, the channel stored under an identifier.
  <1>s. ASSUME NEW r \in ReqIds, NEW d \in Buffers, SendResponse(r, d),
               \/ UNCHANGED pc
               \/ \E c \in Calls : /\ r = ReqId[c]
                                   /\ pc[c] # "idle"
                                   /\ \E where \in {"notify", "done"} :
                                         pc' = [pc EXCEPT ![c] = where]
        PROVE  ChannelInv'
    <2>1. /\ RegisteredChannelIsFresh'
          /\ responses'[r] = NoCall
          /\ \A c \in Calls :
               /\ responses'[ReqId[c]] = c => responses[ReqId[c]] = c
               /\ responses[ReqId[c]] = c => responses'[ReqId[c]] = c \/ respChan'[c].closed
               /\ respChan[c].closed => respChan'[c].closed
               /\ respChan'[c] # respChan[c] => responses[ReqId[c]] = c
      BY <1>0, <1>s, SendResponseChannels
    <2>2. pc \in [Calls -> CallPcs] BY <1>0 DEF TypeOK
    <2>3. ASSUME NEW c \in Calls PROVE
            \/ pc'[c] = pc[c]
            \/ pc[c] # "idle" /\ pc'[c] \in {"notify", "done"} /\ responses'[ReqId[c]] # c
      BY <1>s, <2>1, <2>2
    <2>4. IdleChannelIsFresh'
      BY <1>0, <2>1, <2>3 DEF ChannelInv, IdleChannelIsFresh
    <2>5. NoOrphanedWaiter'
      BY <1>0, <2>1, <2>3 DEF ChannelInv, NoOrphanedWaiter
    <2>6. NoEntryOutlivesItsCall'
      BY <1>0, <2>1, <2>3 DEF ChannelInv, NoEntryOutlivesItsCall
    <2> QED BY <2>1, <2>4, <2>5, <2>6 DEF ChannelInv
  <1>1. ASSUME NEW c \in Calls, StoreResponse(c) PROVE ChannelInv'
    <2>1. pc[c] = "idle" /\ respChan[c] = Fresh /\ responses[ReqId[c]] # c /\ UNCHANGED respChan
      BY <1>0, <1>1 DEF StoreResponse, ChannelInv, IdleChannelIsFresh
    <2>2. CASE responses[ReqId[c]] # NoCall
      BY <1>1, <1>e, <2>1, <2>2 DEF StoreResponse, Ends, mapVars
    <2>3. CASE responses[ReqId[c]] = NoCall
      <3>1. /\ responses' = [responses EXCEPT ![ReqId[c]] = c]
            /\ pc' = [pc EXCEPT ![c] = "stored"]
        BY <1>1, <2>3 DEF StoreResponse, Goto
      <3>2. pc \in [Calls -> CallPcs] /\ responses \in [ReqIds -> Calls \cup {NoCall}]
        BY <1>0 DEF TypeOK
      <3>3. RegisteredChannelIsFresh'
        BY <1>0, <2>1, <3>1, <3>2 DEF RegisteredChannelIsFresh, Registered
      <3>4. IdleChannelIsFresh'
        BY <1>0, <2>1, <3>1, <3>2 DEF ChannelInv, IdleChannelIsFresh
      <3>5. NoOrphanedWaiter'
        BY <1>0, <2>1, <2>3, <3>1, <3>2 DEF ChannelInv, NoOrphanedWaiter
      <3>6. NoEntryOutlivesItsCall'
        BY <1>0, <2>1, <3>1, <3>2 DEF ChannelInv, NoEntryOutlivesItsCall
      <3> QED BY <3>3, <3>4, <3>5, <3>6 DEF ChannelInv
    <2> QED BY <2>2, <2>3
  <1>2. ASSUME NEW c \in Calls, SendMessage(c) PROVE ChannelInv'
    BY <1>2, <1>g DEF SendMessage, CallPcs
  <1>3. ASSUME NEW c \in Calls, SendFailed(c) PROVE ChannelInv'
    BY <1>d, <1>s, <1>3 DEF SendFailed, End
  <1>4. ASSUME NEW c \in Calls, Expire(c) PROVE ChannelInv'
    BY <1>4, <1>g DEF Expire, CallPcs
  <1>5. ASSUME NEW c \in Calls, CancelRequest(c) PROVE ChannelInv'
    BY <1>d, <1>s, <1>5 DEF CancelRequest, Goto
  <1>6. ASSUME NEW c \in Calls, Receive(c) PROVE ChannelInv'
    <2>1. respChan[c] # Fresh BY <1>6 DEF Receive, Fresh
    <2>2. responses[ReqId[c]] # c
      BY <1>0, <2>1 DEF TypeOK, RegisteredChannelIsFresh, Registered
    <2> QED BY <1>6, <1>e, <2>2 DEF Receive
  <1>7. ASSUME NEW c \in Calls, NotifyRequestTimeout(c) PROVE ChannelInv'
    <2>1. responses[ReqId[c]] # c
      BY <1>0, <1>7 DEF NotifyRequestTimeout, ChannelInv, NoEntryOutlivesItsCall
    <2> QED BY <1>7, <1>g, <1>e, <2>1 DEF NotifyRequestTimeout, CallPcs, Ends
  <1>8. ASSUME NEW c \in Calls, StartReconnect(c) PROVE ChannelInv'
    <2>1. responses[ReqId[c]] # c
      BY <1>0, <1>8 DEF StartReconnect, ChannelInv, NoEntryOutlivesItsCall
    <2> QED BY <1>8, <1>e, <2>1 DEF StartReconnect, Ends
  <1>9. ASSUME NEW c \in Calls, ReconnectStep(c) PROVE ChannelInv'
    BY <1>9, <1>u
    DEF ReconnectStep, ReconnectReturns, ResetTimeouts, ReleaseReconnect, callVars, mapVars
  <1>10. ASSUME NEW h \in Handlers, NEW f \in Frames, Deliver(h, f) PROVE ChannelInv'
    BY <1>10, <1>u DEF Deliver, callVars, mapVars
  <1>11. ASSUME NEW h \in Handlers, ReadResetsTimeouts(h) PROVE ChannelInv'
    BY <1>11, <1>u DEF ReadResetsTimeouts, callVars, mapVars
  <1>12. ASSUME NEW h \in Handlers, ReadDispatch(h) PROVE ChannelInv'
    <2>1. CASE handler[h].kind = "reply"
      <3>1. handler[h] \in Replies
        BY <1>0, <1>12, <2>1 DEF TypeOK, ReadDispatch, Frames
      <3>2. ReqId[handler[h].call] \in ReqIds /\ <<handler[h].status>> \in Buffers
        BY <3>1 DEF Replies, Buffers, Outcomes
      <3>3. SendResponse(ReqId[handler[h].call], <<handler[h].status>>) /\ UNCHANGED pc
        BY <1>12, <2>1 DEF ReadDispatch, callVars
      <3> QED BY <1>s, <3>2, <3>3
    <2>2. CASE handler[h].kind # "reply"
      BY <1>12, <1>u, <2>2 DEF ReadDispatch, callVars, mapVars
    <2> QED BY <2>1, <2>2
  <1>13. ASSUME Connect \/ CloseTransport PROVE ChannelInv'
    BY <1>13, <1>u DEF Connect, CloseTransport, callVars, mapVars
  <1>14. ASSUME CloseReleases PROVE ChannelInv'
    <2>1. /\ UNCHANGED pc
          /\ responses' = [r \in ReqIds |-> NoCall]
          /\ respChan' = [c \in Calls |-> IF \E r \in Registered : responses[r] = c
                                         THEN [respChan[c] EXCEPT !.closed = TRUE]
                                         ELSE respChan[c]]
      BY <1>14 DEF CloseReleases, callVars
    <2>2. ASSUME NEW c \in Calls, responses[ReqId[c]] = c PROVE respChan'[c].closed
      <3>1. ReqId[c] \in Registered BY <2>2 DEF Registered
      <3>2. respChan[c] = Fresh BY <1>0, <2>2, <3>1 DEF RegisteredChannelIsFresh
      <3> QED BY <2>1, <2>2, <3>1, <3>2 DEF Fresh
    <2>3. ASSUME NEW c \in Calls, respChan[c].closed PROVE respChan'[c].closed
      <3>1. \A r \in Registered : responses[r] # c
        BY <1>0, <2>3 DEF RegisteredChannelIsFresh, Fresh
      <3> QED BY <2>1, <2>3, <3>1
    <2>4. ASSUME NEW c \in Calls, pc[c] = "idle" PROVE respChan'[c] = Fresh
      <3>1. respChan[c] = Fresh /\ responses[ReqId[c]] # c
        BY <1>0, <2>4 DEF ChannelInv, IdleChannelIsFresh
      <3>2. \A r \in Registered : responses[r] # c
        BY <1>0, <3>1 DEF RegisteredChannelIsFresh
      <3> QED BY <2>1, <3>1, <3>2
    <2>5. RegisteredChannelIsFresh'
      BY <2>1 DEF RegisteredChannelIsFresh, Registered
    <2>6. IdleChannelIsFresh'
      BY <2>1, <2>4 DEF IdleChannelIsFresh
    <2>7. NoOrphanedWaiter'
      BY <1>0, <2>1, <2>2, <2>3 DEF ChannelInv, NoOrphanedWaiter
    <2>8. NoEntryOutlivesItsCall'
      BY <2>1 DEF NoEntryOutlivesItsCall
    <2> QED BY <2>5, <2>6, <2>7, <2>8 DEF ChannelInv
  <1>15. ASSUME UNCHANGED vars PROVE ChannelInv'
    BY <1>15, <1>u DEF vars, callVars, mapVars
  <1> QED
    BY <1>1, <1>2, <1>3, <1>4, <1>5, <1>6, <1>7, <1>8, <1>9, <1>10, <1>11, <1>12, <1>13, <1>14, <1>15
    DEF Next, HandleRequestStep, ReadStep

-----------------------------------------------------------------------------
(* The invariant of the reconnect goroutine is preserved.                  *)
LEMMA NextOneReconnect == IInv /\ [Next]_vars => OneReconnectGoroutine'
  <1> SUFFICES ASSUME IInv, [Next]_vars PROVE OneReconnectGoroutine'
    OBVIOUS
  <1>0. OneReconnectGoroutine /\ reconnectPc \in [Calls -> ReconnectPcs]
    BY DEF IInv, TypeOK
  <1>u. ASSUME UNCHANGED <<reconnectInFlight, reconnectPc>> PROVE OneReconnectGoroutine'
    BY <1>0, <1>u DEF OneReconnectGoroutine
  <1>1. ASSUME NEW c \in Calls, StartReconnect(c) PROVE OneReconnectGoroutine'
    BY <1>0, <1>1 DEF StartReconnect, OneReconnectGoroutine, ReconnectPcs
  <1>2. ASSUME NEW c \in Calls, ReconnectReturns(c) PROVE OneReconnectGoroutine'
    BY <1>0, <1>2 DEF ReconnectReturns, OneReconnectGoroutine, ReconnectPcs
  <1>3. ASSUME NEW c \in Calls, ResetTimeouts(c) PROVE OneReconnectGoroutine'
    BY <1>0, <1>3 DEF ResetTimeouts, OneReconnectGoroutine, ReconnectPcs
  <1>4. ASSUME NEW c \in Calls, ReleaseReconnect(c) PROVE OneReconnectGoroutine'
    BY <1>0, <1>4 DEF ReleaseReconnect, OneReconnectGoroutine, ReconnectPcs
  <1>5. ASSUME NEW c \in Calls,
               \/ StoreResponse(c) \/ SendMessage(c) \/ SendFailed(c) \/ Expire(c)
               \/ CancelRequest(c) \/ Receive(c) \/ NotifyRequestTimeout(c)
        PROVE  OneReconnectGoroutine'
    BY <1>5, <1>u
    DEF StoreResponse, SendMessage, SendFailed, Expire, CancelRequest, Receive,
        NotifyRequestTimeout, timeoutVars
  <1>6. ASSUME NEW h \in Handlers, ReadStep(h) \/ \E f \in Frames : Deliver(h, f)
        PROVE  OneReconnectGoroutine'
    BY <1>6, <1>u DEF ReadStep, ReadResetsTimeouts, ReadDispatch, Deliver, timeoutVars
  <1>7. ASSUME Connect \/ CloseReleases \/ CloseTransport PROVE OneReconnectGoroutine'
    BY <1>7, <1>u DEF Connect, CloseReleases, CloseTransport, timeoutVars
  <1>8. ASSUME UNCHANGED vars PROVE OneReconnectGoroutine'
    BY <1>8, <1>u DEF vars, timeoutVars
  <1> QED
    BY <1>1, <1>2, <1>3, <1>4, <1>5, <1>6, <1>7, <1>8 DEF Next, HandleRequestStep, ReconnectStep

-----------------------------------------------------------------------------
(* The strengthened invariant holds in every reachable state.              *)
LEMMA InductiveInvariant == Spec => []IInv
  <1>1. Init => IInv BY InitIInv
  <1>2. IInv /\ [Next]_vars => IInv'
    BY NextTypeOK, NextChannelInv, NextOneReconnect DEF IInv
  <1> QED BY <1>1, <1>2, PTL DEF Spec

(* The state of the client is well typed; in particular the buffer of a    *)
(* response channel never holds more than the one Outcome it has room for. *)
THEOREM TypeCorrect == Spec => []TypeOK
  BY InductiveInvariant, PTL DEF IInv

(* sendResponse and Close never close or send on a closed channel, and     *)
(* never block on a full one while they hold respMtx.                      *)
THEOREM ChannelsStayFresh == Spec => []RegisteredChannelIsFresh
  <1>1. IInv => RegisteredChannelIsFresh BY DEF IInv, ChannelInv
  <1> QED BY <1>1, InductiveInvariant, PTL

(* No HandleRequest waits on a channel that nobody can reach any more.     *)
THEOREM WaitersStayReachable == Spec => []NoOrphanedWaiter
  <1>1. IInv => NoOrphanedWaiter BY DEF IInv, ChannelInv
  <1> QED BY <1>1, InductiveInvariant, PTL

(* The map of pending requests does not leak: a HandleRequest that has     *)
(* left its select has no entry.                                           *)
THEOREM NoLeakedEntry == Spec => []NoEntryOutlivesItsCall
  <1>1. IInv => NoEntryOutlivesItsCall BY DEF IInv, ChannelInv
  <1> QED BY <1>1, InductiveInvariant, PTL

(* At most one reconnect goroutine exists, exactly while the flag is set.  *)
THEOREM ReconnectIsExclusive == Spec => []OneReconnectGoroutine
  <1>1. IInv => OneReconnectGoroutine BY DEF IInv
  <1> QED BY <1>1, InductiveInvariant, PTL

-----------------------------------------------------------------------------
(* WebsocketClient implements RequestReply, when no two calls share an     *)
(* identifier.  Otherwise it does not: the reply to one call may end       *)
(* another one (run client_same_id has such calls).                        *)
DistinctIds == \A c, d \in Calls : ReqId[c] = ReqId[d] => c = d

(* A call has an outcome exactly when it has returned. *)
OutcomeInv == \A c \in Calls : outcome[c] = "none" <=> pc[c] # "done"

(* A frame that a readHandler works on is a reply the service gave, and    *)
(* the service answers only what was sent.                                 *)
FrameInv ==
    /\ \A h \in Handlers : handler[h] # NoFrame /\ handler[h].kind = "reply" =>
                              handler[h].status \in answers[handler[h].call]
    /\ \A c \in received : pc[c] # "idle"

(* An Outcome in a channel was given to its own call; a channel that is    *)
(* closed without one, while its call may still wait, was closed by Close. *)
BufferInv ==
    \A c \in Calls :
        /\ \A o \in Outcomes : respChan[c].buf = <<o>> => o \in answers[c]
        /\ pc[c] \in {"stored", "sendFailed", "waiting"} /\ respChan[c].closed /\ respChan[c].buf = <<>> => released

AnswerInv == OutcomeInv /\ FrameInv /\ BufferInv

(* Without shared identifiers, sendResponse acts on the channel of the     *)
(* request's own call, or on none.                                         *)
LEMMA SendResponseIsOwn ==
    ASSUME DistinctIds, TypeOK, RegisteredChannelIsFresh,
           NEW c \in Calls, NEW d \in Buffers, SendResponse(ReqId[c], d)
    PROVE  /\ \A e \in Calls \ {c} : respChan'[e] = respChan[e]
           /\ respChan'[c] = respChan[c] \/ respChan'[c] = [buf |-> d, closed |-> TRUE]
  <1> USE ClientAssumption DEF ClientAssumption
  <1>1. respChan' = [e \in Calls |-> IF e = responses[ReqId[c]] THEN [buf |-> d, closed |-> TRUE] ELSE respChan[e]]
    BY SendResponseEffect
  <1>2. responses[ReqId[c]] \in Calls => responses[ReqId[c]] = c
    BY DEF DistinctIds, RegisteredChannelIsFresh, Registered
  <1> QED BY <1>1, <1>2

LEMMA InitAnswerInv == Init => AnswerInv
  <1> SUFFICES ASSUME Init PROVE AnswerInv
    OBVIOUS
  <1>1. OutcomeInv BY DEF Init, OutcomeInv
  <1>2. FrameInv BY DEF Init, FrameInv
  <1>3. \A c \in Calls : pc[c] = "idle" /\ respChan[c].buf = <<>> BY DEF Init, Fresh
  <1>4. BufferInv BY <1>3 DEF BufferInv
  <1> QED BY <1>1, <1>2, <1>4 DEF AnswerInv

(* An outcome is set by the step that ends the call. *)
LEMMA NextOutcomeInv == IInv /\ OutcomeInv /\ [Next]_vars => OutcomeInv'
  <1> SUFFICES ASSUME IInv, OutcomeInv, [Next]_vars PROVE OutcomeInv'
    OBVIOUS
  <1>0. pc \in [Calls -> CallPcs] /\ outcome \in [Calls -> Ends \cup {"none"}] BY DEF IInv, TypeOK
  <1>e. ASSUME NEW c \in Calls, NEW how \in Ends, End(c, how) PROVE OutcomeInv'
    BY <1>0, <1>e DEF OutcomeInv, End, Ends
  <1>g. ASSUME NEW c \in Calls, NEW where \in CallPcs \ {"done"}, pc[c] # "done", Goto(c, where) PROVE OutcomeInv'
    BY <1>0, <1>g DEF OutcomeInv, Goto
  <1>u. ASSUME UNCHANGED callVars PROVE OutcomeInv'
    BY <1>u DEF OutcomeInv, callVars
  <1>1. ASSUME NEW c \in Calls, StoreResponse(c) \/ SendMessage(c) \/ HandleRequestStep(c) PROVE OutcomeInv'
    <2> USE <1>e, <1>g DEF Ends, CallPcs
    <2>1. CASE StoreResponse(c) BY <2>1 DEF StoreResponse
    <2>2. CASE SendMessage(c) BY <2>2 DEF SendMessage
    <2>3. CASE SendFailed(c) BY <2>3 DEF SendFailed
    <2>4. CASE Expire(c) BY <2>4 DEF Expire
    <2>5. CASE CancelRequest(c) BY <2>5 DEF CancelRequest
    <2>6. CASE Receive(c) BY <2>6 DEF Receive
    <2>7. CASE NotifyRequestTimeout(c) BY <2>7 DEF NotifyRequestTimeout
    <2>8. CASE StartReconnect(c) BY <2>8 DEF StartReconnect
    <2> QED BY <1>1, <2>1, <2>2, <2>3, <2>4, <2>5, <2>6, <2>7, <2>8 DEF HandleRequestStep
  <1>2. ASSUME NEW c \in Calls, ReconnectStep(c) PROVE OutcomeInv'
    BY <1>2, <1>u DEF ReconnectStep, ReconnectReturns, ResetTimeouts, ReleaseReconnect
  <1>3. ASSUME NEW h \in Handlers, ReadStep(h) \/ \E f \in Frames : Deliver(h, f) PROVE OutcomeInv'
    BY <1>3, <1>u DEF ReadStep, ReadResetsTimeouts, ReadDispatch, Deliver
  <1>4. CASE Connect \/ CloseReleases \/ CloseTransport BY <1>4, <1>u DEF Connect, CloseReleases, CloseTransport
  <1>5. CASE UNCHANGED vars BY <1>5, <1>u DEF vars
  <1> QED BY <1>1, <1>2, <1>3, <1>4, <1>5 DEF Next

(* Only calls that were begun are received, and answers are not taken back. *)
LEMMA NextFrameInv == IInv /\ FrameInv /\ [Next]_vars => FrameInv' /\ \A c \in Calls : answers[c] \subseteq answers'[c]
  <1> SUFFICES ASSUME IInv, FrameInv, [Next]_vars
               PROVE  FrameInv' /\ \A c \in Calls : answers[c] \subseteq answers'[c]
    OBVIOUS
  <1>0. /\ pc \in [Calls -> CallPcs] /\ answers \in [Calls -> SUBSET {"ok", "error"}]
        /\ handler \in [Handlers -> Frames \cup {NoFrame}] /\ received \subseteq Calls
    BY DEF IInv, TypeOK
  <1>m. ASSUME UNCHANGED <<handler, answers, received>>, \A c \in Calls : pc[c] # "idle" => pc'[c] # "idle"
        PROVE  FrameInv' /\ \A c \in Calls : answers[c] \subseteq answers'[c]
    BY <1>0, <1>m DEF FrameInv
  <1>1. ASSUME NEW c \in Calls, StoreResponse(c) \/ HandleRequestStep(c)
        PROVE  FrameInv' /\ \A d \in Calls : answers[d] \subseteq answers'[d]
    <2>1. UNCHANGED <<handler, answers, received>>
      BY <1>1 DEF StoreResponse, HandleRequestStep, SendFailed, Expire, CancelRequest, Receive,
                  NotifyRequestTimeout, StartReconnect, handlerVars, historyVars
    <2>2. \E where \in CallPcs \ {"idle"} : pc' = [pc EXCEPT ![c] = where]
      BY <1>1 DEF StoreResponse, HandleRequestStep, SendFailed, Expire, CancelRequest, Receive,
                  NotifyRequestTimeout, StartReconnect, Goto, End, CallPcs
    <2> QED BY <1>0, <1>m, <2>1, <2>2
  <1>2. ASSUME NEW c \in Calls, SendMessage(c)
        PROVE  FrameInv' /\ \A d \in Calls : answers[d] \subseteq answers'[d]
    <2>1. UNCHANGED <<handler, answers>> /\ received' \subseteq received \cup {c}
      BY <1>2 DEF SendMessage, handlerVars
    <2>2. \E where \in {"waiting", "sendFailed"} : pc' = [pc EXCEPT ![c] = where]
      BY <1>2 DEF SendMessage, Goto
    <2> QED BY <1>0, <2>1, <2>2 DEF FrameInv
  <1>3. ASSUME NEW h \in Handlers, NEW f \in Frames, Deliver(h, f)
        PROVE  FrameInv' /\ \A c \in Calls : answers[c] \subseteq answers'[c]
    <2>1. handler' = [handler EXCEPT ![h] = f] /\ UNCHANGED <<pc, received>> BY <1>3 DEF Deliver, callVars
    <2>2. CASE f.kind = "reply"
      <3>1. f.call \in Calls /\ f.status \in {"ok", "error"} BY <2>2 DEF Frames, Replies
      <3>2. answers' = [answers EXCEPT ![f.call] = @ \cup {f.status}] BY <1>3, <2>2 DEF Deliver
      <3>3. \A c \in Calls : answers[c] \subseteq answers'[c] BY <1>0, <3>1, <3>2
      <3>4. f.status \in answers'[f.call] BY <1>0, <3>1, <3>2
      <3>5. ASSUME NEW k \in Handlers, handler'[k] # NoFrame, handler'[k].kind = "reply"
            PROVE  handler'[k].status \in answers'[handler'[k].call]
        <4>1. CASE k = h BY <1>0, <2>1, <3>4, <4>1
        <4>2. CASE k # h
          <5>1. handler'[k] = handler[k] BY <1>0, <2>1, <4>2
          <5>2. handler[k].call \in Calls BY <1>0, <3>5, <5>1 DEF Frames, Replies
          <5> QED BY <3>3, <3>5, <5>1, <5>2 DEF FrameInv
        <4> QED BY <4>1, <4>2
      <3> QED BY <2>1, <3>3, <3>5 DEF FrameInv
    <2>3. CASE f.kind # "reply"
      BY <1>0, <1>3, <2>1, <2>3 DEF Deliver, FrameInv
    <2> QED BY <2>2, <2>3
  <1>4. ASSUME NEW h \in Handlers, ReadDispatch(h)
        PROVE  FrameInv' /\ \A c \in Calls : answers[c] \subseteq answers'[c]
    BY <1>0, <1>4 DEF ReadDispatch, callVars, historyVars, FrameInv
  <1>5. ASSUME \/ \E c \in Calls : ReconnectStep(c)
               \/ \E h \in Handlers : ReadResetsTimeouts(h)
               \/ Connect \/ CloseReleases \/ CloseTransport \/ UNCHANGED vars
        PROVE  FrameInv' /\ \A c \in Calls : answers[c] \subseteq answers'[c]
    <2>1. UNCHANGED <<handler, answers, received, pc>>
      BY <1>5 DEF ReconnectStep, ReconnectReturns, ResetTimeouts, ReleaseReconnect, ReadResetsTimeouts, Connect,
                  CloseReleases, CloseTransport, vars, callVars, handlerVars, historyVars
    <2> QED BY <1>m, <2>1
  <1> QED BY <1>1, <1>2, <1>3, <1>4, <1>5 DEF Next, HandleRequestStep, ReadStep

(* What a channel holds was given to its call. *)
LEMMA NextBufferInv ==
    ASSUME DistinctIds, IInv, AnswerInv, [Next]_vars
    PROVE  BufferInv'
  <1> USE ClientAssumption DEF ClientAssumption
  <1>0. TypeOK /\ RegisteredChannelIsFresh /\ BufferInv /\ FrameInv BY DEF IInv, ChannelInv, AnswerInv
  <1>1. \A c \in Calls : answers[c] \subseteq answers'[c]
    BY NextFrameInv DEF AnswerInv
  <1>2. pc \in [Calls -> CallPcs] BY <1>0 DEF TypeOK
  <1>3. <<>> \in Buffers /\ \A o \in Outcomes : <<o>> \in Buffers BY DEF Buffers
  \* No channel changes, and no call comes to wait that did not.
  <1>u. ASSUME UNCHANGED respChan, released => released',
               \A c \in Calls : pc'[c] \in {"stored", "sendFailed", "waiting"} =>
                                   pc[c] \in {"stored", "sendFailed", "waiting"} \/ respChan[c] = Fresh
        PROVE  BufferInv'
    BY <1>0, <1>1, <1>u DEF BufferInv, Fresh
  \* sendResponse, for a call that goes on, or with an Outcome that is the call's.
  <1>s. ASSUME NEW c \in Calls, NEW d \in Buffers, SendResponse(ReqId[c], d), released => released',
               \A e \in Calls : pc'[e] = pc[e] \/ (e = c /\ pc'[e] \notin {"stored", "sendFailed", "waiting"}),
               \/ d = <<>> /\ pc'[c] \notin {"stored", "sendFailed", "waiting"}
               \/ \E o \in answers[c] : d = <<o>>
        PROVE  BufferInv'
    <2>1. /\ \A e \in Calls \ {c} : respChan'[e] = respChan[e]
          /\ respChan'[c] = respChan[c] \/ respChan'[c] = [buf |-> d, closed |-> TRUE]
      BY <1>0, <1>s, SendResponseIsOwn
    <2>2. ASSUME NEW e \in Calls, NEW o \in Outcomes, respChan'[e].buf = <<o>> PROVE o \in answers'[e]
      BY <1>0, <1>1, <1>s, <2>1, <2>2 DEF BufferInv
    <2>3. ASSUME NEW e \in Calls, pc'[e] \in {"stored", "sendFailed", "waiting"},
                 respChan'[e].closed, respChan'[e].buf = <<>>
          PROVE  released'
      BY <1>0, <1>s, <2>1, <2>3 DEF BufferInv
    <2> QED BY <2>2, <2>3 DEF BufferInv
  <1>4. ASSUME NEW c \in Calls, StoreResponse(c) PROVE BufferInv'
    <2>1. respChan[c] = Fresh BY <1>4 DEF StoreResponse, IInv, ChannelInv, IdleChannelIsFresh
    <2> QED BY <1>2, <1>4, <1>u, <2>1 DEF StoreResponse, Goto, End, historyVars
  <1>5. ASSUME NEW c \in Calls, SendMessage(c) PROVE BufferInv'
    BY <1>2, <1>5, <1>u DEF SendMessage, Goto, mapVars
  <1>6. ASSUME NEW c \in Calls, SendFailed(c) PROVE BufferInv'
    BY <1>2, <1>3, <1>6, <1>s DEF SendFailed, End, historyVars
  <1>7. ASSUME NEW c \in Calls, CancelRequest(c) PROVE BufferInv'
    BY <1>2, <1>3, <1>7, <1>s DEF CancelRequest, Goto, historyVars
  <1>8. ASSUME NEW c \in Calls, Expire(c) \/ Receive(c) \/ NotifyRequestTimeout(c) \/ StartReconnect(c) PROVE BufferInv'
    <2>1. /\ UNCHANGED <<respChan, released>>
          /\ \E where \in {"expired", "done", "cas"} : pc' = [pc EXCEPT ![c] = where]
      BY <1>8 DEF Expire, Receive, NotifyRequestTimeout, StartReconnect, Goto, End, mapVars, historyVars
    <2> QED BY <1>2, <1>u, <2>1
  <1>9. ASSUME NEW h \in Handlers, ReadDispatch(h) PROVE BufferInv'
    <2>1. UNCHANGED <<pc, released>> BY <1>9 DEF ReadDispatch, callVars, historyVars
    <2>2. CASE handler[h].kind = "reply"
      <3>1. handler[h] # NoFrame BY <1>0, <1>9 DEF TypeOK, ReadDispatch
      <3>2. handler[h] \in Replies BY <1>0, <2>2, <3>1 DEF TypeOK, Frames
      <3>3. handler[h].call \in Calls /\ handler[h].status \in Outcomes BY <3>2 DEF Replies, Outcomes
      <3>4. handler[h].status \in answers[handler[h].call] BY <1>0, <2>2, <3>1 DEF FrameInv
      <3>5. SendResponse(ReqId[handler[h].call], <<handler[h].status>>) BY <1>9, <2>2 DEF ReadDispatch
      <3> QED BY <1>3, <1>s, <2>1, <3>3, <3>4, <3>5
    <2>3. CASE handler[h].kind # "reply" BY <1>9, <1>u, <2>1, <2>3 DEF ReadDispatch, mapVars
    <2> QED BY <2>2, <2>3
  <1>10. CASE CloseReleases
    <2>1. /\ released' /\ respChan' = [c \in Calls |-> IF \E r \in Registered : responses[r] = c
                                                       THEN [respChan[c] EXCEPT !.closed = TRUE] ELSE respChan[c]]
      BY <1>10 DEF CloseReleases
    <2>2. \A c \in Calls : respChan'[c].buf = respChan[c].buf BY <1>0, <2>1 DEF TypeOK, Channels
    <2> QED BY <1>0, <1>1, <2>1, <2>2 DEF BufferInv
  <1>11. ASSUME \/ \E c \in Calls : ReconnectStep(c)
                \/ \E h \in Handlers : ReadResetsTimeouts(h) \/ \E f \in Frames : Deliver(h, f)
                \/ Connect \/ CloseTransport \/ UNCHANGED vars
         PROVE  BufferInv'
    <2>1. UNCHANGED <<respChan, released, pc>>
      BY <1>11 DEF ReconnectStep, ReconnectReturns, ResetTimeouts, ReleaseReconnect, ReadResetsTimeouts, Deliver,
                   Connect, CloseTransport, vars, callVars, mapVars, historyVars
    <2> QED BY <1>u, <2>1
  <1> QED BY <1>4, <1>5, <1>6, <1>7, <1>8, <1>9, <1>10, <1>11 DEF Next, HandleRequestStep, ReadStep


(* The initial states map to initial states. *)
LEMMA InitRefines == Init => RR!Init
  BY DEF Init, RR!Init, CallStatus

(* The status of a call moves as its program counter and its outcome do. *)
LEMMA EndSetsStatus ==
    ASSUME IInv, NEW c \in Calls, NEW how \in Ends, End(c, how)
    PROVE  CallStatus' = [CallStatus EXCEPT ![c] = how]
  BY DEF IInv, TypeOK, CallStatus, End, Ends

LEMMA GotoKeepsStatus ==
    ASSUME IInv, OutcomeInv, NEW c \in Calls, NEW where \in CallPcs \ {"idle", "done"}, Goto(c, where),
           pc[c] \notin {"idle", "stored", "done"}, where # "stored"
    PROVE  UNCHANGED CallStatus
  BY DEF IInv, TypeOK, CallStatus, Goto, OutcomeInv

(* A call that returns was pending, and what it returns is justified. *)
LEMMA EndRefines ==
    ASSUME IInv, OutcomeInv, NEW c \in Calls, NEW end \in Ends, End(c, end), pc[c] \notin {"idle", "stored", "done"},
           RR!Justified(c, end), UNCHANGED <<answers, released>>
    PROVE  RR!Next
  <1>1. CallStatus[c] = "pending" BY DEF OutcomeInv, CallStatus
  <1>2. CallStatus' = [CallStatus EXCEPT ![c] = end] BY EndSetsStatus
  <1>3. end \in RR!Ends BY DEF Ends, RR!Ends, RR!Failures
  <1> QED BY <1>1, <1>2, <1>3 DEF RR!Next, RR!Finish

(* What select received is an answer to this call, or the zero Outcome of  *)
(* a channel that Close closed.                                            *)
LEMMA ReceiveRefines ==
    ASSUME IInv, AnswerInv, NEW c \in Calls, Receive(c)
    PROVE  RR!Next
  <1>1. BufferInv /\ OutcomeInv /\ respChan[c] \in Channels BY DEF AnswerInv, IInv, TypeOK
  <1>2. PICK end \in Ends :
          /\ IF respChan[c].buf = <<"error">> THEN end = "serviceError"
             ELSE IF c \in NoBody THEN end = "nil"
             ELSE end = "parseError" \/ (respChan[c].buf = <<"ok">> /\ end = "nil")
          /\ End(c, end)
    BY DEF Receive
  <1>3. pc[c] = "waiting" /\ UNCHANGED <<answers, released>> BY DEF Receive, historyVars
  <1>4. respChan[c].buf \in {<<>>, <<"ok">>, <<"error">>} BY <1>1 DEF Channels, Buffers, Outcomes
  <1>5. respChan[c].buf = <<"ok">> => "ok" \in answers[c] BY <1>1 DEF BufferInv, Outcomes
  <1>6. respChan[c].buf = <<"error">> => "error" \in answers[c] BY <1>1 DEF BufferInv, Outcomes
  <1>7. respChan[c].buf = <<>> => released BY <1>1, <1>3 DEF BufferInv, Receive
  <1>8. RR!Justified(c, end)
    <2>1. CASE end = "nil"
      <3>1. respChan[c].buf = <<"ok">> \/ (c \in NoBody /\ respChan[c].buf # <<"error">>) BY <1>2, <2>1
      <3> QED BY <1>4, <1>5, <1>7, <2>1, <3>1 DEF RR!Justified
    <2>2. CASE end = "serviceError"
      <3>1. respChan[c].buf = <<"error">> BY <1>2, <2>2
      <3> QED BY <1>6, <2>2, <3>1 DEF RR!Justified
    <2>3. CASE end \notin {"nil", "serviceError"} BY <2>3 DEF RR!Justified
    <2> QED BY <2>1, <2>2, <2>3
  <1> QED BY <1>1, <1>2, <1>3, <1>8, EndRefines

(* Every step of the client is a step of RequestReply, or leaves what that *)
(* sees as it is.                                                          *)
LEMMA StepRefines == IInv /\ AnswerInv /\ [Next]_vars => [RR!Next]_(RR!vars)
  <1> SUFFICES ASSUME IInv, AnswerInv, [Next]_vars PROVE RR!Next \/ UNCHANGED RR!vars
    OBVIOUS
  <1>0. OutcomeInv /\ FrameInv BY DEF AnswerInv
  <1>u. ASSUME UNCHANGED <<pc, outcome, answers, released>> PROVE UNCHANGED RR!vars
    BY <1>u DEF RR!vars, CallStatus
  <1>j. \A c \in Calls, end \in Ends \ {"nil", "serviceError"} : RR!Justified(c, end)
    BY DEF RR!Justified
  <1>1. ASSUME NEW c \in Calls, StoreResponse(c) PROVE RR!Next
    <2>1. CallStatus[c] = "idle" /\ UNCHANGED <<answers, released>>
      BY <1>1 DEF StoreResponse, CallStatus, historyVars
    <2>2. CASE End(c, "duplicate")
      <3>1. CallStatus' = [CallStatus EXCEPT ![c] = "duplicate"] BY <2>2, EndSetsStatus DEF Ends
      <3> QED BY <2>1, <3>1 DEF RR!Next, RR!Refuse
    <2>3. CASE Goto(c, "stored")
      <3>1. CallStatus' = [CallStatus EXCEPT ![c] = "stored"]
        BY <1>0, <1>1, <2>3 DEF StoreResponse, Goto, CallStatus, IInv, TypeOK, OutcomeInv
      <3> QED BY <2>1, <3>1 DEF RR!Next, RR!Begin
    <2> QED BY <1>1, <2>2, <2>3 DEF StoreResponse
  <1>s. ASSUME NEW c \in Calls, SendMessage(c) PROVE RR!Next
    <2>1. pc[c] = "stored" /\ UNCHANGED <<answers, released>> BY <1>s DEF SendMessage
    <2>2. CallStatus[c] = "stored" BY <2>1 DEF CallStatus
    <2>3. PICK where \in {"waiting", "sendFailed"} : Goto(c, where) BY <1>s DEF SendMessage
    <2>4. CallStatus' = [CallStatus EXCEPT ![c] = "pending"]
      BY <1>0, <2>1, <2>3 DEF Goto, CallStatus, IInv, TypeOK, OutcomeInv
    <2> QED BY <2>1, <2>2, <2>4 DEF RR!Next, RR!Sent
  <1>2. ASSUME NEW c \in Calls, Expire(c) \/ CancelRequest(c) PROVE UNCHANGED RR!vars
    <2>1. UNCHANGED <<answers, released>> /\ pc[c] \notin {"idle", "stored", "done"}
      BY <1>2 DEF Expire, CancelRequest, historyVars
    <2>2. \E where \in CallPcs \ {"idle", "stored", "done"} : Goto(c, where)
      BY <1>2 DEF Expire, CancelRequest, CallPcs
    <2> QED BY <1>0, <2>1, <2>2, GotoKeepsStatus DEF RR!vars
  <1>3. ASSUME NEW c \in Calls, SendFailed(c) PROVE RR!Next
    BY <1>0, <1>3, <1>j, EndRefines DEF SendFailed, historyVars, Ends
  <1>4. ASSUME NEW c \in Calls, NotifyRequestTimeout(c) \/ StartReconnect(c) PROVE RR!Next \/ UNCHANGED RR!vars
    <2>1. UNCHANGED <<answers, released>> /\ pc[c] \notin {"idle", "stored", "done"}
      BY <1>4 DEF NotifyRequestTimeout, StartReconnect, historyVars
    <2>2. CASE End(c, "timeout") BY <1>0, <1>j, <2>1, <2>2, EndRefines DEF Ends
    <2>3. CASE Goto(c, "cas") BY <1>0, <2>1, <2>3, GotoKeepsStatus DEF RR!vars, CallPcs
    <2> QED BY <1>4, <2>2, <2>3 DEF NotifyRequestTimeout, StartReconnect
  <1>5. ASSUME NEW h \in Handlers, NEW f \in Frames, Deliver(h, f) PROVE RR!Next \/ UNCHANGED RR!vars
    <2>1. UNCHANGED <<pc, outcome, released>> /\ UNCHANGED CallStatus
      BY <1>5 DEF Deliver, callVars, CallStatus
    <2>2. CASE f.kind = "reply"
      <3>1. f.call \in Calls /\ f.status \in {"ok", "error"} BY <2>2 DEF Frames, Replies
      <3>2. f.call \in received BY <1>5, <2>2 DEF Deliver
      <3>3. CallStatus[f.call] # "idle"
        BY <1>0, <3>1, <3>2 DEF FrameInv, CallStatus, IInv, TypeOK, Ends
      <3>4. answers' = [answers EXCEPT ![f.call] = @ \cup {f.status}] BY <1>5, <2>2 DEF Deliver
      <3> QED BY <2>1, <3>1, <3>3, <3>4 DEF RR!Next, RR!Answer
    <2>3. CASE f.kind # "reply" BY <1>5, <2>1, <2>3 DEF Deliver, RR!vars
    <2> QED BY <2>2, <2>3
  <1>6. CASE CloseReleases
    BY <1>6 DEF CloseReleases, callVars, RR!Next, RR!Release, CallStatus
  <1>7. ASSUME \/ \E c \in Calls : ReconnectStep(c)
               \/ \E h \in Handlers : ReadStep(h)
               \/ Connect \/ CloseTransport \/ UNCHANGED vars
        PROVE  UNCHANGED RR!vars
    BY <1>7, <1>u
    DEF ReconnectStep, ReconnectReturns, ResetTimeouts, ReleaseReconnect, ReadStep, ReadResetsTimeouts, ReadDispatch,
        Connect, CloseTransport, vars, callVars, historyVars
  <1> QED BY <1>1, <1>s, <1>2, <1>3, <1>4, <1>5, <1>6, <1>7, ReceiveRefines DEF Next, HandleRequestStep

(* The safety part of RequestReplySpec: with identifiers of their own, as  *)
(* NewMessage draws them, calls of HandleRequest (gamelift_manager.go:96)  *)
(* begin once and end at most once, with an answer to that very call or    *)
(* with a failure, whatever is late, lost, answered twice or reordered;    *)
(* the one exception is the zero Outcome that Close leaves a call without  *)
(* a response object.                                                      *)
THEOREM ClientImplementsRequestReply ==
    ASSUME DistinctIds
    PROVE  Spec => RR!Init /\ [][RR!Next]_(RR!vars)
  <1>1. Init => IInv /\ AnswerInv BY InitIInv, InitAnswerInv
  <1>2. IInv /\ AnswerInv /\ [Next]_vars => IInv' /\ AnswerInv'
    BY NextTypeOK, NextChannelInv, NextOneReconnect, NextOutcomeInv, NextFrameInv, NextBufferInv
    DEF IInv, AnswerInv
  <1> QED BY <1>1, <1>2, InitRefines, StepRefines, PTL DEF Spec
=============================================================================
