--------------------------- MODULE WebsocketClient ---------------------------
(***************************************************************************)
(* server/internal/websocket_client.go and gameLiftManager.HandleRequest:  *)
(* the correlation of requests, sent by any goroutine, with responses,     *)
(* each dispatched by a goroutine of its own (go handler(msg)), over one   *)
(* websocket; the timeout of a request; the reconnect that a streak of     *)
(* timeouts triggers; and Close, which releases every pending request.     *)
(*                                                                         *)
(* A step is what happens under respMtx or in one atomic operation; the    *)
(* code between two of them is free to interleave with every other         *)
(* goroutine.  The transport is reduced to what its callers can observe:   *)
(* whether it is open, and the result of Write, Reconnect, Connect.        *)
(***************************************************************************)
EXTENDS Naturals, FiniteSets, Sequences

CONSTANTS
    Calls,      \* calls of HandleRequest, each on a goroutine of its own
    ReqIds,     \* values of the RequestID field
    ReqId,      \* the RequestID of each call's request
    NoBody,     \* the calls with response == nil
    NoCall,     \* no channel is stored under a RequestID
    Handlers,   \* goroutines of readHandler that may be alive at one time
    NoFrame,    \* the goroutine is not running
    Threshold,  \* common.RequestTimeoutReconnectThreshold
    MaxFrames,  \* bound: frames the network delivers
    MaxCloses,  \* bound: calls of Close
    MaxConnects \* bound: calls of Connect

ASSUME ClientAssumption ==
    /\ ReqId \in [Calls -> ReqIds]
    /\ NoBody \subseteq Calls
    /\ NoCall \notin Calls
    /\ Threshold \in Nat \ {0}
    /\ {MaxFrames, MaxCloses, MaxConnects} \subseteq Nat

(* What the network hands to readHandler: the service's reply to a call,   *)
(* with StatusCode 200 or another one; or something else, a message with a *)
(* registered Action or bytes that are no ResponseMessage.                 *)
Replies == [kind : {"reply"}, call : Calls, status : {"ok", "error"}]
Frames == Replies \cup [kind : {"other"}]

ASSUME FrameAssumption == NoFrame \notin Frames

(* A sent Outcome, reduced to its Error field. *)
Outcomes == {"ok", "error"}

(* make(chan common.Outcome, 1): what its buffer may hold. *)
Buffers == {<<>>} \cup {<<o>> : o \in Outcomes}
Channels == [buf : Buffers, closed : BOOLEAN]
Fresh == [buf |-> <<>>, closed |-> FALSE]

Ends == {"timeout", "sendError", "duplicate", "parseError", "nil", "serviceError"}
CallPcs == {"idle", "stored", "sendFailed", "waiting", "expired", "notify", "cas", "done"}
ReconnectPcs == {"none", "reconnect", "reset", "release"}

VARIABLES
    pc,                   \* where each HandleRequest is
    outcome,              \* what each HandleRequest returned; "none" before
    responses,            \* websocketClient.responses: whose channel is under an id
    respChan,             \* respData of each call: its buffer and whether it is closed
    consecutiveTimeouts,  \* websocketClient.consecutiveTimeouts
    reconnectInFlight,    \* websocketClient.reconnectInFlight
    reconnectPc,          \* the reconnect goroutine started by each call, if any
    handler,              \* the frame each readHandler goroutine works on
    handlerPc,            \* "free", "received" or "dispatch"
    closePc,              \* Close: "open", "released" or "closed"
    connected,            \* the transport accepts writes
    received,             \* history: the calls whose request reached the service
    answers,              \* history: the replies the service gave to each call
    released,             \* history: Close has released the pending requests
    recovered,            \* history: timed-out calls whose streak a reconnect has ended
    frames, closes, connects  \* how much of the bounds is used

callVars == <<pc, outcome>>
mapVars == <<responses, respChan>>
timeoutVars == <<consecutiveTimeouts, reconnectInFlight, reconnectPc>>
handlerVars == <<handler, handlerPc, frames>>
closeVars == <<closePc, connected, closes, connects>>
historyVars == <<received, answers, released, recovered>>
vars == <<callVars, mapVars, timeoutVars, handlerVars, closeVars, historyVars>>

Init ==
    /\ pc = [c \in Calls |-> "idle"]
    /\ outcome = [c \in Calls |-> "none"]
    /\ responses = [r \in ReqIds |-> NoCall]
    /\ respChan = [c \in Calls |-> Fresh]
    /\ consecutiveTimeouts = 0
    /\ reconnectInFlight = FALSE
    /\ reconnectPc = [c \in Calls |-> "none"]
    /\ handler = [h \in Handlers |-> NoFrame]
    /\ handlerPc = [h \in Handlers |-> "free"]
    /\ closePc = "closed"
    /\ connected = FALSE
    /\ received = {}
    /\ answers = [c \in Calls |-> {}]
    /\ released = FALSE
    /\ recovered = {}
    /\ frames = 0 /\ closes = 0 /\ connects = 0

-----------------------------------------------------------------------------
(* The helpers that run under respMtx. *)

Registered == {r \in ReqIds : responses[r] # NoCall}

(* Mutant: the entry stays in the map when its channel is closed. *)
SendResponseKeepsEntry(id, data) ==
    LET c == responses[id] IN
    IF c = NoCall
    THEN UNCHANGED mapVars
    ELSE /\ responses' = responses
         /\ respChan' = [respChan EXCEPT ![c] = [buf |-> @.buf \o data, closed |-> TRUE]]

(* sendResponse: at most one Outcome is sent, then the channel is closed   *)
(* and forgotten.  data is <<>> when the code's data is nil.               *)
SendResponse(id, data) ==
    LET c == responses[id] IN
    IF c = NoCall
    THEN UNCHANGED mapVars
    ELSE /\ responses' = [responses EXCEPT ![id] = NoCall]
         /\ respChan' = [respChan EXCEPT ![c] = [buf |-> @.buf \o data, closed |-> TRUE]]

End(c, how) == /\ pc' = [pc EXCEPT ![c] = "done"]
               /\ outcome' = [outcome EXCEPT ![c] = how]

Goto(c, where) == /\ pc' = [pc EXCEPT ![c] = where]
                  /\ UNCHANGED outcome

-----------------------------------------------------------------------------
(* HandleRequest: SendRequest, then select over the timer and the channel. *)

StoreResponse(c) ==
    /\ pc[c] = "idle"
    /\ IF responses[ReqId[c]] # NoCall
       THEN End(c, "duplicate") /\ UNCHANGED responses
       ELSE Goto(c, "stored") /\ responses' = [responses EXCEPT ![ReqId[c]] = c]
    /\ UNCHANGED <<respChan, timeoutVars, handlerVars, closeVars, historyVars>>

(* sendMessage: the transport takes the frame, or it reports an error      *)
(* although the frame may have got through (a write that failed half way,  *)
(* or one of several attempts).                                            *)
SendMessage(c) ==
    /\ pc[c] = "stored"
    /\ \/ connected /\ Goto(c, "waiting")
       \/ Goto(c, "sendFailed")
    /\ \/ connected /\ received' = received \cup {c}
       \/ UNCHANGED received
    /\ UNCHANGED <<mapVars, timeoutVars, handlerVars, closeVars, answers, released, recovered>>

(* The error path of SendRequest: the entry is dropped before the return. *)
SendFailed(c) ==
    /\ pc[c] = "sendFailed"
    /\ SendResponse(ReqId[c], <<>>)
    /\ End(c, "sendError")
    /\ UNCHANGED <<timeoutVars, handlerVars, closeVars, historyVars>>

(* Mutant: HandleRequest has no timer. *)
ExpireNever(c) == FALSE /\ pc' = [pc EXCEPT ![c] = "expired"]

(* The timer may win the select although an Outcome is already there. *)
Expire(c) ==
    /\ pc[c] = "waiting"
    /\ Goto(c, "expired")
    /\ UNCHANGED <<mapVars, timeoutVars, handlerVars, closeVars, historyVars>>

(* Mutant: the timeout branch does not cancel the request. *)
CancelRequestForgotten(c) ==
    /\ pc[c] = "expired"
    /\ Goto(c, "notify")
    /\ UNCHANGED <<mapVars, timeoutVars, handlerVars, closeVars, historyVars>>

CancelRequest(c) ==
    /\ pc[c] = "expired"
    /\ SendResponse(ReqId[c], <<>>)
    /\ Goto(c, "notify")
    /\ UNCHANGED <<timeoutVars, handlerVars, closeVars, historyVars>>

(* The channel wins the select.  A channel that was closed without an      *)
(* Outcome yields the zero Outcome: no error, and no data to unmarshal.    *)
(* Data that does not fit the response type is the caller's parse error.   *)
Receive(c) ==
    /\ pc[c] = "waiting"
    /\ LET ch == respChan[c] IN
       /\ ch.buf # <<>> \/ ch.closed
       /\ \E end \in Ends :
            /\ IF ch.buf = <<"error">> THEN end = "serviceError"
               ELSE IF c \in NoBody THEN end = "nil"
               ELSE end = "parseError" \/ (ch.buf = <<"ok">> /\ end = "nil")
            /\ End(c, end)
    /\ UNCHANGED <<mapVars, timeoutVars, handlerVars, closeVars, historyVars>>

-----------------------------------------------------------------------------
(* NotifyRequestTimeout and the reconnect goroutine. *)

(* AddInt32 and the comparison of its result with the threshold. *)
NotifyRequestTimeout(c) ==
    /\ pc[c] = "notify"
    /\ consecutiveTimeouts' = consecutiveTimeouts + 1
    /\ IF consecutiveTimeouts + 1 < Threshold
       THEN End(c, "timeout")
       ELSE Goto(c, "cas")
    /\ UNCHANGED <<reconnectInFlight, reconnectPc, mapVars, handlerVars, closeVars, historyVars>>

(* Mutant: the flag is set, but not tested. *)
StartReconnectUntested(c) ==
    /\ pc[c] = "cas"
    /\ End(c, "timeout")
    /\ reconnectInFlight' = TRUE
    /\ reconnectPc' = [reconnectPc EXCEPT ![c] = "reconnect"]
    /\ UNCHANGED <<consecutiveTimeouts, mapVars, handlerVars, closeVars, historyVars>>

(* CompareAndSwap(false, true); the goroutine starts if it succeeds. *)
StartReconnect(c) ==
    /\ pc[c] = "cas"
    /\ End(c, "timeout")
    /\ reconnectInFlight' = TRUE
    /\ IF reconnectInFlight
       THEN UNCHANGED reconnectPc
       ELSE reconnectPc' = [reconnectPc EXCEPT ![c] = "reconnect"]
    /\ UNCHANGED <<consecutiveTimeouts, mapVars, handlerVars, closeVars, historyVars>>

(* Reconnect returns: with a new connection, with nil because some other   *)
(* goroutine was connecting (whatever came of that), or with an error.     *)
ReconnectReturns(c) ==
    /\ reconnectPc[c] = "reconnect"
    /\ \/ connected' = TRUE /\ reconnectPc' = [reconnectPc EXCEPT ![c] = "reset"]
       \/ /\ UNCHANGED connected
          /\ \E next \in {"reset", "release"} : reconnectPc' = [reconnectPc EXCEPT ![c] = next]
    /\ UNCHANGED <<callVars, mapVars, consecutiveTimeouts, reconnectInFlight, handlerVars,
                   closePc, closes, connects, historyVars>>

ResetTimeouts(c) ==
    /\ reconnectPc[c] = "reset"
    /\ reconnectPc' = [reconnectPc EXCEPT ![c] = "release"]
    /\ consecutiveTimeouts' = 0
    /\ recovered' = recovered \cup {d \in Calls : pc[d] = "cas"}
    /\ UNCHANGED <<callVars, mapVars, reconnectInFlight, handlerVars, closeVars,
                   received, answers, released>>

(* The deferred reconnectInFlight.Store(false). *)
ReleaseReconnect(c) ==
    /\ reconnectPc[c] = "release"
    /\ reconnectPc' = [reconnectPc EXCEPT ![c] = "none"]
    /\ reconnectInFlight' = FALSE
    /\ UNCHANGED <<callVars, mapVars, consecutiveTimeouts, handlerVars, closeVars, historyVars>>

-----------------------------------------------------------------------------
(* The network and readHandler. *)

(* The service may answer any request it received, also more than once and *)
(* also late, and may send messages of its own.  Frames are dispatched     *)
(* each by a new goroutine, so in any order.                               *)
Deliver(h, f) ==
    /\ frames < MaxFrames
    /\ handlerPc[h] = "free"
    /\ f.kind = "reply" => f.call \in received
    /\ frames' = frames + 1
    /\ handler' = [handler EXCEPT ![h] = f]
    /\ handlerPc' = [handlerPc EXCEPT ![h] = "received"]
    /\ answers' = IF f.kind = "reply"
                  THEN [answers EXCEPT ![f.call] = @ \cup {f.status}]
                  ELSE answers
    /\ UNCHANGED <<callVars, mapVars, timeoutVars, closeVars, received, released, recovered>>

(* Any inbound frame resets the streak, before it is even parsed. *)
ReadResetsTimeouts(h) ==
    /\ handlerPc[h] = "received"
    /\ handlerPc' = [handlerPc EXCEPT ![h] = "dispatch"]
    /\ consecutiveTimeouts' = 0
    /\ UNCHANGED <<callVars, mapVars, reconnectInFlight, reconnectPc, handler, frames,
                   closeVars, historyVars>>

(* Mutant: the status code of the response is not looked at. *)
ReadDispatchIgnoresStatus(h) ==
    /\ handlerPc[h] = "dispatch"
    /\ LET f == handler[h] IN
       IF f.kind = "reply" THEN SendResponse(ReqId[f.call], <<"ok">>) ELSE UNCHANGED mapVars
    /\ handler' = [handler EXCEPT ![h] = NoFrame]
    /\ handlerPc' = [handlerPc EXCEPT ![h] = "free"]
    /\ UNCHANGED <<callVars, timeoutVars, frames, closeVars, historyVars>>

(* A reply goes to the channel stored under its RequestID, with an error   *)
(* if its StatusCode is not 200.  A message with a registered Action goes  *)
(* to that handler (ServerState) and garbage is dropped: neither touches   *)
(* the pending requests.                                                   *)
ReadDispatch(h) ==
    /\ handlerPc[h] = "dispatch"
    /\ LET f == handler[h] IN
       IF f.kind = "reply" THEN SendResponse(ReqId[f.call], <<f.status>>) ELSE UNCHANGED mapVars
    /\ handler' = [handler EXCEPT ![h] = NoFrame]
    /\ handlerPc' = [handlerPc EXCEPT ![h] = "free"]
    /\ UNCHANGED <<callVars, timeoutVars, frames, closeVars, historyVars>>

-----------------------------------------------------------------------------
(* Connect and Close. *)

(* InitSDK connects a transport that is closed, RefreshConnection one that *)
(* is open; a failed Connect leaves the transport as it was.               *)
Connect ==
    /\ connects < MaxConnects
    /\ connects' = connects + 1
    /\ \/ connected' = TRUE /\ closePc' = IF closePc = "closed" THEN "open" ELSE closePc
       \/ UNCHANGED <<connected, closePc>>
    /\ UNCHANGED <<callVars, mapVars, timeoutVars, handlerVars, closes, historyVars>>

(* Mutant: the entries are dropped, but their channels are left open. *)
CloseReleasesNobody ==
    /\ closePc = "open" /\ closes < MaxCloses
    /\ closes' = closes + 1
    /\ closePc' = "released"
    /\ responses' = [r \in ReqIds |-> NoCall]
    /\ released' = TRUE
    /\ UNCHANGED <<callVars, respChan, timeoutVars, handlerVars, connected, connects,
                   received, answers, recovered>>

(* Close, first half, under respMtx: every stored channel is closed. *)
CloseReleases ==
    /\ closePc = "open" /\ closes < MaxCloses
    /\ closes' = closes + 1
    /\ closePc' = "released"
    /\ respChan' = [c \in Calls |->
                       IF \E r \in Registered : responses[r] = c
                       THEN [respChan[c] EXCEPT !.closed = TRUE]
                       ELSE respChan[c]]
    /\ responses' = [r \in ReqIds |-> NoCall]
    /\ released' = TRUE
    /\ UNCHANGED <<callVars, timeoutVars, handlerVars, connected, connects,
                   received, answers, recovered>>

(* Close, second half: PreventAutoReconnect, which only the transport      *)
(* reads, and the transport's Close.                                       *)
CloseTransport ==
    /\ closePc = "released"
    /\ closePc' = "closed"
    /\ connected' = FALSE
    /\ UNCHANGED <<callVars, mapVars, timeoutVars, handlerVars, closes, connects, historyVars>>

-----------------------------------------------------------------------------
HandleRequestStep(c) ==
    \/ SendFailed(c) \/ Expire(c) \/ CancelRequest(c) \/ Receive(c)
    \/ NotifyRequestTimeout(c) \/ StartReconnect(c)

ReconnectStep(c) == ReconnectReturns(c) \/ ResetTimeouts(c) \/ ReleaseReconnect(c)

ReadStep(h) == ReadResetsTimeouts(h) \/ ReadDispatch(h)

Next ==
    \/ \E c \in Calls : StoreResponse(c) \/ SendMessage(c) \/ HandleRequestStep(c) \/ ReconnectStep(c)
    \/ \E h \in Handlers : ReadStep(h) \/ \E f \in Frames : Deliver(h, f)
    \/ Connect \/ CloseReleases \/ CloseTransport

(* Go schedules every runnable goroutine and a timer fires.  No fairness   *)
(* has the transport's Write return (SendMessage; WriteReturns of          *)
(* WebsocketTransport is violated), nor its Reconnect; and nothing obliges *)
(* the service to answer, the network to deliver or the application to     *)
(* call.                                                                   *)
Fairness == \A c \in Calls : WF_vars(HandleRequestStep(c))

Spec == Init /\ [][Next]_vars /\ Fairness

-----------------------------------------------------------------------------
(* Properties. *)

TypeOK ==
    /\ pc \in [Calls -> CallPcs]
    /\ outcome \in [Calls -> Ends \cup {"none"}]
    /\ responses \in [ReqIds -> Calls \cup {NoCall}]
    /\ respChan \in [Calls -> Channels]
    /\ consecutiveTimeouts \in Nat
    /\ reconnectInFlight \in BOOLEAN
    /\ reconnectPc \in [Calls -> ReconnectPcs]
    /\ handler \in [Handlers -> Frames \cup {NoFrame}]
    /\ handlerPc \in [Handlers -> {"free", "received", "dispatch"}]
    /\ \A h \in Handlers : handler[h] = NoFrame <=> handlerPc[h] = "free"
    /\ closePc \in {"open", "released", "closed"}
    /\ connected \in BOOLEAN
    /\ received \subseteq Calls
    /\ answers \in [Calls -> SUBSET {"ok", "error"}]
    /\ released \in BOOLEAN
    /\ recovered \subseteq Calls
    /\ {frames, closes, connects} \subseteq Nat

(* A channel that is still stored under a RequestID is open and empty, and *)
(* stored there only: sendResponse and Close, run by any goroutine in any  *)
(* order, never close a channel twice, never send on a closed one (both    *)
(* would panic) and never block on a full one while they hold respMtx.     *)
RegisteredChannelIsFresh ==
    \A r \in Registered : /\ respChan[responses[r]] = Fresh
                          /\ ReqId[responses[r]] = r

(* A call that waits on its channel is woken: its channel is stored, so    *)
(* that a reply, CancelRequest or Close will find it, or closed already.   *)
NoOrphanedWaiter ==
    \A c \in Calls : pc[c] \in {"stored", "sendFailed", "waiting", "expired"} =>
                        responses[ReqId[c]] = c \/ respChan[c].closed

(* HandleRequest leaves nothing behind: once the call has left its select  *)
(* no entry of the map refers to its channel, on any path.                 *)
NoEntryOutlivesItsCall ==
    \A c \in Calls : pc[c] \in {"notify", "cas", "done"} => responses[ReqId[c]] # c

(* reconnectInFlight is the lock of the reconnect goroutine: at most one   *)
(* exists, and the flag is set exactly as long as it does.                 *)
OneReconnectGoroutine ==
    /\ \A c, d \in Calls : reconnectPc[c] # "none" /\ reconnectPc[d] # "none" => c = d
    /\ reconnectInFlight <=> \E c \in Calls : reconnectPc[c] # "none"

(* A HandleRequest whose Write has returned returns, whatever the service, *)
(* the network, a reconnect that does not return, Close and other calls    *)
(* with the same RequestID do.  (Of a call that is still in Write, "stored"*)
(* here, nothing is said: websocket.go:292-299 may loop for ever.)         *)
EverySentCallEnds ==
    \A c \in Calls : pc[c] \in {"waiting", "sendFailed"} ~> pc[c] = "done"

(* With request identifiers that differ, HandleRequest is a sequence of    *)
(* calls each answered by the service's reply to that call.                *)
CallStatus == [c \in Calls |-> IF pc[c] \in {"idle", "stored"} THEN pc[c]
                               ELSE IF outcome[c] = "none" THEN "pending" ELSE outcome[c]]

RR == INSTANCE RequestReply WITH status <- CallStatus
RequestReplySpec == RR!Spec

(* HandleRequest's doc: it waits for the response.  A call that returns    *)
(* nil was answered by the service.                                        *)
SuccessMeansReply == \A c \in Calls : outcome[c] = "nil" => "ok" \in answers[c]

(* Close's doc: all Send calls after Close return an error.                *)
SendAfterCloseFails ==
    [][closePc = "closed" => \A c \in Calls : ~(pc[c] = "stored" /\ pc'[c] = "waiting")]_vars

(* NotifyRequestTimeout's comment: at most one reconnect per streak.  No   *)
(* reconnect is started for a timeout of a streak that a successful        *)
(* reconnect has already ended.                                            *)
OneReconnectPerStreak ==
    [][\A c \in recovered : ~(reconnectPc[c] = "none" /\ reconnectPc'[c] = "reconnect")]_vars

(* CancelRequest's comment: it cancels the request that has expired.  It   *)
(* leaves the channel of every other call alone.                           *)
CancelSparesOthers ==
    [][\A c \in Calls : pc[c] = "expired" /\ pc'[c] # "expired" =>
          \A d \in Calls \ {c} : respChan'[d] = respChan[d]]_vars
=============================================================================
