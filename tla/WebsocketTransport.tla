-------------------------- MODULE WebsocketTransport --------------------------
(***************************************************************************)
(* server/internal/transport/websocket.go and retry.go: one websocket,     *)
(* written by any goroutine, read by one goroutine per connection,         *)
(* replaced by Connect (InitSDK and RefreshConnection) and by Reconnect    *)
(* (a failed read, a failed write, a streak of request timeouts), and shut *)
(* by Close (Destroy) and by the close frame of a peer.                    *)
(*                                                                         *)
(* A step is one access to an atomic flag, to writeMtx, or to a field that *)
(* another goroutine reads without the mutex.  What a message holds is     *)
(* left to WebsocketClient; a connection is reduced to what ReadMessage    *)
(* and WriteMessage return.                                                *)
(***************************************************************************)
EXTENDS Integers, FiniteSets

CONSTANTS
    Writers,       \* goroutines that each write one message
    Connectors,    \* goroutines that each call Connect once
    InitSDK,       \* the one of them that connects first; the others refresh
    Reconnectors,  \* goroutines that each call Reconnect once (NotifyRequestTimeout)
    Closers,       \* goroutines that each call PreventAutoReconnect, then Close
    Nobody,        \* writeMtx is free
    MaxConns,      \* bound: connections that are ever dialled
    MaxFailures,   \* bound: times Dial fails for good
    MaxReadWriteRetry,                  \* common.MaxReadWriteRetry
    ReconnectOnReadWriteFailureNumber,  \* common.ReconnectOnReadWriteFailureNumber
    MaxRetry       \* retryTransport.attempt

Conns == 1..MaxConns
NoConn == 0   \* tr.conn == nil
Readers == Conns  \* the read goroutine of a connection goes by its number
Procs == Writers \cup Connectors \cup Reconnectors \cup Closers \cup Readers

ASSUME TransportAssumption ==
    /\ {MaxConns, MaxFailures, MaxRetry} \subseteq Nat
    /\ ReconnectOnReadWriteFailureNumber \in Nat
    /\ MaxReadWriteRetry \in Nat
    /\ ReconnectOnReadWriteFailureNumber < MaxReadWriteRetry
    /\ Nobody \notin Procs
    /\ InitSDK \in Connectors
    /\ Writers \cap (Connectors \cup Reconnectors \cup Closers \cup Readers) = {}
    /\ Connectors \cap (Reconnectors \cup Closers \cup Readers) = {}
    /\ Reconnectors \cap (Closers \cup Readers) = {}
    /\ Closers \cap Readers = {}

VARIABLES
    conn,                  \* tr.conn, with the tr.cancelConnectionFn that belongs to it
    isConnected, reconnecting, preventAutoReconnect,  \* the atomic flags
    writeMtx,              \* the goroutine that holds it, or Nobody
    writeRetries,          \* tr.writeRetries, shared by all writers
    oldConn,               \* oldConn of the Connect that holds writeMtx
    link,                  \* each connection: "new", "open", "broken" or "closed"
    redundant,             \* the connections whose lifetime context is cancelled
    abnormal,              \* the read goroutines whose error isAbnormalCloseError
    pc,                    \* where each goroutine is
    err,                   \* the error each goroutine has at hand: TRUE if not nil
    seen,                  \* the value of writeRetries that each writer decrements
    attempt,               \* retryTransport.Write's loop variable, for each writer
    outcome,               \* how each goroutine ended
    failures,              \* how much of MaxFailures is used
    userClosed             \* history: Close has returned, and no Connect came since

flags == <<isConnected, reconnecting, preventAutoReconnect>>
conns == <<conn, oldConn, link, redundant, failures>>
writing == <<writeRetries, attempt, seen>>
vars == <<flags, conns, writing, userClosed, writeMtx, abnormal, pc, err, outcome>>

Init ==
    /\ conn = NoConn /\ oldConn = NoConn
    /\ isConnected = FALSE /\ reconnecting = FALSE /\ preventAutoReconnect = FALSE
    /\ writeMtx = Nobody
    /\ writeRetries = 0
    /\ link = [k \in Conns |-> "new"]
    /\ redundant = {} /\ abnormal = {}
    /\ pc = [p \in Procs |-> "idle"]
    /\ err = [p \in Procs |-> FALSE]
    /\ attempt = [w \in Writers |-> 0] /\ seen = [w \in Writers |-> 0]
    /\ outcome = [p \in Procs |-> "none"]
    /\ failures = 0
    /\ userClosed = FALSE

-----------------------------------------------------------------------------
Goto(p, where) == pc' = [pc EXCEPT ![p] = where]
End(p, how) == Goto(p, "done") /\ outcome' = [outcome EXCEPT ![p] = how]

(* Reconnect has returned to whoever called it: readProcess is about to    *)
(* break out of its loop, Write to look at the error.                      *)
ReconnectReturns(p, failed) ==
    /\ err' = [err EXCEPT ![p] = failed /\ p \in Writers]
    /\ IF p \in Reconnectors
       THEN End(p, IF failed THEN "error" ELSE "nil")
       ELSE Goto(p, IF p \in Readers THEN "ending" ELSE "interrupted") /\ UNCHANGED outcome

-----------------------------------------------------------------------------
(* Connect(u). *)

(* InitSDK has returned.  Before, no handler for RefreshConnection is      *)
(* registered, no request has timed out and there is nothing to Destroy.   *)
Initialized == outcome[InitSDK] = "nil"

(* InitSDK, the handler of a RefreshConnection message or, after Destroy,  *)
(* another InitSDK: the client and its transport are created only once in  *)
(* a process.                                                              *)
StartConnect(p) ==
    /\ p \in Connectors /\ pc[p] = "idle"
    /\ p = InitSDK \/ Initialized
    /\ userClosed' = FALSE
    /\ Goto(p, "connect")
    /\ UNCHANGED <<flags, conns, writing, writeMtx, abnormal, err, outcome>>

ConnectLocks(p) ==
    /\ pc[p] = "connect" /\ writeMtx = Nobody
    /\ writeMtx' = p
    /\ reconnecting' = TRUE
    /\ oldConn' = conn
    /\ Goto(p, "dial")
    /\ UNCHANGED <<isConnected, preventAutoReconnect, conn, link, redundant, failures, writing,
                   userClosed, abnormal, err, outcome>>

(* Dial succeeds, on the first attempt or a later one: tr.conn and its     *)
(* cancel function are replaced.                                           *)
DialSucceeds(p) ==
    /\ pc[p] = "dial"
    /\ \E k \in Conns :
         /\ link[k] = "new" /\ \A j \in 1..(k-1) : link[j] # "new"
         /\ conn' = k
         /\ link' = [link EXCEPT ![k] = "open"]
    /\ Goto(p, "mark")
    /\ UNCHANGED <<flags, oldConn, redundant, failures, writing, userClosed, writeMtx, abnormal, err, outcome>>

(* Every attempt failed: Connect returns the error and unlocks, and leaves *)
(* everything else as it is, reconnecting included.                        *)
DialFails(p) ==
    /\ pc[p] = "dial"
    /\ failures < MaxFailures \/ \A k \in Conns : link[k] # "new"
    /\ failures' = failures + 1
    /\ writeMtx' = Nobody
    /\ err' = [err EXCEPT ![p] = TRUE]
    /\ IF p \in Connectors THEN End(p, "error") ELSE Goto(p, "clear") /\ UNCHANGED outcome
    /\ UNCHANGED <<flags, conn, oldConn, link, redundant, writing, userClosed, abnormal>>

(* Mutant: the context that is cancelled is the one just created. *)
MarkNewRedundant(p) ==
    /\ pc[p] = "mark"
    /\ redundant' = redundant \cup {conn}
    /\ Goto(p, "publish")
    /\ UNCHANGED <<flags, conn, oldConn, link, failures, writing, userClosed, writeMtx, abnormal, err, outcome>>

(* Mutant: the first Connect calls a cancel function that is nil. *)
MarkNilRedundant(p) ==
    /\ pc[p] = "mark"
    /\ redundant' = redundant \cup {oldConn}
    /\ Goto(p, "publish")
    /\ UNCHANGED <<flags, conn, oldConn, link, failures, writing, userClosed, writeMtx, abnormal, err, outcome>>

(* markConnectionAsRedundant(oldCancelConnectionFn), after setCloseHandler. *)
MarkOldRedundant(p) ==
    /\ pc[p] = "mark"
    /\ redundant' = redundant \cup ({oldConn} \ {NoConn})
    /\ Goto(p, "publish")
    /\ UNCHANGED <<flags, conn, oldConn, link, failures, writing, userClosed, writeMtx, abnormal, err, outcome>>

Publish(p) ==
    /\ pc[p] = "publish"
    /\ isConnected' = TRUE
    /\ Goto(p, "announce")
    /\ UNCHANGED <<reconnecting, preventAutoReconnect, conns, writing, userClosed, writeMtx, abnormal, err, outcome>>

(* Mutant: the flag is left set. *)
AnnounceKeepsFlag(p) ==
    /\ pc[p] = "announce"
    /\ pc' = [pc EXCEPT ![p] = "flush", ![conn] = "reading"]
    /\ UNCHANGED <<flags, conns, writing, userClosed, writeMtx, abnormal, err, outcome>>

(* reconnecting.Store(false), connectionId++ and go readProcess. *)
Announce(p) ==
    /\ pc[p] = "announce"
    /\ reconnecting' = FALSE
    /\ pc' = [pc EXCEPT ![p] = "flush", ![conn] = "reading"]
    /\ UNCHANGED <<isConnected, preventAutoReconnect, conns, writing, userClosed, writeMtx, abnormal, err, outcome>>

(* Mutant: the previous connection is left open. *)
FlushForgetsOld(p) ==
    /\ pc[p] = "flush"
    /\ writeMtx' = Nobody
    /\ err' = [err EXCEPT ![p] = FALSE]
    /\ IF p \in Connectors THEN End(p, "nil") ELSE Goto(p, "clear") /\ UNCHANGED outcome
    /\ UNCHANGED <<flags, conns, writing, userClosed, abnormal>>

(* closeConnectionSafely(oldConn), once the timeout that lets the old      *)
(* connection deliver its last messages is over; writeMtx is held so long. *)
Flush(p) ==
    /\ pc[p] = "flush"
    /\ link' = IF oldConn = NoConn THEN link ELSE [link EXCEPT ![oldConn] = "closed"]
    /\ writeMtx' = Nobody
    /\ err' = [err EXCEPT ![p] = FALSE]
    /\ IF p \in Connectors THEN End(p, "nil") ELSE Goto(p, "clear") /\ UNCHANGED outcome
    /\ UNCHANGED <<flags, conn, oldConn, redundant, failures, writing, userClosed, abnormal>>

-----------------------------------------------------------------------------
(* Reconnect(). *)

StartReconnect(p) ==
    /\ p \in Reconnectors /\ pc[p] = "idle" /\ Initialized
    /\ Goto(p, "swap")
    /\ UNCHANGED <<flags, conns, writing, userClosed, writeMtx, abnormal, err, outcome>>

(* reconnecting.Swap(true): somebody is connecting already, or we do. *)
Swap(p) ==
    /\ pc[p] = "swap"
    /\ reconnecting' = TRUE
    /\ Goto(p, IF reconnecting THEN "await" ELSE "connect")
    /\ UNCHANGED <<isConnected, preventAutoReconnect, conns, writing, userClosed, writeMtx, abnormal, err, outcome>>

(* The goroutine that did not win waits for writeMtx, and returns nil.     *)
AwaitOther(p) ==
    /\ pc[p] = "await" /\ writeMtx = Nobody
    /\ ReconnectReturns(p, FALSE)
    /\ UNCHANGED <<flags, conns, writing, userClosed, writeMtx, abnormal>>

(* The one that did clears the flag again, now without writeMtx. *)
ClearReconnecting(p) ==
    /\ pc[p] = "clear"
    /\ reconnecting' = FALSE
    /\ ReconnectReturns(p, err[p])
    /\ UNCHANGED <<isConnected, preventAutoReconnect, conns, writing, userClosed, writeMtx, abnormal>>

-----------------------------------------------------------------------------
(* Close(), as the application calls it and as the close handler does. *)

PreventAutoReconnect(p) ==
    /\ p \in Closers /\ pc[p] = "idle" /\ Initialized
    /\ preventAutoReconnect' = TRUE
    /\ Goto(p, "close")
    /\ UNCHANGED <<isConnected, reconnecting, conns, writing, userClosed, writeMtx, abnormal, err, outcome>>

(* Where Close ends: the reader's ReadMessage returns after its handler. *)
CloseReturns(p) ==
    IF p \in Closers
    THEN End(p, "nil") /\ userClosed' = TRUE
    ELSE Goto(p, "failed") /\ UNCHANGED <<outcome, userClosed>>

(* isConnected.CompareAndSwap(true, false) *)
CloseSwaps(p) ==
    /\ pc[p] = "close"
    /\ isConnected' = FALSE
    /\ IF isConnected
       THEN Goto(p, "closeConn") /\ UNCHANGED <<outcome, userClosed>>
       ELSE CloseReturns(p)
    /\ UNCHANGED <<reconnecting, preventAutoReconnect, conns, writing, writeMtx, abnormal, err>>

(* Whatever connection tr.conn is by now is closed.  Closing it twice is   *)
(* an error, which the close handler hands to ReadMessage in place of the  *)
(* CloseError.                                                             *)
CloseConn(p) ==
    /\ pc[p] = "closeConn"
    /\ link' = [link EXCEPT ![conn] = "closed"]
    /\ abnormal' = IF p \in Readers /\ link[conn] = "closed" THEN abnormal \cup {p} ELSE abnormal
    /\ CloseReturns(p)
    /\ UNCHANGED <<flags, conn, oldConn, redundant, failures, writing, writeMtx, err>>

-----------------------------------------------------------------------------
(* readProcess, on the goroutine of connection k. *)

(* ReadMessage fails: the network did, or the connection was closed here. *)
ReadFails(k) ==
    /\ pc[k] = "reading" /\ link[k] \in {"broken", "closed"}
    /\ abnormal' = abnormal \cup {k}
    /\ Goto(k, "failed")
    /\ UNCHANGED <<flags, conns, writing, userClosed, writeMtx, err, outcome>>

(* The peer closes with a code that is normal (1000, 1001) or not: the     *)
(* close handler runs inside ReadMessage, before it returns the CloseError. *)
ReadCloseFrame(k) ==
    /\ pc[k] = "reading" /\ link[k] = "open"
    /\ abnormal' \in {abnormal, abnormal \cup {k}}
    /\ Goto(k, "close")
    /\ UNCHANGED <<flags, conns, writing, userClosed, writeMtx, err, outcome>>

(* Mutant: the loop goes on after an error on a redundant connection. *)
CheckContextContinues(k) ==
    /\ pc[k] = "failed"
    /\ Goto(k, IF k \in redundant THEN "reading" ELSE IF k \in abnormal THEN "checkFlag" ELSE "ending")
    /\ UNCHANGED <<flags, conns, writing, userClosed, writeMtx, abnormal, err, outcome>>

(* select on context.Done(), then isAbnormalCloseError. *)
CheckContext(k) ==
    /\ pc[k] = "failed"
    /\ Goto(k, IF k \in redundant \/ k \notin abnormal THEN "ending" ELSE "checkFlag")
    /\ UNCHANGED <<flags, conns, writing, userClosed, writeMtx, abnormal, err, outcome>>

CheckReconnecting(k) ==
    /\ pc[k] = "checkFlag"
    /\ Goto(k, IF reconnecting THEN "ending" ELSE "interrupt")
    /\ UNCHANGED <<flags, conns, writing, userClosed, writeMtx, abnormal, err, outcome>>

(* The deferred connection.Close(). *)
ReadEnds(k) ==
    /\ pc[k] = "ending"
    /\ link' = [link EXCEPT ![k] = "closed"]
    /\ End(k, "nil")
    /\ UNCHANGED <<flags, conn, oldConn, redundant, failures, writing, userClosed, writeMtx, abnormal, err>>

(* handleNetworkInterrupt, called by a read goroutine or by a writer. *)
HandleNetworkInterrupt(p) ==
    /\ pc[p] = "interrupt"
    /\ IF preventAutoReconnect
       THEN ReconnectReturns(p, FALSE)
       ELSE Goto(p, "swap") /\ UNCHANGED <<err, outcome>>
    /\ UNCHANGED <<flags, conns, writing, userClosed, writeMtx, abnormal>>

-----------------------------------------------------------------------------
(* Write, in the loop of retryTransport.Write. *)

StartWrite(w) ==
    /\ w \in Writers /\ pc[w] = "idle"
    /\ Goto(w, "write")
    /\ UNCHANGED <<flags, conns, writing, userClosed, writeMtx, abnormal, err, outcome>>

(* websocketTransport.Write returned an error: once more, or give up. *)
WriteFails(w) ==
    IF attempt[w] + 1 < MaxRetry
    THEN /\ attempt' = [attempt EXCEPT ![w] = @ + 1]
         /\ Goto(w, "write")
         /\ UNCHANGED outcome
    ELSE End(w, "error") /\ UNCHANGED attempt

WriteLocks(w) ==
    /\ pc[w] = "write" /\ writeMtx = Nobody
    /\ IF isConnected
       THEN /\ writeMtx' = w
            /\ writeRetries' = 0
            /\ err' = [err EXCEPT ![w] = FALSE]
            /\ Goto(w, "attempt")
            /\ UNCHANGED <<attempt, outcome>>
       ELSE /\ WriteFails(w)
            /\ UNCHANGED <<writeMtx, writeRetries, err>>
    /\ UNCHANGED <<flags, conns, seen, userClosed, abnormal>>

(* WriteMessage takes the frame. *)
WriteSucceeds(w) ==
    /\ pc[w] = "attempt" /\ writeRetries < MaxReadWriteRetry
    /\ link[conn] = "open"
    /\ writeMtx' = Nobody
    /\ End(w, "nil")
    /\ UNCHANGED <<flags, conns, writing, userClosed, abnormal, err>>

(* Mutant: writeMtx is kept across the reconnect. *)
WriteErrsKeepsLock(w) ==
    /\ pc[w] = "attempt" /\ writeRetries < MaxReadWriteRetry
    /\ link' = IF link[conn] = "open" THEN [link EXCEPT ![conn] = "broken"] ELSE link
    /\ err' = [err EXCEPT ![w] = TRUE]
    /\ IF writeRetries = ReconnectOnReadWriteFailureNumber
       THEN Goto(w, "interrupt") /\ UNCHANGED <<writeRetries, writeMtx>>
       ELSE writeRetries' = writeRetries + 1 /\ UNCHANGED <<writeMtx, pc>>
    /\ UNCHANGED <<flags, conn, oldConn, redundant, failures, attempt, seen, userClosed, abnormal, outcome>>

(* WriteMessage fails, always abnormally: the third failure in a row lets  *)
(* go of writeMtx and reconnects, any other sleeps and tries again.        *)
WriteErrs(w) ==
    /\ pc[w] = "attempt" /\ writeRetries < MaxReadWriteRetry
    /\ link' = IF link[conn] = "open" THEN [link EXCEPT ![conn] = "broken"] ELSE link
    /\ err' = [err EXCEPT ![w] = TRUE]
    /\ IF writeRetries = ReconnectOnReadWriteFailureNumber
       THEN writeMtx' = Nobody /\ Goto(w, "interrupt") /\ UNCHANGED writeRetries
       ELSE writeRetries' = writeRetries + 1 /\ UNCHANGED <<writeMtx, pc>>
    /\ UNCHANGED <<flags, conn, oldConn, redundant, failures, attempt, seen, userClosed, abnormal, outcome>>

(* handleNetworkInterrupt returned.  Without an error, writeRetries-- runs *)
(* before writeMtx is taken again: it reads the field here ...             *)
WriteInterrupted(w) ==
    /\ pc[w] = "interrupted" /\ w \in Writers
    /\ IF err[w]
       THEN Goto(w, "relock") /\ UNCHANGED seen
       ELSE Goto(w, "decrement") /\ seen' = [seen EXCEPT ![w] = writeRetries]
    /\ UNCHANGED <<flags, conns, writeRetries, attempt, userClosed, writeMtx, abnormal, err, outcome>>

(* ... and writes it here; the value is lost if the goroutine that holds   *)
(* the mutex has read the field before and writes it after.                *)
WriteDecrements(w) ==
    /\ pc[w] = "decrement"
    /\ \/ writeRetries' = seen[w] - 1
       \/ writeMtx # Nobody /\ UNCHANGED writeRetries
    /\ seen' = [seen EXCEPT ![w] = 0]
    /\ Goto(w, "relock")
    /\ UNCHANGED <<flags, conns, attempt, userClosed, writeMtx, abnormal, err, outcome>>

WriteRelocks(w) ==
    /\ pc[w] = "relock" /\ writeMtx = Nobody
    /\ writeMtx' = w
    /\ writeRetries' = writeRetries + 1
    /\ Goto(w, "attempt")
    /\ UNCHANGED <<flags, conns, attempt, seen, userClosed, abnormal, err, outcome>>

(* The loop is over.  err.Error() needs an error: without one it panics. *)
WriteGivesUp(w) ==
    /\ pc[w] = "attempt" /\ writeRetries >= MaxReadWriteRetry
    /\ writeMtx' = Nobody
    /\ IF err[w] THEN WriteFails(w) ELSE End(w, "panic") /\ UNCHANGED attempt
    /\ UNCHANGED <<flags, conns, writeRetries, seen, userClosed, abnormal, err>>

-----------------------------------------------------------------------------
(* The network may fail on any connection at any time. *)
LinkBreaks(k) ==
    /\ link[k] = "open"
    /\ link' = [link EXCEPT ![k] = "broken"]
    /\ UNCHANGED <<flags, conn, oldConn, redundant, failures, writing, userClosed, writeMtx, abnormal,
                   pc, err, outcome>>

-----------------------------------------------------------------------------
(* What the scheduler may run next on goroutine p; the application and the *)
(* network act of their own accord.                                        *)
ConnectStep(p) == \/ ConnectLocks(p) \/ DialSucceeds(p) \/ DialFails(p) \/ MarkOldRedundant(p)
                  \/ Publish(p) \/ Announce(p) \/ Flush(p)
ReconnectStep(p) == Swap(p) \/ AwaitOther(p) \/ ClearReconnecting(p)
CloseStep(p) == CloseSwaps(p) \/ CloseConn(p)
ReadStep(k) == ReadFails(k) \/ CheckContext(k) \/ CheckReconnecting(k) \/ ReadEnds(k)
WriteStep(w) == \/ WriteLocks(w) \/ WriteSucceeds(w) \/ WriteErrs(w) \/ WriteInterrupted(w) \/ WriteDecrements(w)
                \/ WriteRelocks(w) \/ WriteGivesUp(w)
Scheduled(p) == \/ ConnectStep(p) \/ ReconnectStep(p) \/ CloseStep(p) \/ HandleNetworkInterrupt(p)
                \/ p \in Readers /\ ReadStep(p)
                \/ p \in Writers /\ WriteStep(p)

Environment == \/ \E p \in Procs : \/ StartConnect(p) \/ StartReconnect(p)
                                   \/ PreventAutoReconnect(p) \/ StartWrite(p)
               \/ \E k \in Conns : LinkBreaks(k) \/ ReadCloseFrame(k)

Next == Environment \/ \E p \in Procs : Scheduled(p)

(* Every goroutine that can run is run, a dial ends one way or the other,  *)
(* and ReadMessage reports a connection that is gone.  A sync.Mutex hands  *)
(* itself to a goroutine that has waited for it too long.                  *)
Acquires(p) == \/ ConnectLocks(p) \/ AwaitOther(p)
               \/ p \in Writers /\ (WriteLocks(p) \/ WriteRelocks(p))
Fairness == \A p \in Procs : WF_vars(Scheduled(p)) /\ SF_vars(Acquires(p))

Spec == Init /\ [][Next]_vars /\ Fairness

-----------------------------------------------------------------------------
(* Properties. *)

ConnectPcs == {"dial", "mark", "publish", "announce", "flush"}
Pcs == ConnectPcs \cup {"idle", "connect", "swap", "await", "clear", "close", "closeConn",
         "reading", "failed", "checkFlag", "ending", "interrupt", "interrupted", "decrement",
         "write", "attempt", "relock", "done"}

TypeOK ==
    /\ {conn, oldConn} \subseteq Conns \cup {NoConn}
    /\ {isConnected, reconnecting, preventAutoReconnect, userClosed} \subseteq BOOLEAN
    /\ writeMtx \in Procs \cup {Nobody}
    /\ writeRetries \in Int
    /\ link \in [Conns -> {"new", "open", "broken", "closed"}]
    /\ redundant \subseteq Conns /\ abnormal \subseteq Readers
    /\ pc \in [Procs -> Pcs]
    /\ err \in [Procs -> BOOLEAN]
    /\ attempt \in [Writers -> Nat]
    /\ seen \in [Writers -> Int]
    /\ outcome \in [Procs -> {"none", "nil", "error", "panic"}]
    /\ failures \in Nat

(* The goroutines in the code between writeMtx.Lock and writeMtx.Unlock. *)
Connecting(p) == pc[p] \in ConnectPcs

(* A goroutine is committed to connect: it has decided to, or is at it. *)
WillConnect(p) == pc[p] \in {"swap", "connect"} \/ Connecting(p)

(* The websocket library allows one writer at a time, and tr.conn has one: *)
(* writeMtx is held by exactly the goroutine that writes or connects.      *)
OneWriterOrConnector ==
    \A p \in Procs : (Connecting(p) \/ pc[p] = "attempt") <=> writeMtx = p

(* Whatever reconnects and failures overlap, there is one main connection: *)
(* outside the moment of the switch, every other connection that is still  *)
(* open is marked redundant, and the current one never is, so that its     *)
(* errors are not ignored.                                                 *)
OneMainConnection ==
    (\A p \in Procs : pc[p] # "mark") =>
        /\ \A k \in Conns : link[k] \in {"open", "broken"} /\ k # conn => k \in redundant
        /\ conn \notin redundant

(* A dead connection is not forgotten: as long as Dial works and nobody    *)
(* prevents it, a connection that is taken for connected but is not open   *)
(* has a read goroutine that will find out, or somebody is connecting.     *)
DeadConnectionIsHandled ==
    isConnected /\ link[conn] # "open" /\ failures = 0 /\ ~preventAutoReconnect =>
        \/ pc[conn] # "done" /\ pc[conn] # "ending"
        \/ \E p \in Procs : WillConnect(p) \/ pc[p] = "interrupt"

(* A superseded connection is closed in the end, and does not leak. *)
OldConnectionIsClosed == \A k \in Conns : link[k] \in {"open", "broken"} /\ k # conn ~> link[k] = "closed"

(* The tests look for leaked goroutines: once a connection is closed, by   *)
(* whoever it was, its read goroutine ends.                                *)
ReaderOfClosedEnds == \A k \in Conns : link[k] = "closed" ~> pc[k] = "done"

(* MaxReadWriteRetry's comment: a number of retries after which Write is   *)
(* over.  Every Write returns.                                             *)
WriteReturns == \A w \in Writers : pc[w] = "write" ~> pc[w] = "done"

(* Reconnect's comment: it waits for an ongoing reconnect or initiates a   *)
(* new one.  When it decides to wait, somebody is connecting.              *)
AwaitsOngoingReconnect ==
    [][\A p \in Procs : pc[p] = "swap" /\ pc'[p] = "await" =>
          \E q \in Procs \ {p} : WillConnect(q) \/ pc[q] = "clear"]_vars

(* Connect's comment: reconnecting is always set, so that other goroutines *)
(* can check whether a new connection is being set up.                     *)
FlagCoversConnect ==
    (\E p \in Procs : pc[p] \in {"dial", "mark", "publish", "announce"}) => reconnecting

(* ITransport.Close's comment: all Write calls after Close return an error. *)
WriteAfterCloseFails ==
    [][userClosed => \A w \in Writers : ~(pc[w] = "write" /\ pc'[w] = "attempt")]_vars

(* markConnectionAsRedundant's comment: a closure on the old connection    *)
(* leaves the new one alone.                                               *)
OldClosureSparesNew ==
    [][\A k \in redundant : ~(pc[k] = "closeConn" /\ pc'[k] # "closeConn" /\ conn # k)]_vars

(* Connect's comment: the order of its steps keeps an error on the old     *)
(* connection from replacing the new one.  No read goroutine decides to    *)
(* reconnect when its connection is already marked redundant.              *)
OldErrorSparesNew ==
    [][\A k \in redundant : ~(pc[k] = "checkFlag" /\ pc'[k] = "interrupt")]_vars

(* PreventAutoReconnect's comment: it is about the underlying connection.  *)
(* A read error on a connection made after Close is not ignored.           *)
NewConnectionReconnects ==
    [][\A k \in Conns :
          k = conn /\ isConnected /\ pc[k] = "interrupt" /\ pc'[k] = "ending" =>
              userClosed \/ \E c \in Closers : pc[c] # "done"]_vars

(* The last line of Write: a failed Write returns an error. *)
FailedWriteReturnsError == \A w \in Writers : outcome[w] # "panic"
=============================================================================
