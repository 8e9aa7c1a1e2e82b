------------------------ MODULE WebsocketTransportProofs ------------------------
(***************************************************************************)
(* Theorems about WebsocketTransport, for any number of writers, callers   *)
(* of Connect, Reconnect and Close, connections and failures, and whatever *)
(* the network does.                                                       *)
(***************************************************************************)
EXTENDS WebsocketTransport, TLAPS

(* A goroutine that has dialled and not yet announced its connection: the  *)
(* connection is there, and its read goroutine is not running yet.         *)
Switching(p) == pc[p] \in {"mark", "publish", "announce"}

ReaderInv ==
    /\ \A p \in Procs : Switching(p) => conn \in Conns /\ pc[conn] = "idle"
    /\ \A k \in Conns : link[k] = "new" => pc[k] = "idle"
    /\ isConnected => conn \in Conns

(* tr.conn and oldConn of the goroutine that holds writeMtx, and which     *)
(* connections are marked; between the dial and the mark, the old one is   *)
(* the only one to be open and neither current nor redundant.              *)
SwitchInv ==
    /\ \A k \in Conns : link[k] = "new" => k \notin redundant /\ k # conn /\ k # oldConn
    /\ conn \notin redundant
    /\ \A p \in Procs : pc[p] = "dial" => oldConn = conn
    /\ \A p \in Procs : pc[p] = "mark" => oldConn # conn
    /\ \A k \in Conns : link[k] \in {"open", "broken"} =>
          k = conn \/ k \in redundant \/ (k = oldConn /\ \E p \in Procs : pc[p] = "mark")

(* As long as no dial has failed for good, the flag is set by somebody who *)
(* is about to connect, or has not announced the connection yet.           *)
Dialling(p) == pc[p] \in {"connect", "dial"}
FlagInv == failures = 0 /\ reconnecting => \E p \in Procs : Dialling(p) \/ Switching(p)

(* The read goroutine of the current connection ends in two ways: it has   *)
(* shut the transport, or somebody else is about to replace the connection.*)
CurrentReaderInv ==
    \A k \in Conns : k = conn =>
        /\ pc[k] = "closeConn" \/ (pc[k] = "failed" /\ k \notin abnormal) => ~isConnected
        /\ pc[k] # "flush"
        /\ failures = 0 => pc[k] # "clear"
        /\ failures = 0 /\ ~preventAutoReconnect /\ isConnected /\ pc[k] \in {"await", "ending", "done"} =>
              \E p \in Procs : Dialling(p)

IInv == TypeOK /\ OneWriterOrConnector /\ ReaderInv /\ SwitchInv /\ FlagInv /\ CurrentReaderInv
-----------------------------------------------------------------------------
LEMMA ProcsFacts ==
    /\ Nobody \notin Procs /\ NoConn \notin Conns /\ Readers = Conns /\ Conns \subseteq Procs /\ Conns \subseteq Nat
    /\ Writers \subseteq Procs /\ InitSDK \in Procs
    /\ (Writers \cup Connectors \cup Reconnectors \cup Closers) \cap Conns = {}
  BY TransportAssumption DEF TransportAssumption, Procs, Conns, Readers, NoConn

LEMMA InitIInv == Init => IInv
  <1> SUFFICES ASSUME Init PROVE IInv
    OBVIOUS
  <1> USE ProcsFacts DEF Init
  <1>1. TypeOK
    <2>1. pc \in [Procs -> Pcs] /\ outcome \in [Procs -> {"none", "nil", "error", "panic"}] BY DEF Pcs
    <2>2. err \in [Procs -> BOOLEAN] /\ link \in [Conns -> {"new", "open", "broken", "closed"}] OBVIOUS
    <2>3. {isConnected, reconnecting, preventAutoReconnect, userClosed} \subseteq BOOLEAN OBVIOUS
    <2>4. attempt \in [Writers -> Nat] /\ seen \in [Writers -> Int] OBVIOUS
    <2> QED BY <2>1, <2>2, <2>3, <2>4 DEF TypeOK
  <1>2. OneWriterOrConnector BY DEF OneWriterOrConnector, Connecting, ConnectPcs
  <1>3. ReaderInv /\ SwitchInv /\ FlagInv /\ CurrentReaderInv
    BY DEF ReaderInv, SwitchInv, FlagInv, CurrentReaderInv, Switching
  <1> QED BY <1>1, <1>2, <1>3 DEF IInv

-----------------------------------------------------------------------------
(* Type correctness is preserved. *)
LEMMA NextTypeOK == TypeOK /\ [Next]_vars => TypeOK'
  <1> SUFFICES ASSUME TypeOK, [Next]_vars PROVE TypeOK'
    OBVIOUS
  <1> USE ProcsFacts DEF TypeOK, flags, conns, writing, Goto, End, Pcs, ConnectPcs
  <1>1. ASSUME NEW p \in Procs, StartConnect(p) \/ StartReconnect(p) \/ PreventAutoReconnect(p) \/ StartWrite(p)
        PROVE  TypeOK'
    <2>1. CASE StartConnect(p) BY <2>1 DEF StartConnect
    <2>2. CASE StartReconnect(p) BY <2>2 DEF StartReconnect
    <2>3. CASE PreventAutoReconnect(p) BY <2>3 DEF PreventAutoReconnect
    <2>4. CASE StartWrite(p) BY <2>4 DEF StartWrite
    <2> QED BY <1>1, <2>1, <2>2, <2>3, <2>4
  <1>2. ASSUME NEW k \in Conns, LinkBreaks(k) \/ ReadCloseFrame(k) PROVE TypeOK'
    <2>1. CASE LinkBreaks(k) BY <2>1 DEF LinkBreaks
    <2>2. CASE ReadCloseFrame(k) BY <2>2 DEF ReadCloseFrame
    <2> QED BY <1>2, <2>1, <2>2
  <1>3. ASSUME NEW p \in Procs, ConnectStep(p) PROVE TypeOK'
    <2>1. CASE ConnectLocks(p) BY <2>1 DEF ConnectLocks
    <2>2. CASE DialSucceeds(p) BY <2>2 DEF DialSucceeds
    <2>3. CASE DialFails(p) BY <2>3 DEF DialFails
    <2>4. CASE MarkOldRedundant(p) BY <2>4 DEF MarkOldRedundant
    <2>5. CASE Publish(p) BY <2>5 DEF Publish
    <2>6. CASE Announce(p) BY <2>6 DEF Announce
    <2>7. CASE Flush(p) BY <2>7 DEF Flush
    <2> QED BY <1>3, <2>1, <2>2, <2>3, <2>4, <2>5, <2>6, <2>7 DEF ConnectStep
  <1>4. ASSUME NEW p \in Procs, ReconnectStep(p) PROVE TypeOK'
    <2> USE DEF ReconnectReturns
    <2>1. CASE Swap(p) BY <2>1 DEF Swap
    <2>2. CASE AwaitOther(p) BY <2>2 DEF AwaitOther
    <2>3. CASE ClearReconnecting(p) BY <2>3 DEF ClearReconnecting
    <2> QED BY <1>4, <2>1, <2>2, <2>3 DEF ReconnectStep
  <1>5. ASSUME NEW p \in Procs, CloseStep(p) PROVE TypeOK'
    <2> USE DEF CloseReturns
    <2>1. CASE CloseSwaps(p) BY <2>1 DEF CloseSwaps
    <2>2. CASE CloseConn(p) BY <2>2 DEF CloseConn
    <2> QED BY <1>5, <2>1, <2>2 DEF CloseStep
  <1>6. ASSUME NEW p \in Procs, HandleNetworkInterrupt(p) PROVE TypeOK'
    BY <1>6 DEF HandleNetworkInterrupt, ReconnectReturns
  <1>7. ASSUME NEW k \in Readers, ReadStep(k) PROVE TypeOK'
    <2>1. CASE ReadFails(k) BY <2>1 DEF ReadFails
    <2>2. CASE CheckContext(k) BY <2>2 DEF CheckContext
    <2>3. CASE CheckReconnecting(k) BY <2>3 DEF CheckReconnecting
    <2>4. CASE ReadEnds(k) BY <2>4 DEF ReadEnds
    <2> QED BY <1>7, <2>1, <2>2, <2>3, <2>4 DEF ReadStep
  <1>8. ASSUME NEW w \in Writers, WriteStep(w) PROVE TypeOK'
    <2> USE DEF WriteFails
    <2>1. CASE WriteLocks(w)
      <3>1. pc' \in [Procs -> Pcs] /\ outcome' \in [Procs -> {"none", "nil", "error", "panic"}] BY <2>1 DEF WriteLocks
      <3>2. err' \in [Procs -> BOOLEAN] BY <2>1 DEF WriteLocks
      <3>3. attempt' \in [Writers -> Nat] BY <2>1 DEF WriteLocks
      <3>4. writeMtx' \in Procs \cup {Nobody} /\ writeRetries' \in Int BY <2>1 DEF WriteLocks
      <3> QED BY <2>1, <3>1, <3>2, <3>3, <3>4 DEF WriteLocks
    <2>2. CASE WriteSucceeds(w) BY <2>2 DEF WriteSucceeds
    <2>3. CASE WriteErrs(w)
      <3>1. link' \in [Conns -> {"new", "open", "broken", "closed"}] BY <2>3 DEF WriteErrs
      <3>2. err' \in [Procs -> BOOLEAN] BY <2>3 DEF WriteErrs
      <3>3. pc' \in [Procs -> Pcs] /\ writeMtx' \in Procs \cup {Nobody} /\ writeRetries' \in Int
        BY <2>3 DEF WriteErrs
      <3> QED BY <2>3, <3>1, <3>2, <3>3 DEF WriteErrs
    <2>4. CASE WriteInterrupted(w) BY <2>4 DEF WriteInterrupted
    <2>5. CASE WriteDecrements(w) BY <2>5 DEF WriteDecrements
    <2>6. CASE WriteRelocks(w) BY <2>6 DEF WriteRelocks
    <2>7. CASE WriteGivesUp(w) BY <2>7 DEF WriteGivesUp
    <2> QED BY <1>8, <2>1, <2>2, <2>3, <2>4, <2>5, <2>6, <2>7 DEF WriteStep
  <1>9. CASE UNCHANGED vars BY <1>9 DEF vars
  <1> QED BY <1>1, <1>2, <1>3, <1>4, <1>5, <1>6, <1>7, <1>8, <1>9 DEF Next, Environment, Scheduled

-----------------------------------------------------------------------------
(* writeMtx is a lock: a goroutine takes it as it enters the code between  *)
(* Lock and Unlock, and releases it as it leaves.                          *)

Critical(p) == Connecting(p) \/ pc[p] = "attempt"
CriticalPcs == ConnectPcs \cup {"attempt"}

LEMMA MutexMoves ==
    ASSUME TypeOK, OneWriterOrConnector, NEW p \in Procs, NEW where \in Pcs, pc' = [pc EXCEPT ![p] = where],
           \/ UNCHANGED writeMtx /\ (pc[p] \in CriticalPcs <=> where \in CriticalPcs)
           \/ writeMtx = Nobody /\ writeMtx' = p /\ where \in CriticalPcs
           \/ writeMtx' = Nobody /\ pc[p] \in CriticalPcs /\ where \notin CriticalPcs
    PROVE  OneWriterOrConnector'
  BY ProcsFacts DEF TypeOK, OneWriterOrConnector, Connecting, CriticalPcs

LEMMA NextOneWriter == IInv /\ [Next]_vars => OneWriterOrConnector'
  <1> SUFFICES ASSUME IInv, [Next]_vars PROVE OneWriterOrConnector'
    OBVIOUS
  <1> USE DEF Goto, End
  <1>0. TypeOK /\ OneWriterOrConnector /\ ReaderInv BY DEF IInv
  <1>u. ASSUME UNCHANGED <<pc, writeMtx>> PROVE OneWriterOrConnector'
    BY <1>0, <1>u DEF OneWriterOrConnector, Connecting
  <1>i. ASSUME NEW p \in Procs, UNCHANGED writeMtx, pc[p] \notin CriticalPcs,
               NEW where \in Pcs \ CriticalPcs, pc' = [pc EXCEPT ![p] = where]
        PROVE  OneWriterOrConnector'
    BY <1>0, <1>i, MutexMoves
  <1>1. ASSUME NEW p \in Procs, StartConnect(p) \/ StartReconnect(p) \/ PreventAutoReconnect(p) \/ StartWrite(p)
        PROVE  OneWriterOrConnector'
    BY <1>1, <1>i DEF StartConnect, StartReconnect, PreventAutoReconnect, StartWrite, Pcs, CriticalPcs, ConnectPcs
  <1>2. ASSUME NEW k \in Conns, LinkBreaks(k) \/ ReadCloseFrame(k) PROVE OneWriterOrConnector'
    BY <1>2, <1>i, <1>u, ProcsFacts DEF LinkBreaks, ReadCloseFrame, Pcs, CriticalPcs, ConnectPcs
  <1>3. ASSUME NEW p \in Procs, ConnectStep(p) PROVE OneWriterOrConnector'
    <2> USE DEF Pcs, CriticalPcs, ConnectPcs
    <2>1. CASE ConnectLocks(p) BY <1>0, <2>1, MutexMoves DEF ConnectLocks
    <2>2. CASE DialSucceeds(p) BY <1>0, <2>2, MutexMoves DEF DialSucceeds
    <2>3. CASE DialFails(p) BY <1>0, <2>3, MutexMoves DEF DialFails
    <2>4. CASE MarkOldRedundant(p) BY <1>0, <2>4, MutexMoves DEF MarkOldRedundant
    <2>5. CASE Publish(p) BY <1>0, <2>5, MutexMoves DEF Publish
    <2>6. CASE Announce(p)
      <3>1. conn \in Procs /\ pc[conn] = "idle" /\ pc[p] = "announce"
        BY <1>0, <2>6, ProcsFacts DEF Announce, ReaderInv, Switching
      <3>2. pc' = [pc EXCEPT ![p] = "flush", ![conn] = "reading"] /\ UNCHANGED writeMtx BY <2>6 DEF Announce
      <3> QED BY <1>0, <3>1, <3>2 DEF TypeOK, OneWriterOrConnector, Connecting
    <2>7. CASE Flush(p) BY <1>0, <2>7, MutexMoves DEF Flush
    <2> QED BY <1>3, <2>1, <2>2, <2>3, <2>4, <2>5, <2>6, <2>7 DEF ConnectStep
  <1>4. ASSUME NEW p \in Procs, ReconnectStep(p) \/ CloseStep(p) \/ HandleNetworkInterrupt(p)
        PROVE  OneWriterOrConnector'
    <2>1. UNCHANGED writeMtx /\ pc[p] \notin CriticalPcs
      BY <1>4 DEF ReconnectStep, Swap, AwaitOther, ClearReconnecting, CloseStep, CloseSwaps, CloseConn,
                  HandleNetworkInterrupt, CriticalPcs, ConnectPcs
    <2>2. \E where \in Pcs \ CriticalPcs : pc' = [pc EXCEPT ![p] = where]
      BY <1>4 DEF ReconnectStep, Swap, AwaitOther, ClearReconnecting, ReconnectReturns, CloseStep, CloseSwaps,
                  CloseConn, CloseReturns, HandleNetworkInterrupt, Pcs, CriticalPcs, ConnectPcs
    <2> QED BY <1>i, <2>1, <2>2
  <1>5. ASSUME NEW k \in Readers, ReadStep(k) PROVE OneWriterOrConnector'
    BY <1>5, <1>i, ProcsFacts
    DEF ReadStep, ReadFails, CheckContext, CheckReconnecting, ReadEnds, Pcs, CriticalPcs, ConnectPcs
  <1>6. ASSUME NEW w \in Writers, WriteStep(w) PROVE OneWriterOrConnector'
    <2> USE ProcsFacts DEF Pcs, CriticalPcs, ConnectPcs
    <2>1. CASE WriteLocks(w)
      <3>1. CASE isConnected BY <1>0, <2>1, <3>1, MutexMoves DEF WriteLocks
      <3>2. CASE ~isConnected BY <1>i, <2>1, <3>2 DEF WriteLocks, WriteFails
      <3> QED BY <3>1, <3>2
    <2>2. CASE WriteSucceeds(w) BY <1>0, <2>2, MutexMoves DEF WriteSucceeds
    <2>3. CASE WriteErrs(w)
      <3>1. pc[w] = "attempt" BY <2>3 DEF WriteErrs
      <3>2. \/ writeMtx' = Nobody /\ pc' = [pc EXCEPT ![w] = "interrupt"]
            \/ UNCHANGED <<writeMtx, pc>>
        BY <2>3 DEF WriteErrs
      <3> QED BY <1>0, <1>u, <3>1, <3>2, MutexMoves
    <2>4. CASE WriteInterrupted(w) BY <1>i, <2>4 DEF WriteInterrupted
    <2>5. CASE WriteDecrements(w) BY <1>i, <2>5 DEF WriteDecrements
    <2>6. CASE WriteRelocks(w) BY <1>0, <2>6, MutexMoves DEF WriteRelocks
    <2>7. CASE WriteGivesUp(w)
      <3>1. pc[w] = "attempt" /\ writeMtx' = Nobody BY <2>7 DEF WriteGivesUp
      <3>2. \E where \in {"write", "done"} : pc' = [pc EXCEPT ![w] = where]
        BY <2>7 DEF WriteGivesUp, WriteFails
      <3> QED BY <1>0, <3>1, <3>2, MutexMoves
    <2> QED BY <1>6, <2>1, <2>2, <2>3, <2>4, <2>5, <2>6, <2>7 DEF WriteStep
  <1>7. CASE UNCHANGED vars BY <1>7, <1>u DEF vars
  <1> QED BY <1>1, <1>2, <1>3, <1>4, <1>5, <1>6, <1>7 DEF Next, Environment, Scheduled

-----------------------------------------------------------------------------
(* The switch from one connection to the next. *)

(* What most steps do: no connection is replaced or marked, none is dialled *)
(* or comes to life again, and no read goroutine starts.                   *)
QuietLinks ==
    /\ UNCHANGED <<conn, oldConn, redundant>>
    /\ isConnected' => isConnected
    /\ \A k \in Conns : \/ link'[k] = link[k]
                        \/ link'[k] = "closed"
                        \/ link'[k] = "broken" /\ link[k] = "open"

QuietMove(p, where) ==
    /\ pc' = [pc EXCEPT ![p] = where]
    /\ pc[p] # "idle" \/ p \notin Conns
    /\ pc[p] # "mark" /\ where \notin {"dial", "mark", "publish", "announce"}

LEMMA QuietKeeps ==
    ASSUME TypeOK, ReaderInv, SwitchInv, QuietLinks,
           UNCHANGED pc \/ \E p \in Procs, where \in Pcs : QuietMove(p, where)
    PROVE  ReaderInv' /\ SwitchInv'
  <1>1. \A q \in Procs : \/ pc'[q] = pc[q]
                         \/ /\ pc[q] # "idle" \/ q \notin Conns
                            /\ pc[q] # "mark" /\ pc'[q] \notin {"dial", "mark", "publish", "announce"}
    BY DEF TypeOK, QuietMove
  <1>2. \A q \in Procs : Switching(q)' => Switching(q) BY <1>1 DEF Switching
  <1>3. ReaderInv' BY <1>1, <1>2, ProcsFacts DEF ReaderInv, QuietLinks, TypeOK
  <1>4. \A k \in Conns : link'[k] \in {"open", "broken"} => link[k] \in {"open", "broken"} BY DEF QuietLinks
  <1>5. \A q \in Procs : (pc[q] = "mark" <=> pc'[q] = "mark") /\ (pc'[q] = "dial" => pc[q] = "dial") BY <1>1
  <1>6. SwitchInv' BY <1>4, <1>5 DEF SwitchInv, QuietLinks
  <1> QED BY <1>3, <1>6

(* The steps of Connect that are not quiet. *)
SwitchStep(p) == ConnectLocks(p) \/ DialSucceeds(p) \/ MarkOldRedundant(p) \/ Publish(p) \/ Announce(p)

LEMMA OtherStepsAreQuiet ==
    ASSUME IInv, [Next]_vars, \A p \in Procs : ~SwitchStep(p)
    PROVE  QuietLinks /\ (UNCHANGED pc \/ \E p \in Procs, where \in Pcs : QuietMove(p, where))
  <1> USE DEF flags, conns, Goto, End, QuietLinks, QuietMove, Pcs, ConnectPcs
  <1>0. TypeOK BY DEF IInv
  <1>1. ASSUME NEW p \in Procs, StartConnect(p) \/ StartReconnect(p) \/ PreventAutoReconnect(p) \/ StartWrite(p)
        PROVE  QuietLinks /\ \E where \in Pcs : QuietMove(p, where)
    BY <1>1, ProcsFacts DEF StartConnect, StartReconnect, PreventAutoReconnect, StartWrite
  <1>2. ASSUME NEW k \in Conns, LinkBreaks(k) PROVE QuietLinks /\ UNCHANGED pc
    BY <1>0, <1>2 DEF LinkBreaks, TypeOK
  <1>3. ASSUME NEW k \in Conns, ReadCloseFrame(k) PROVE QuietLinks /\ \E where \in Pcs : QuietMove(k, where)
    BY <1>3 DEF ReadCloseFrame
  <1>4. ASSUME NEW p \in Procs, DialFails(p) \/ Flush(p) PROVE QuietLinks /\ \E where \in Pcs : QuietMove(p, where)
    <2>1. QuietLinks BY <1>0, <1>4 DEF DialFails, Flush, TypeOK
    <2> QED BY <1>4, <2>1 DEF DialFails, Flush
  <1>5. ASSUME NEW p \in Procs, ReconnectStep(p) \/ HandleNetworkInterrupt(p)
        PROVE  QuietLinks /\ \E where \in Pcs : QuietMove(p, where)
    <2>0. UNCHANGED <<conn, oldConn, redundant, link, isConnected>>
      <3>1. CASE Swap(p) BY <3>1 DEF Swap
      <3>2. CASE AwaitOther(p) BY <3>2 DEF AwaitOther
      <3>3. CASE ClearReconnecting(p) BY <3>3 DEF ClearReconnecting
      <3>4. CASE HandleNetworkInterrupt(p) BY <3>4 DEF HandleNetworkInterrupt
      <3> QED BY <1>5, <3>1, <3>2, <3>3, <3>4 DEF ReconnectStep
    <2>1. QuietLinks BY <2>0
    <2>2. pc[p] \in {"swap", "await", "clear", "interrupt"}
      BY <1>5 DEF ReconnectStep, Swap, AwaitOther, ClearReconnecting, HandleNetworkInterrupt
    <2>3. \E where \in {"await", "connect", "done", "ending", "interrupted", "swap"} : pc' = [pc EXCEPT ![p] = where]
      BY <1>5 DEF ReconnectStep, Swap, AwaitOther, ClearReconnecting, HandleNetworkInterrupt, ReconnectReturns
    <2> QED BY <2>1, <2>2, <2>3
  <1>6. ASSUME NEW p \in Procs, CloseStep(p) PROVE QuietLinks /\ \E where \in Pcs : QuietMove(p, where)
    <2>1. QuietLinks BY <1>0, <1>6 DEF CloseStep, CloseSwaps, CloseConn, TypeOK
    <2> QED BY <1>6, <2>1 DEF CloseStep, CloseSwaps, CloseConn, CloseReturns
  <1>7. ASSUME NEW k \in Readers, ReadStep(k) PROVE QuietLinks /\ \E where \in Pcs : QuietMove(k, where)
    <2>1. QuietLinks BY <1>0, <1>7 DEF ReadStep, ReadFails, CheckContext, CheckReconnecting, ReadEnds, TypeOK
    <2> QED BY <1>7, <2>1 DEF ReadStep, ReadFails, CheckContext, CheckReconnecting, ReadEnds
  <1>8. ASSUME NEW w \in Writers, WriteStep(w)
        PROVE  QuietLinks /\ (UNCHANGED pc \/ \E where \in Pcs : QuietMove(w, where))
    <2>1. QuietLinks
      BY <1>0, <1>8 DEF WriteStep, WriteLocks, WriteSucceeds, WriteErrs, WriteInterrupted, WriteDecrements,
                        WriteRelocks, WriteGivesUp, TypeOK
    <2> QED BY <1>8, <2>1
      DEF WriteStep, WriteLocks, WriteSucceeds, WriteErrs, WriteInterrupted, WriteDecrements, WriteRelocks,
          WriteGivesUp, WriteFails
  <1>9. CASE UNCHANGED vars BY <1>9 DEF vars
  <1> QED BY <1>1, <1>2, <1>3, <1>4, <1>5, <1>6, <1>7, <1>8, <1>9, ProcsFacts
    DEF Next, Environment, Scheduled, ConnectStep, SwitchStep

(* Who dials, marks, publishes or announces holds writeMtx, and is the only one. *)
LEMMA OneSwitches ==
    ASSUME OneWriterOrConnector, NEW p \in Procs, NEW q \in Procs, pc[p] \in ConnectPcs, pc[q] \in ConnectPcs
    PROVE  p = q
  BY DEF OneWriterOrConnector, Connecting

LEMMA NextSwitch == IInv /\ [Next]_vars => ReaderInv' /\ SwitchInv'
  <1> SUFFICES ASSUME IInv, [Next]_vars PROVE ReaderInv' /\ SwitchInv'
    OBVIOUS
  <1> USE DEF Goto
  <1>0. TypeOK /\ OneWriterOrConnector /\ ReaderInv /\ SwitchInv BY DEF IInv
  <1>1. ASSUME NEW p \in Procs, ConnectLocks(p) PROVE ReaderInv' /\ SwitchInv'
    <2>1. /\ UNCHANGED <<conn, link, redundant, isConnected>> /\ oldConn' = conn /\ writeMtx = Nobody
          /\ pc[p] = "connect" /\ pc' = [pc EXCEPT ![p] = "dial"]
      BY <1>1 DEF ConnectLocks
    <2>2. \A q \in Procs : pc[q] \notin ConnectPcs /\ (Switching(q)' => Switching(q))
      BY <1>0, <2>1, ProcsFacts DEF OneWriterOrConnector, Connecting, Switching, TypeOK
    <2>3. ReaderInv' BY <1>0, <2>1, <2>2, ProcsFacts DEF ReaderInv, TypeOK
    <2>4. \A q \in Procs : pc[q] # "mark" /\ pc'[q] # "mark" BY <1>0, <2>1, <2>2 DEF ConnectPcs, TypeOK
    <2>5. SwitchInv' BY <1>0, <2>1, <2>4 DEF SwitchInv
    <2> QED BY <2>3, <2>5
  <1>2. ASSUME NEW p \in Procs, DialSucceeds(p) PROVE ReaderInv' /\ SwitchInv'
    <2>1. PICK k \in Conns : link[k] = "new" /\ conn' = k /\ link' = [link EXCEPT ![k] = "open"]
      BY <1>2 DEF DialSucceeds
    <2>2. /\ UNCHANGED <<oldConn, redundant, isConnected>>
          /\ pc[p] = "dial" /\ pc' = [pc EXCEPT ![p] = "mark"]
      BY <1>2 DEF DialSucceeds, flags
    <2>3. \A q \in Procs \ {p} : pc[q] \notin ConnectPcs /\ pc'[q] = pc[q]
      BY <1>0, <2>2, OneSwitches DEF ConnectPcs, TypeOK
    <2>4. pc[k] = "idle" /\ k # p /\ k # conn /\ k \notin redundant /\ oldConn = conn
      BY <1>0, <2>1, <2>2 DEF ReaderInv, SwitchInv
    <2>5. pc'[k] = "idle" /\ pc'[p] = "mark" BY <1>0, <2>2, <2>4, ProcsFacts DEF TypeOK
    <2>6. ReaderInv'
      <3>1. \A j \in Conns : link'[j] = "new" => pc'[j] = "idle"
        BY <1>0, <2>1, <2>2, <2>3, ProcsFacts DEF ReaderInv, TypeOK
      <3> QED BY <2>1, <2>5, <3>1 DEF ReaderInv
    <2>7. SwitchInv'
      <3>1. \A q \in Procs : pc'[q] # "dial" /\ (pc[q] # "mark") BY <2>2, <2>3, <2>5 DEF ConnectPcs
      <3>2. \A j \in Conns : link'[j] = "new" => link[j] = "new" /\ j # k BY <1>0, <2>1 DEF TypeOK
      <3>3. \A j \in Conns : link'[j] \in {"open", "broken"} => j = k \/ link[j] \in {"open", "broken"}
        BY <1>0, <2>1 DEF TypeOK
      <3> QED BY <1>0, <2>1, <2>2, <2>4, <2>5, <3>1, <3>2, <3>3 DEF SwitchInv
    <2> QED BY <2>6, <2>7
  <1>3. ASSUME NEW p \in Procs, MarkOldRedundant(p) PROVE ReaderInv' /\ SwitchInv'
    <2>1. /\ UNCHANGED <<conn, oldConn, link, isConnected>> /\ redundant' = redundant \cup ({oldConn} \ {NoConn})
          /\ pc[p] = "mark" /\ pc' = [pc EXCEPT ![p] = "publish"]
      BY <1>3 DEF MarkOldRedundant, flags
    <2>2. \A q \in Procs : (Switching(q)' <=> Switching(q)) /\ pc'[q] # "mark" /\ (pc'[q] = "dial" => pc[q] = "dial")
      BY <1>0, <2>1, OneSwitches DEF Switching, ConnectPcs, TypeOK
    <2>3. ReaderInv' BY <1>0, <2>1, <2>2, ProcsFacts DEF ReaderInv, TypeOK
    <2>4. oldConn # conn BY <1>0, <2>1 DEF SwitchInv
    <2>5. oldConn \in Conns => link[oldConn] # "new"
      <3>1. \A j \in Conns : link[j] = "new" => j # oldConn BY <1>0, <2>1 DEF SwitchInv
      <3> QED BY <3>1
    <2>6. SwitchInv' BY <1>0, <2>1, <2>2, <2>4, <2>5, ProcsFacts DEF SwitchInv, TypeOK
    <2> QED BY <2>3, <2>6
  <1>4. ASSUME NEW p \in Procs, Publish(p) PROVE ReaderInv' /\ SwitchInv'
    <2>1. /\ UNCHANGED <<conn, oldConn, link, redundant>>
          /\ pc[p] = "publish" /\ pc' = [pc EXCEPT ![p] = "announce"]
      BY <1>4 DEF Publish, conns
    <2>2. \A q \in Procs : /\ Switching(q)' <=> Switching(q)
                           /\ pc'[q] = "mark" <=> pc[q] = "mark"
                           /\ pc'[q] = "dial" => pc[q] = "dial"
      BY <1>0, <2>1 DEF Switching, TypeOK
    <2>3. conn \in Conns BY <1>0, <2>1 DEF ReaderInv, Switching
    <2>4. ReaderInv' BY <1>0, <2>1, <2>2, <2>3, ProcsFacts DEF ReaderInv, TypeOK
    <2>5. SwitchInv' BY <1>0, <2>1, <2>2 DEF SwitchInv
    <2> QED BY <2>4, <2>5
  <1>5. ASSUME NEW p \in Procs, Announce(p) PROVE ReaderInv' /\ SwitchInv'
    <2>1. /\ UNCHANGED <<conn, oldConn, link, redundant, isConnected>>
          /\ pc[p] = "announce" /\ pc' = [pc EXCEPT ![p] = "flush", ![conn] = "reading"]
      BY <1>5 DEF Announce, conns
    <2>2. conn \in Conns /\ pc[conn] = "idle" BY <1>0, <2>1 DEF ReaderInv, Switching
    <2>3. \A q \in Procs : ~Switching(q)'
      BY <1>0, <2>1, <2>2, OneSwitches, ProcsFacts DEF Switching, ConnectPcs, TypeOK
    <2>4. \A q \in Procs : (pc'[q] = "mark" <=> pc[q] = "mark") /\ (pc'[q] = "dial" => pc[q] = "dial")
      BY <1>0, <2>1, <2>2 DEF TypeOK
    <2>5. ReaderInv'
      <3>1. \A j \in Conns : link[j] = "new" => pc'[j] = "idle"
        BY <1>0, <2>1, ProcsFacts DEF ReaderInv, SwitchInv, TypeOK
      <3> QED BY <1>0, <2>1, <2>3, <3>1 DEF ReaderInv
    <2>6. SwitchInv' BY <1>0, <2>1, <2>4 DEF SwitchInv
    <2> QED BY <2>5, <2>6
  <1>6. CASE \A p \in Procs : ~SwitchStep(p) BY <1>0, <1>6, OtherStepsAreQuiet, QuietKeeps
  <1> QED BY <1>1, <1>2, <1>3, <1>4, <1>5, <1>6 DEF SwitchStep

-----------------------------------------------------------------------------
(* The flag, and the read goroutine of the current connection. *)

LEMMA NextFlagInv == IInv /\ [Next]_vars => FlagInv'
  <1> SUFFICES ASSUME IInv, [Next]_vars, failures' = 0, reconnecting'
               PROVE  \E p \in Procs : Dialling(p)' \/ Switching(p)'
    BY DEF FlagInv
  <1> USE DEF flags, conns, Goto, End, Dialling, Switching
  <1>0. TypeOK /\ FlagInv BY DEF IInv
  <1>1. ASSUME failures = 0, reconnecting,
               \A q \in Procs : Dialling(q) \/ Switching(q) => Dialling(q)' \/ Switching(q)'
        PROVE  \E p \in Procs : Dialling(p)' \/ Switching(p)'
    BY <1>0, <1>1 DEF FlagInv
  <1>2. ASSUME UNCHANGED <<reconnecting, failures>>, NEW p \in Procs, ~Dialling(p), ~Switching(p),
               NEW where, pc' = [pc EXCEPT ![p] = where]
        PROVE  \E q \in Procs : Dialling(q)' \/ Switching(q)'
    BY <1>0, <1>1, <1>2 DEF TypeOK
  <1>3. ASSUME NEW p \in Procs, StartConnect(p) \/ StartReconnect(p) \/ PreventAutoReconnect(p) \/ StartWrite(p)
        PROVE  \E q \in Procs : Dialling(q)' \/ Switching(q)'
    BY <1>2, <1>3 DEF StartConnect, StartReconnect, PreventAutoReconnect, StartWrite
  <1>4. ASSUME NEW k \in Conns, LinkBreaks(k) \/ ReadCloseFrame(k)
        PROVE  \E q \in Procs : Dialling(q)' \/ Switching(q)'
    BY <1>1, <1>2, <1>4, ProcsFacts DEF LinkBreaks, ReadCloseFrame
  <1>5. ASSUME NEW p \in Procs, ConnectStep(p) PROVE \E q \in Procs : Dialling(q)' \/ Switching(q)'
    <2>1. CASE ConnectLocks(p) \/ DialSucceeds(p) \/ MarkOldRedundant(p) \/ Publish(p)
      <3>1. pc'[p] \in {"dial", "mark", "publish", "announce"}
        BY <1>0, <2>1 DEF ConnectLocks, DialSucceeds, MarkOldRedundant, Publish, TypeOK
      <3> QED BY <3>1
    <2>2. CASE DialFails(p)
      <3>1. failures' = failures + 1 /\ failures \in Nat BY <1>0, <2>2 DEF DialFails, TypeOK
      <3> QED BY <3>1
    <2>3. CASE Announce(p) BY <2>3 DEF Announce
    <2>4. CASE Flush(p)
      <3>1. UNCHANGED <<reconnecting, failures>> /\ pc[p] = "flush" BY <2>4 DEF Flush
      <3>2. \E where \in {"done", "clear"} : pc' = [pc EXCEPT ![p] = where] BY <2>4 DEF Flush
      <3> QED BY <1>2, <3>1, <3>2
    <2> QED BY <1>5, <2>1, <2>2, <2>3, <2>4 DEF ConnectStep
  <1>6. ASSUME NEW p \in Procs, Swap(p) PROVE \E q \in Procs : Dialling(q)' \/ Switching(q)'
    <2>1. CASE reconnecting
      <3>1. pc[p] = "swap" /\ pc' = [pc EXCEPT ![p] = "await"] /\ UNCHANGED failures BY <1>6, <2>1 DEF Swap
      <3> QED BY <1>0, <1>1, <2>1, <3>1 DEF TypeOK
    <2>2. CASE ~reconnecting
      <3>1. pc' = [pc EXCEPT ![p] = "connect"] BY <1>6, <2>2 DEF Swap
      <3> QED BY <1>0, <3>1 DEF TypeOK
    <2> QED BY <2>1, <2>2
  <1>7. ASSUME NEW p \in Procs, AwaitOther(p) \/ HandleNetworkInterrupt(p) \/ CloseStep(p)
        PROVE  \E q \in Procs : Dialling(q)' \/ Switching(q)'
    <2>1. UNCHANGED <<reconnecting, failures>> /\ ~Dialling(p) /\ ~Switching(p)
      BY <1>7 DEF AwaitOther, HandleNetworkInterrupt, CloseStep, CloseSwaps, CloseConn
    <2>2. \E where \in Pcs : pc' = [pc EXCEPT ![p] = where]
      BY <1>7 DEF AwaitOther, HandleNetworkInterrupt, ReconnectReturns, CloseStep, CloseSwaps, CloseConn, CloseReturns,
                  Pcs
    <2> QED BY <1>2, <2>1, <2>2
  <1>8. ASSUME NEW p \in Procs, ClearReconnecting(p) PROVE \E q \in Procs : Dialling(q)' \/ Switching(q)'
    BY <1>8 DEF ClearReconnecting
  <1>9. ASSUME NEW k \in Readers, ReadStep(k) PROVE \E q \in Procs : Dialling(q)' \/ Switching(q)'
    BY <1>2, <1>9, ProcsFacts DEF ReadStep, ReadFails, CheckContext, CheckReconnecting, ReadEnds
  <1>10. ASSUME NEW w \in Writers, WriteStep(w) PROVE \E q \in Procs : Dialling(q)' \/ Switching(q)'
    <2>1. UNCHANGED <<reconnecting, failures>> /\ ~Dialling(w) /\ ~Switching(w) /\ w \in Procs
      BY <1>10, ProcsFacts
      DEF WriteStep, WriteLocks, WriteSucceeds, WriteErrs, WriteInterrupted, WriteDecrements, WriteRelocks, WriteGivesUp
    <2>2. UNCHANGED pc \/ \E where \in Pcs : pc' = [pc EXCEPT ![w] = where]
      BY <1>10
      DEF WriteStep, WriteLocks, WriteSucceeds, WriteErrs, WriteInterrupted, WriteDecrements, WriteRelocks, WriteGivesUp,
          WriteFails, Pcs
    <2> QED BY <1>1, <1>2, <2>1, <2>2
  <1>11. CASE UNCHANGED vars BY <1>1, <1>11 DEF vars
  <1> QED BY <1>3, <1>4, <1>5, <1>6, <1>7, <1>8, <1>9, <1>10, <1>11
    DEF Next, Environment, Scheduled, ReconnectStep

(* A step that leaves the current connection and its read goroutine alone. *)
LEMMA CurrentReaderFrame ==
    ASSUME CurrentReaderInv, UNCHANGED conn, isConnected' => isConnected, abnormal \subseteq abnormal',
           failures' = 0 => failures = 0, ~preventAutoReconnect' => ~preventAutoReconnect,
           conn \in Conns => pc'[conn] = pc[conn],
           failures' = 0 => \A q \in Procs : Dialling(q) => Dialling(q)'
    PROVE  CurrentReaderInv'
  BY DEF CurrentReaderInv

(* When the flag is set and the read goroutine of the current connection   *)
(* runs, somebody else is about to replace this connection.                *)
LEMMA FlagMeansDialling ==
    ASSUME ReaderInv, FlagInv, failures = 0, reconnecting, conn \in Conns, pc[conn] # "idle"
    PROVE  \E p \in Procs : Dialling(p)
  BY DEF ReaderInv, FlagInv

(* The steps of this read goroutine itself. *)
LEMMA CurrentReaderStep ==
    ASSUME IInv, NEW k \in Conns, k = conn,
           \/ ReadStep(k) \/ ReadCloseFrame(k) \/ ReconnectStep(k) \/ CloseStep(k) \/ HandleNetworkInterrupt(k)
    PROVE  CurrentReaderInv'
  <1> USE DEF flags, conns, Goto, End
  <1>0. TypeOK /\ ReaderInv /\ SwitchInv /\ FlagInv /\ CurrentReaderInv /\ k \notin redundant
    BY DEF IInv, SwitchInv
  <1>1. k \in Procs /\ k \notin Writers \cup Closers \cup Reconnectors BY ProcsFacts
  <1>2. UNCHANGED conn /\ \A q \in Procs \ {k} : pc'[q] = pc[q]
    BY <1>0, <1>1
    DEF ReadStep, ReadFails, CheckContext, CheckReconnecting, ReadEnds, ReadCloseFrame, ReconnectStep, Swap, AwaitOther,
        ClearReconnecting, ReconnectReturns, CloseStep, CloseSwaps, CloseConn, CloseReturns, HandleNetworkInterrupt, TypeOK
  <1>a. ASSUME pc'[k] \in {"close", "checkFlag", "interrupt", "swap", "connect"} PROVE CurrentReaderInv'
    BY <1>2, <1>a DEF CurrentReaderInv
  <1>b. ASSUME pc'[k] \in {"await", "ending", "done"},
               failures' = 0 /\ ~preventAutoReconnect' /\ isConnected' => \E q \in Procs \ {k} : Dialling(q)
        PROVE  CurrentReaderInv'
    BY <1>2, <1>b DEF CurrentReaderInv, Dialling
  <1>3. CASE ReadFails(k)
    <2>1. pc'[k] = "failed" /\ k \in abnormal' BY <1>0, <1>1, <1>3 DEF ReadFails, TypeOK
    <2> QED BY <1>2, <2>1 DEF CurrentReaderInv
  <1>4. CASE ReadCloseFrame(k) BY <1>0, <1>1, <1>4, <1>a DEF ReadCloseFrame, TypeOK
  <1>5. CASE CheckContext(k)
    <2>1. CASE k \in abnormal BY <1>0, <1>1, <1>5, <1>a, <2>1 DEF CheckContext, TypeOK
    <2>2. CASE k \notin abnormal
      <3>1. ~isConnected' BY <1>0, <1>5, <2>2 DEF CheckContext, CurrentReaderInv
      <3>2. pc'[k] = "ending" BY <1>0, <1>1, <1>5, <2>2 DEF CheckContext, TypeOK
      <3> QED BY <1>b, <3>1, <3>2
    <2> QED BY <2>1, <2>2
  <1>6. CASE CheckReconnecting(k)
    <2>1. CASE reconnecting
      <3>1. pc[k] = "checkFlag" /\ pc'[k] = "ending" /\ failures' = failures
        BY <1>0, <1>1, <1>6, <2>1 DEF CheckReconnecting, TypeOK
      <3>2. failures = 0 => \E q \in Procs \ {k} : Dialling(q)
        BY <1>0, <2>1, <3>1, FlagMeansDialling DEF Dialling
      <3> QED BY <1>b, <3>1, <3>2
    <2>2. CASE ~reconnecting BY <1>0, <1>1, <1>6, <1>a, <2>2 DEF CheckReconnecting, TypeOK
    <2> QED BY <2>1, <2>2
  <1>7. CASE ReadEnds(k) \/ AwaitOther(k)
    <2>1. /\ pc[k] \in {"ending", "await"} /\ pc'[k] \in {"ending", "done"}
          /\ UNCHANGED <<failures, preventAutoReconnect, isConnected>>
      BY <1>0, <1>1, <1>7, ProcsFacts DEF ReadEnds, AwaitOther, ReconnectReturns, TypeOK
    <2>2. failures = 0 /\ ~preventAutoReconnect /\ isConnected => \E q \in Procs \ {k} : Dialling(q)
      BY <1>0, <2>1 DEF CurrentReaderInv, Dialling
    <2> QED BY <1>b, <2>1, <2>2
  <1>8. CASE Swap(k)
    <2>1. CASE reconnecting
      <3>1. pc[k] = "swap" /\ pc'[k] = "await" /\ failures' = failures BY <1>0, <1>1, <1>8, <2>1 DEF Swap, TypeOK
      <3>2. failures = 0 => \E q \in Procs \ {k} : Dialling(q)
        BY <1>0, <2>1, <3>1, FlagMeansDialling DEF Dialling
      <3> QED BY <1>b, <3>1, <3>2
    <2>2. CASE ~reconnecting BY <1>0, <1>1, <1>8, <1>a, <2>2 DEF Swap, TypeOK
    <2> QED BY <2>1, <2>2
  <1>9. CASE ClearReconnecting(k)
    <2>1. failures # 0 /\ failures' = failures BY <1>0, <1>9 DEF ClearReconnecting, CurrentReaderInv
    <2>2. pc'[k] = "ending" BY <1>0, <1>1, <1>9, ProcsFacts DEF ClearReconnecting, ReconnectReturns, TypeOK
    <2> QED BY <1>b, <2>1, <2>2
  <1>10. CASE CloseSwaps(k)
    <2>1. ~isConnected' BY <1>10 DEF CloseSwaps
    <2>2. pc'[k] \in {"closeConn", "failed"} BY <1>0, <1>1, <1>10 DEF CloseSwaps, CloseReturns, TypeOK
    <2> QED BY <1>2, <2>1, <2>2 DEF CurrentReaderInv
  <1>11. CASE CloseConn(k)
    <2>1. ~isConnected' BY <1>0, <1>11 DEF CloseConn, CurrentReaderInv
    <2>2. pc'[k] = "failed" BY <1>0, <1>1, <1>11 DEF CloseConn, CloseReturns, TypeOK
    <2> QED BY <1>2, <2>1, <2>2 DEF CurrentReaderInv
  <1>12. CASE HandleNetworkInterrupt(k)
    <2>1. CASE preventAutoReconnect
      <3>1. pc'[k] = "ending" /\ preventAutoReconnect'
        BY <1>0, <1>1, <1>12, <2>1, ProcsFacts DEF HandleNetworkInterrupt, ReconnectReturns, TypeOK
      <3> QED BY <1>b, <3>1
    <2>2. CASE ~preventAutoReconnect BY <1>0, <1>1, <1>12, <1>a, <2>2 DEF HandleNetworkInterrupt, TypeOK
    <2> QED BY <2>1, <2>2
  <1> QED BY <1>3, <1>4, <1>5, <1>6, <1>7, <1>8, <1>9, <1>10, <1>11, <1>12 DEF ReadStep, ReconnectStep, CloseStep

(* The steps of Connect, by whichever goroutine. *)
LEMMA CurrentReaderConnect ==
    ASSUME IInv, NEW p \in Procs, ConnectStep(p)
    PROVE  CurrentReaderInv'
  <1> USE DEF flags, conns, Goto, End
  <1>0. TypeOK /\ OneWriterOrConnector /\ ReaderInv /\ SwitchInv /\ CurrentReaderInv
    BY DEF IInv
  <1>1. CASE ConnectLocks(p)
    <2>1. /\ UNCHANGED <<conn, isConnected, abnormal, failures, preventAutoReconnect>>
          /\ pc[p] = "connect" /\ pc' = [pc EXCEPT ![p] = "dial"]
      BY <1>1 DEF ConnectLocks
    <2>2. \A q \in Procs : Dialling(q) => Dialling(q)' BY <1>0, <2>1 DEF Dialling, TypeOK
    <2>3. CASE p # conn
      <3>1. conn \in Conns => pc'[conn] = pc[conn] BY <1>0, <2>1, <2>3, ProcsFacts DEF TypeOK
      <3> QED BY <1>0, <2>1, <2>2, <3>1, CurrentReaderFrame
    <2>4. CASE p = conn BY <1>0, <2>1, <2>4 DEF CurrentReaderInv, TypeOK
    <2> QED BY <2>3, <2>4
  <1>2. CASE DialSucceeds(p)
    <2>1. PICK k \in Conns : link[k] = "new" /\ conn' = k BY <1>2 DEF DialSucceeds
    <2>2. pc[k] = "idle" /\ pc[p] = "dial" /\ pc' = [pc EXCEPT ![p] = "mark"]
      BY <1>0, <1>2, <2>1 DEF DialSucceeds, ReaderInv
    <2>3. pc'[k] = "idle" BY <1>0, <2>2, ProcsFacts DEF TypeOK
    <2> QED BY <2>1, <2>3 DEF CurrentReaderInv
  <1>3. CASE DialFails(p)
    <2>1. failures' # 0 /\ UNCHANGED <<conn, isConnected, abnormal>> /\ pc[p] = "dial"
      BY <1>0, <1>3 DEF DialFails, TypeOK
    <2>2. \E where \in {"done", "clear"} : pc' = [pc EXCEPT ![p] = where] BY <1>3 DEF DialFails
    <2>3. ASSUME NEW k \in Conns, k = conn
          PROVE  /\ pc'[k] = "closeConn" \/ (pc'[k] = "failed" /\ k \notin abnormal) => ~isConnected
                 /\ pc'[k] # "flush"
      BY <1>0, <2>1, <2>2, <2>3, ProcsFacts DEF CurrentReaderInv, TypeOK
    <2> QED BY <2>1, <2>3 DEF CurrentReaderInv
  <1>4. CASE MarkOldRedundant(p) \/ Publish(p)
    <2>1. /\ UNCHANGED conn /\ Switching(p)
          /\ \E where \in Pcs : pc' = [pc EXCEPT ![p] = where]
      BY <1>4 DEF MarkOldRedundant, Publish, Switching, Pcs, ConnectPcs
    <2>2. pc'[conn] = "idle" BY <1>0, <2>1, ProcsFacts DEF ReaderInv, Switching, TypeOK
    <2> QED BY <2>1, <2>2 DEF CurrentReaderInv
  <1>5. CASE Announce(p)
    <2>1. UNCHANGED conn /\ conn \in Conns BY <1>0, <1>5 DEF Announce, ReaderInv, Switching
    <2>2. pc'[conn] = "reading" BY <1>0, <1>5, <2>1, ProcsFacts DEF Announce, TypeOK
    <2> QED BY <2>1, <2>2 DEF CurrentReaderInv
  <1>6. CASE Flush(p)
    <2>1. UNCHANGED <<conn, isConnected, abnormal, failures, preventAutoReconnect>> /\ pc[p] = "flush"
      BY <1>6 DEF Flush
    <2>2. \E where \in {"done", "clear"} : pc' = [pc EXCEPT ![p] = where] BY <1>6 DEF Flush
    <2>3. conn \in Conns => p # conn BY <1>0, <2>1 DEF CurrentReaderInv
    <2>4. conn \in Conns => pc'[conn] = pc[conn] BY <1>0, <2>2, <2>3, ProcsFacts DEF TypeOK
    <2>5. \A q \in Procs : Dialling(q) => Dialling(q)' BY <1>0, <2>1, <2>2 DEF Dialling, TypeOK
    <2> QED BY <1>0, <2>1, <2>4, <2>5, CurrentReaderFrame
  <1> QED BY <1>1, <1>2, <1>3, <1>4, <1>5, <1>6 DEF ConnectStep

LEMMA NextCurrentReader == IInv /\ [Next]_vars => CurrentReaderInv'
  <1> SUFFICES ASSUME IInv, [Next]_vars PROVE CurrentReaderInv'
    OBVIOUS
  <1> USE DEF flags, conns, Goto, End
  <1>0. TypeOK /\ CurrentReaderInv BY DEF IInv
  <1>1. ASSUME UNCHANGED <<conn, failures>>, isConnected' => isConnected, abnormal \subseteq abnormal',
               ~preventAutoReconnect' => ~preventAutoReconnect, NEW p \in Procs, p # conn, ~Dialling(p),
               NEW where \in Pcs, pc' = [pc EXCEPT ![p] = where]
        PROVE  CurrentReaderInv'
    <2>1. conn \in Conns => pc'[conn] = pc[conn] BY <1>0, <1>1, ProcsFacts DEF TypeOK
    <2>2. \A q \in Procs : Dialling(q) => Dialling(q)' BY <1>0, <1>1 DEF Dialling, TypeOK
    <2> QED BY <1>0, <1>1, <2>1, <2>2, CurrentReaderFrame
  <1>2. ASSUME UNCHANGED <<conn, failures, isConnected, abnormal, preventAutoReconnect, pc>> PROVE CurrentReaderInv'
    BY <1>0, <1>2 DEF CurrentReaderInv, Dialling
  <1>3. ASSUME NEW p \in Procs, StartConnect(p) \/ StartReconnect(p) \/ PreventAutoReconnect(p) \/ StartWrite(p)
        PROVE  CurrentReaderInv'
    <2>1. p \notin Conns /\ ~Dialling(p)
      BY <1>3, ProcsFacts DEF StartConnect, StartReconnect, PreventAutoReconnect, StartWrite, Dialling
    <2>2. /\ UNCHANGED <<conn, failures, isConnected, abnormal>>
          /\ ~preventAutoReconnect' => ~preventAutoReconnect
          /\ \E where \in Pcs : pc' = [pc EXCEPT ![p] = where]
      BY <1>3 DEF StartConnect, StartReconnect, PreventAutoReconnect, StartWrite, Pcs
    <2>3. CASE p # conn BY <1>1, <2>1, <2>2, <2>3
    <2>4. CASE p = conn BY <2>1, <2>2, <2>4 DEF CurrentReaderInv
    <2> QED BY <2>3, <2>4
  <1>4. ASSUME NEW k \in Conns, LinkBreaks(k) PROVE CurrentReaderInv' BY <1>2, <1>4 DEF LinkBreaks
  <1>5. ASSUME NEW p \in Procs, ConnectStep(p) PROVE CurrentReaderInv' BY <1>5, CurrentReaderConnect
  <1>6. ASSUME NEW p \in Procs,
               \/ p \in Readers /\ (ReadStep(p) \/ ReadCloseFrame(p))
               \/ ReconnectStep(p) \/ CloseStep(p) \/ HandleNetworkInterrupt(p)
        PROVE  CurrentReaderInv'
    <2>0. ASSUME UNCHANGED <<conn, failures, preventAutoReconnect>>, isConnected' = isConnected \/ ~isConnected',
                 abnormal' = abnormal \/ abnormal' = abnormal \cup {p},
                 pc[p] \in {"reading", "failed", "checkFlag", "ending", "swap", "await", "clear", "interrupt",
                            "close", "closeConn"}
          PROVE  /\ UNCHANGED <<conn, failures, preventAutoReconnect>> /\ (isConnected' => isConnected)
                 /\ abnormal \subseteq abnormal' /\ ~Dialling(p)
      BY <2>0 DEF Dialling
    <2>1. /\ UNCHANGED <<conn, failures, preventAutoReconnect>> /\ (isConnected' => isConnected)
          /\ abnormal \subseteq abnormal' /\ ~Dialling(p)
      <3>1. CASE ReadStep(p) BY <2>0, <3>1 DEF ReadStep, ReadFails, CheckContext, CheckReconnecting, ReadEnds
      <3>2. CASE ReadCloseFrame(p) BY <2>0, <3>2 DEF ReadCloseFrame
      <3>3. CASE ReconnectStep(p) BY <2>0, <3>3 DEF ReconnectStep, Swap, AwaitOther, ClearReconnecting
      <3>4. CASE CloseStep(p) BY <2>0, <3>4 DEF CloseStep, CloseSwaps, CloseConn
      <3>5. CASE HandleNetworkInterrupt(p) BY <2>0, <3>5 DEF HandleNetworkInterrupt
      <3> QED BY <1>6, <3>1, <3>2, <3>3, <3>4, <3>5
    <2>2. \E where \in Pcs : pc' = [pc EXCEPT ![p] = where]
      BY <1>6 DEF ReadStep, ReadFails, CheckContext, CheckReconnecting, ReadEnds, ReadCloseFrame, ReconnectStep, Swap,
        AwaitOther, ClearReconnecting, ReconnectReturns, CloseStep, CloseSwaps, CloseConn, CloseReturns,
        HandleNetworkInterrupt, Pcs
    <2>3. CASE p # conn BY <1>1, <2>1, <2>2, <2>3
    <2>4. CASE p = conn /\ p \in Conns BY <1>6, <2>4, CurrentReaderStep
    <2>5. CASE p = conn /\ p \notin Conns BY <2>1, <2>5 DEF CurrentReaderInv
    <2> QED BY <2>3, <2>4, <2>5
  <1>7. ASSUME NEW w \in Writers, WriteStep(w) PROVE CurrentReaderInv'
    <2>1. /\ UNCHANGED <<conn, failures, isConnected, preventAutoReconnect, abnormal>>
          /\ ~Dialling(w) /\ w \in Procs /\ w \notin Conns
      BY <1>7, ProcsFacts
      DEF WriteStep, WriteLocks, WriteSucceeds, WriteErrs, WriteInterrupted, WriteDecrements, WriteRelocks, WriteGivesUp,
          Dialling
    <2>2. UNCHANGED pc \/ \E where \in Pcs : pc' = [pc EXCEPT ![w] = where]
      BY <1>7
      DEF WriteStep, WriteLocks, WriteSucceeds, WriteErrs, WriteInterrupted, WriteDecrements, WriteRelocks, WriteGivesUp,
          WriteFails, Pcs
    <2>3. CASE w # conn BY <1>1, <1>2, <2>1, <2>2, <2>3
    <2>4. CASE w = conn BY <2>1, <2>4 DEF CurrentReaderInv
    <2> QED BY <2>3, <2>4
  <1>8. CASE UNCHANGED vars BY <1>2, <1>8 DEF vars
  <1> QED BY <1>3, <1>4, <1>5, <1>6, <1>7, <1>8, ProcsFacts DEF Next, Environment, Scheduled

-----------------------------------------------------------------------------
LEMMA InductiveInvariant == Spec => []IInv
  <1>1. IInv /\ [Next]_vars => IInv'
    BY NextTypeOK, NextOneWriter, NextSwitch, NextFlagInv, NextCurrentReader DEF IInv
  <1> QED BY <1>1, InitIInv, PTL DEF Spec

(* The transport is well typed, whatever goroutines use it. *)
THEOREM TransportTypeCorrect == Spec => []TypeOK
  <1>1. IInv => TypeOK BY DEF IInv
  <1> QED BY <1>1, InductiveInvariant, PTL

(* writeMtx (websocket.go:85 and 285) is held by exactly the goroutine     *)
(* that writes a frame or replaces the connection, although Write lets go  *)
(* of it to reconnect and takes it again (lines 295 to 299).               *)
THEOREM WriteMutexHolds == Spec => []OneWriterOrConnector
  <1>1. IInv => OneWriterOrConnector BY DEF IInv
  <1> QED BY <1>1, InductiveInvariant, PTL

(* Whatever calls of Connect and Reconnect overlap and however often they  *)
(* fail, one connection is the main one (websocket.go:133): any other that *)
(* is open is marked redundant, and the main one is not.                   *)
THEOREM MainConnectionIsOne == Spec => []OneMainConnection
  <1>1. IInv => OneMainConnection BY DEF IInv, SwitchInv, OneMainConnection
  <1> QED BY <1>1, InductiveInvariant, PTL

(* As long as Dial works and nobody prevents it, a dead connection is not  *)
(* forgotten: its read goroutine (websocket.go:175) is not over unless     *)
(* somebody is about to replace the connection.                            *)
THEOREM DeadConnectionsAreHandled == Spec => []DeadConnectionIsHandled
  <1>1. IInv => DeadConnectionIsHandled
    BY DEF IInv, ReaderInv, CurrentReaderInv, DeadConnectionIsHandled, WillConnect, Connecting, ConnectPcs, Dialling
  <1> QED BY <1>1, InductiveInvariant, PTL

=============================================================================
