---------------------------- MODULE ServerStateProofs ----------------------------
(***************************************************************************)
(* Theorems about ServerState, for any number of goroutines of the         *)
(* application, of handlers and of heartbeats, any number of lives and of  *)
(* messages, and whatever the requests return.                             *)
(***************************************************************************)
EXTENDS ServerState, TLAPS

(* ProcessReady has set the ready flag at most once so far: a goroutine    *)
(* that has set it and one that has made its channel, or two of either,    *)
(* would be two.  A second life breaks this, and there the two properties  *)
(* below can fail: a stop of the first life may close the channel of the   *)
(* second.                                                                 *)
ReadyOnce ==
    /\ \A k \in Chans \ {1} : loop[k] = "none"
    /\ \A g, h \in Goroutines : pc[g] = "makeShutdown" /\ pc[h] = "makeShutdown" => g = h
    /\ \A g \in Goroutines : pc[g] = "makeShutdown" => loop[1] = "none"

(* A goroutine that has taken the ready flag, and may close the channel. *)
Stopping(g) == pc[g] \in {"checkOpen", "closeShutdown"}

(* The flag belongs to whoever takes it, so that one goroutine at most is  *)
(* about to close the channel, and only while it is open.                  *)
StopInv ==
    /\ \A g, h \in Goroutines : Stopping(g) /\ Stopping(h) => g = h
    /\ \A g \in Goroutines : Stopping(g) => ~isReadyProcess /\ closed = {}
    /\ \A g \in Goroutines : pc[g] = "closeShutdown" => shutdown = 1
    /\ isReadyProcess => closed = {}
    /\ (\A g \in Goroutines : pc[g] # "makeShutdown") /\ loop[1] = "none" =>
          ~isReadyProcess /\ \A g \in Goroutines : ~Stopping(g)

(* The channel is made with its health check, which lives as long as the   *)
(* flag is set and the channel is open.                                    *)
LoopInv ==
    /\ shutdown = IF loop[1] = "none" THEN Nil ELSE 1
    /\ closed \subseteq {1} /\ (loop[1] = "none" => closed = {})
    /\ isReadyProcess => loop[1] # "ended"

(* A goroutine that closes has a channel to close, since the field is      *)
(* never set back to nil; and ProcessReady is for the application.         *)
ChannelInv ==
    /\ \A g \in Goroutines : pc[g] = "closeShutdown" => shutdown \in Chans
    /\ \A g \in Goroutines : pc[g] \in {"activating", "makeShutdown"} => g \in Main

IInv == TypeOK /\ ChannelInv /\ (ReadyOnce => StopInv /\ LoopInv /\ ShutdownClosedOnce)
-----------------------------------------------------------------------------
LEMMA Bounds ==
    /\ 1 \in Chans /\ Nil \notin Chans /\ Managers = Chans /\ Managers \subseteq Nat
    /\ Main \subseteq Goroutines /\ Handlers \subseteq Goroutines /\ MaxInits \in Nat
  BY ServerStateAssumption DEF ServerStateAssumption, Chans, Managers, Nil, Goroutines

LEMMA InitIInv == Init => IInv
  <1> SUFFICES ASSUME Init PROVE IInv
    OBVIOUS
  <1> USE Bounds DEF Init
  <1>1. TypeOK
    <2>1. pc \in [Goroutines -> Pcs] /\ of \in [Goroutines -> Managers \cup {Nil}] BY DEF Pcs
    <2>2. {srv, isReadyProcess, terminationTime, initialized, readied, stuck} \subseteq BOOLEAN OBVIOUS
    <2>3. loop \in [Chans -> {"none", "test", "wait", "ended"}] OBVIOUS
    <2>4. beat \in [Beats -> {"free", "health", "report", "sent"}] /\ beatChan \in [Beats -> Chans \cup {Nil}] OBVIOUS
    <2> QED BY <2>1, <2>2, <2>3, <2>4 DEF TypeOK
  <1>2. StopInv /\ LoopInv /\ ShutdownClosedOnce /\ ChannelInv
    BY DEF StopInv, LoopInv, ShutdownClosedOnce, ChannelInv, Stopping
  <1> QED BY <1>1, <1>2 DEF IInv

-----------------------------------------------------------------------------
(* TypeOK by the groups of variables, each kept by the steps that leave    *)
(* its group alone.                                                        *)
ApiTypes ==
    /\ srv \in BOOLEAN /\ initialized \in BOOLEAN /\ readied \in BOOLEAN
    /\ manager \in Managers \cup {Nil} /\ created \in 0..MaxInits
    /\ initResult \in {"none", "nil", "error", "already"}
StateTypes ==
    /\ wsGameLift \in Managers \cup {Nil} /\ gameSessionID \in Managers \cup {Nil} /\ up \in Managers \cup {Nil}
    /\ parameters \in {"nil", "callbacks", "bare"} /\ terminationTime \in BOOLEAN
ReadyTypes == isReadyProcess \in BOOLEAN /\ shutdown \in Chans \cup {Nil} /\ closed \subseteq Chans
CallTypes ==
    /\ pc \in [Goroutines -> Pcs] /\ of \in [Goroutines -> Managers \cup {Nil}]
    /\ task \in [Goroutines -> {"ending", "destroy"}]
    /\ auto \subseteq Handlers /\ endingErr \subseteq auto /\ messages \in Nat
HealthTypes ==
    /\ loop \in [Chans -> {"none", "test", "wait", "ended"}]
    /\ beat \in [Beats -> {"free", "health", "report", "sent"}] /\ beatChan \in [Beats -> Chans \cup {Nil}]
    /\ stuck \in BOOLEAN
Panics == {"nil manager", "heartbeat on nil manager", "close of closed channel"}
EndedType == ended \in {"no", "exit 0", "exit -1"} \cup Panics

LEMMA TypeParts ==
    /\ TypeOK <=> ApiTypes /\ StateTypes /\ ReadyTypes /\ CallTypes /\ HealthTypes /\ EndedType
    /\ ApiTypes' /\ StateTypes' /\ ReadyTypes' /\ CallTypes' /\ HealthTypes' /\ EndedType' => TypeOK'
  <1> USE DEF TypeOK, ApiTypes, StateTypes, ReadyTypes, CallTypes, HealthTypes, EndedType, Panics
  <1>1. TypeOK => ApiTypes OBVIOUS
  <1>2. TypeOK => StateTypes OBVIOUS
  <1>3. TypeOK => ReadyTypes OBVIOUS
  <1>4. TypeOK => CallTypes /\ HealthTypes /\ EndedType OBVIOUS
  <1>5. ApiTypes /\ StateTypes /\ ReadyTypes /\ CallTypes /\ HealthTypes /\ EndedType => TypeOK OBVIOUS
  <1>6. ApiTypes' /\ StateTypes' /\ ReadyTypes' /\ CallTypes' /\ HealthTypes' /\ EndedType' => TypeOK' OBVIOUS
  <1> QED BY <1>1, <1>2, <1>3, <1>4, <1>5, <1>6

LEMMA UnchangedTypes ==
    ASSUME TypeOK
    PROVE  /\ ApiTypes /\ (UNCHANGED apiVars => ApiTypes')
           /\ StateTypes /\ (UNCHANGED stateVars => StateTypes')
           /\ ReadyTypes /\ (UNCHANGED readyVars => ReadyTypes')
           /\ CallTypes /\ (UNCHANGED callVars => CallTypes')
           /\ HealthTypes /\ (UNCHANGED healthVars => HealthTypes')
           /\ EndedType /\ (UNCHANGED ended => EndedType')
  <1>1. ApiTypes /\ StateTypes /\ ReadyTypes /\ CallTypes /\ HealthTypes /\ EndedType BY TypeParts
  <1>2. UNCHANGED apiVars => ApiTypes' BY <1>1 DEF ApiTypes, apiVars
  <1>3. UNCHANGED stateVars => StateTypes' BY <1>1 DEF StateTypes, stateVars
  <1>4. UNCHANGED readyVars => ReadyTypes' BY <1>1 DEF ReadyTypes, readyVars
  <1>5. UNCHANGED callVars => CallTypes' BY <1>1 DEF CallTypes, callVars
  <1>6. UNCHANGED healthVars => HealthTypes' BY <1>1 DEF HealthTypes, healthVars
  <1>7. UNCHANGED ended => EndedType' BY <1>1 DEF EndedType
  <1> QED BY <1>1, <1>2, <1>3, <1>4, <1>5, <1>6, <1>7

-----------------------------------------------------------------------------
(* Type correctness is preserved, by the application's steps, the steps of *)
(* its calls, of the handlers and of the health check.                     *)
LEMMA EnvironmentTypeOK == TypeOK /\ Environment => TypeOK'
  <1> SUFFICES ASSUME TypeOK, Environment PROVE TypeOK'
    OBVIOUS
  <1>1. ASSUME NEW g \in Goroutines, InitSDK(g) PROVE TypeOK'
    <2>1. ReadyTypes' /\ HealthTypes' /\ EndedType' BY <1>1, UnchangedTypes DEF InitSDK
    <2>2. manager' \in Managers \cup {Nil} /\ created' \in 0..MaxInits
      BY <1>1, UnchangedTypes, Bounds DEF InitSDK, ApiTypes, Managers, Nil
    <2>3. ApiTypes' BY <1>1, <2>2, UnchangedTypes DEF InitSDK, ApiTypes
    <2>4. StateTypes' BY <1>1, <2>2, UnchangedTypes DEF InitSDK, StateTypes
    <2>5. UNCHANGED <<pc, of>> \/ (Goto(g, "connecting") /\ of' = [of EXCEPT ![g] = manager']) BY <1>1 DEF InitSDK
    <2>6. CallTypes' BY <1>1, <2>2, <2>5, UnchangedTypes DEF InitSDK, CallTypes, Goto, Pcs
    <2> QED BY <2>1, <2>3, <2>4, <2>6, TypeParts
  <1>2. ASSUME NEW g \in Goroutines, ProcessReady(g) PROVE TypeOK'
    <2>1. ReadyTypes' /\ HealthTypes' BY <1>2, UnchangedTypes DEF ProcessReady
    <2>2. ApiTypes' BY <1>2, UnchangedTypes, Bounds DEF ProcessReady, ApiTypes, apiVars
    <2>3. StateTypes' BY <1>2, UnchangedTypes, Bounds DEF ProcessReady, StateTypes, stateVars
    <2>4. CallTypes' BY <1>2, UnchangedTypes, Bounds DEF ProcessReady, CallTypes, StateTypes, callVars, Goto, Pcs
    <2>5. EndedType' BY <1>2, UnchangedTypes, Bounds DEF ProcessReady, EndedType, Panics, Panic
    <2> QED BY <2>1, <2>2, <2>3, <2>4, <2>5, TypeParts
  <1>3. ASSUME NEW g \in Goroutines, SessionCall(g) PROVE TypeOK'
    <2>1. ApiTypes' /\ StateTypes' /\ ReadyTypes' /\ HealthTypes' /\ EndedType' BY <1>3, UnchangedTypes DEF SessionCall
    <2>2. CallTypes' BY <1>3, UnchangedTypes, Bounds DEF SessionCall, CallTypes, callVars, Goto, Pcs
    <2> QED BY <2>1, <2>2, TypeParts
  <1>4. ASSUME NEW g \in Goroutines, ProcessEnding(g) PROVE TypeOK'
    <2>1. ApiTypes' /\ StateTypes' /\ ReadyTypes' /\ HealthTypes' BY <1>4, UnchangedTypes DEF ProcessEnding
    <2>2. CallTypes' BY <1>4, UnchangedTypes, Bounds DEF ProcessEnding, SendEnding, CallTypes, callVars, Goto, Pcs
    <2>3. EndedType' BY <1>4, UnchangedTypes, Bounds DEF ProcessEnding, SendEnding, EndedType, Panics, Panic
    <2> QED BY <2>1, <2>2, <2>3, TypeParts
  <1>5. ASSUME NEW g \in Goroutines, Destroy(g) PROVE TypeOK'
    <2>1. ApiTypes' /\ StateTypes' /\ ReadyTypes' /\ HealthTypes' /\ EndedType' BY <1>5, UnchangedTypes DEF Destroy
    <2>2. CallTypes' BY <1>5, UnchangedTypes, Bounds DEF Destroy, CallTypes, callVars, Goto, Pcs
    <2> QED BY <2>1, <2>2, TypeParts
  <1>6. ASSUME NEW g \in Goroutines, CallbackReturns(g) PROVE TypeOK'
    <2>1. ApiTypes' /\ StateTypes' /\ ReadyTypes' /\ HealthTypes' /\ EndedType' BY <1>6, UnchangedTypes DEF CallbackReturns
    <2>2. CallTypes' BY <1>6, UnchangedTypes, Bounds DEF CallbackReturns, CallTypes, callVars, Goto, Pcs
    <2> QED BY <2>1, <2>2, TypeParts
  <1>7. ASSUME NEW h \in Handlers, NEW kind \in Kinds, Receive(h, kind) PROVE TypeOK'
    <2>1. ApiTypes' /\ StateTypes' /\ ReadyTypes' /\ HealthTypes' /\ EndedType' BY <1>7, UnchangedTypes DEF Receive
    <2>2. kind \in Pcs BY ServerStateAssumption DEF ServerStateAssumption, Pcs
    <2>3. of' \in [Goroutines -> Managers \cup {Nil}] BY <1>7, UnchangedTypes, Bounds DEF Receive, CallTypes, StateTypes
    <2>4. CallTypes' BY <1>7, <2>2, <2>3, UnchangedTypes, Bounds DEF Receive, CallTypes, Goto
    <2> QED BY <2>1, <2>4, TypeParts
  <1> QED BY <1>1, <1>2, <1>3, <1>4, <1>5, <1>6, <1>7 DEF Environment

LEMMA ApiTypeOK == ASSUME TypeOK, ChannelInv, NEW g \in Goroutines, ApiStep(g) PROVE TypeOK'
  <1>1. CASE InitReturns(g)
    <2>1. ReadyTypes' /\ HealthTypes' /\ EndedType' BY <1>1, UnchangedTypes DEF InitReturns
    <2>2. ApiTypes' BY <1>1, UnchangedTypes, Bounds DEF InitReturns, ApiTypes, apiVars
    <2>3. StateTypes' BY <1>1, UnchangedTypes, Bounds DEF InitReturns, StateTypes, CallTypes, stateVars
    <2>4. CallTypes' BY <1>1, UnchangedTypes, Bounds DEF InitReturns, CallTypes, callVars, Goto, Pcs
    <2> QED BY <2>1, <2>2, <2>3, <2>4, TypeParts
  <1>2. CASE ReadyReturns(g)
    <2>1. ApiTypes' /\ StateTypes' /\ HealthTypes' /\ EndedType' BY <1>2, UnchangedTypes DEF ReadyReturns, healthVars
    <2>2. ReadyTypes' BY <1>2, UnchangedTypes, Bounds DEF ReadyReturns, ReadyTypes, readyVars
    <2>3. CallTypes' BY <1>2, UnchangedTypes, Bounds DEF ReadyReturns, CallTypes, callVars, Goto, Pcs
    <2> QED BY <2>1, <2>2, <2>3, TypeParts
  <1>3. CASE MakeShutdown(g)
    <2>1. ApiTypes' /\ StateTypes' /\ EndedType' BY <1>3, UnchangedTypes DEF MakeShutdown
    <2>2. ReadyTypes' BY <1>3, UnchangedTypes, Bounds DEF MakeShutdown, ReadyTypes, readyVars
    <2>3. CallTypes' BY <1>3, UnchangedTypes, Bounds DEF MakeShutdown, CallTypes, callVars, Goto, Pcs
    <2>4. HealthTypes' BY <1>3, UnchangedTypes, Bounds DEF MakeShutdown, HealthTypes, healthVars
    <2> QED BY <2>1, <2>2, <2>3, <2>4, TypeParts
  <1>4. CASE SessionSends(g)
    <2>1. ApiTypes' /\ StateTypes' /\ ReadyTypes' /\ HealthTypes' BY <1>4, UnchangedTypes DEF SessionSends
    <2>2. CallTypes' BY <1>4, UnchangedTypes, Bounds DEF SessionSends, CallTypes, callVars, Goto, Pcs
    <2>3. EndedType' BY <1>4, UnchangedTypes, Bounds DEF SessionSends, EndedType, Panics, Panic
    <2> QED BY <2>1, <2>2, <2>3, TypeParts
  <1>5. CASE SessionReturns(g)
    <2>1. ApiTypes' /\ StateTypes' /\ ReadyTypes' /\ HealthTypes' /\ EndedType' BY <1>5, UnchangedTypes DEF SessionReturns
    <2>2. CallTypes' BY <1>5, UnchangedTypes, Bounds DEF SessionReturns, CallTypes, callVars, Goto, Pcs
    <2> QED BY <2>1, <2>2, TypeParts
  <1>6. CASE EndingReturns(g)
    <2>1. ApiTypes' /\ StateTypes' /\ ReadyTypes' /\ HealthTypes' /\ EndedType' BY <1>6, UnchangedTypes DEF EndingReturns
    <2>2. CallTypes' BY <1>6, UnchangedTypes, Bounds DEF EndingReturns, EndingOver, CallTypes, callVars, Goto, Pcs
    <2> QED BY <2>1, <2>2, TypeParts
  <1>7. CASE StopSwaps(g)
    <2>1. ApiTypes' /\ StateTypes' /\ HealthTypes' /\ EndedType' BY <1>7, UnchangedTypes DEF StopSwaps
    <2>2. ReadyTypes' BY <1>7, UnchangedTypes, Bounds DEF StopSwaps, Stopped, EndingOver, ReadyTypes, readyVars
    <2>3. CallTypes' BY <1>7, UnchangedTypes, Bounds DEF StopSwaps, Stopped, EndingOver, CallTypes, callVars, Goto, Pcs
    <2> QED BY <2>1, <2>2, <2>3, TypeParts
  <1>8. CASE StopChecks(g)
    <2>1. ApiTypes' /\ StateTypes' /\ ReadyTypes' /\ HealthTypes' /\ EndedType' BY <1>8, UnchangedTypes DEF StopChecks
    <2>2. CallTypes' BY <1>8, UnchangedTypes, Bounds DEF StopChecks, Stopped, EndingOver, CallTypes, callVars, Goto, Pcs
    <2> QED BY <2>1, <2>2, TypeParts
  <1>9. CASE StopCloses(g)
    <2>1. ApiTypes' /\ StateTypes' /\ HealthTypes' BY <1>9, UnchangedTypes DEF StopCloses
    <2>2. ReadyTypes' BY <1>9, UnchangedTypes, Bounds DEF StopCloses, Stopped, EndingOver, ChannelInv, At, ReadyTypes, readyVars
    <2>3. CallTypes' BY <1>9, UnchangedTypes, Bounds DEF StopCloses, Stopped, EndingOver, ChannelInv, At, CallTypes, callVars, Goto, Pcs
    <2>4. EndedType' BY <1>9, UnchangedTypes, Bounds DEF StopCloses, Stopped, EndingOver, ChannelInv, At, EndedType, Panics, Panic
    <2> QED BY <2>1, <2>2, <2>3, <2>4, TypeParts
  <1>10. CASE DestroyChecks(g)
    <2>1. ApiTypes' /\ StateTypes' /\ ReadyTypes' /\ HealthTypes' BY <1>10, UnchangedTypes DEF DestroyChecks
    <2>2. CallTypes' BY <1>10, UnchangedTypes, Bounds DEF DestroyChecks, DestroyReturns, CallTypes, callVars, Goto, Pcs
    <2>3. EndedType' BY <1>10, UnchangedTypes, Bounds DEF DestroyChecks, DestroyReturns, EndedType, Panics, Panic
    <2> QED BY <2>1, <2>2, <2>3, TypeParts
  <1>11. CASE Disconnect(g)
    <2>1. ApiTypes' /\ ReadyTypes' /\ HealthTypes' BY <1>11, UnchangedTypes DEF Disconnect
    <2>2. StateTypes' BY <1>11, UnchangedTypes, Bounds DEF Disconnect, StateTypes, stateVars
    <2>3. CallTypes' BY <1>11, UnchangedTypes, Bounds DEF Disconnect, CallTypes, callVars, Goto, Pcs
    <2>4. EndedType' BY <1>11, UnchangedTypes, Bounds DEF Disconnect, EndedType, Panics, Panic
    <2> QED BY <2>1, <2>2, <2>3, <2>4, TypeParts
  <1>12. CASE DestroyForgets(g)
    <2>1. ApiTypes' /\ ReadyTypes' /\ HealthTypes' BY <1>12, UnchangedTypes DEF DestroyForgets
    <2>2. StateTypes' BY <1>12, UnchangedTypes, Bounds DEF DestroyForgets, DestroyReturns, StateTypes, stateVars
    <2>3. CallTypes' BY <1>12, UnchangedTypes, Bounds DEF DestroyForgets, DestroyReturns, CallTypes, callVars, Goto, Pcs
    <2>4. EndedType' BY <1>12, UnchangedTypes, Bounds DEF DestroyForgets, DestroyReturns, EndedType, Panics, Panic
    <2> QED BY <2>1, <2>2, <2>3, <2>4, TypeParts
  <1>13. CASE Teardown(g)
    <2>1. StateTypes' /\ ReadyTypes' /\ HealthTypes' /\ EndedType' BY <1>13, UnchangedTypes DEF Teardown
    <2>2. ApiTypes' BY <1>13, UnchangedTypes, Bounds DEF Teardown, ApiTypes, apiVars
    <2>3. CallTypes' BY <1>13, UnchangedTypes, Bounds DEF Teardown, CallTypes, callVars, Goto, Pcs
    <2> QED BY <2>1, <2>2, <2>3, TypeParts
  <1> QED BY <1>1, <1>2, <1>3, <1>4, <1>5, <1>6, <1>7, <1>8, <1>9, <1>10, <1>11, <1>12, <1>13 DEF ApiStep

LEMMA HandlerTypeOK == ASSUME TypeOK, NEW h \in Handlers, HandlerStep(h) PROVE TypeOK'
  <1>1. CASE OnStartGameSession(h)
    <2>1. ApiTypes' /\ StateTypes' /\ ReadyTypes' /\ HealthTypes' /\ EndedType' BY <1>1, UnchangedTypes DEF OnStartGameSession
    <2>2. CallTypes' BY <1>1, UnchangedTypes, Bounds DEF OnStartGameSession, CallTypes, callVars, Goto, Pcs
    <2> QED BY <2>1, <2>2, TypeParts
  <1>2. CASE BindSession(h)
    <2>1. ApiTypes' /\ ReadyTypes' /\ HealthTypes' /\ EndedType' BY <1>2, UnchangedTypes DEF BindSession
    <2>2. StateTypes' BY <1>2, UnchangedTypes, Bounds DEF BindSession, StateTypes, CallTypes, stateVars
    <2>3. CallTypes' BY <1>2, UnchangedTypes, Bounds DEF BindSession, CallTypes, callVars, Goto, Pcs
    <2> QED BY <2>1, <2>2, <2>3, TypeParts
  <1>3. CASE OnUpdateGameSession(h)
    <2>1. ApiTypes' /\ StateTypes' /\ ReadyTypes' /\ HealthTypes' /\ EndedType' BY <1>3, UnchangedTypes DEF OnUpdateGameSession
    <2>2. CallTypes' BY <1>3, UnchangedTypes, Bounds DEF OnUpdateGameSession, CallTypes, callVars, Goto, Pcs
    <2> QED BY <2>1, <2>2, TypeParts
  <1>4. CASE OnTerminateProcess(h)
    <2>1. ApiTypes' /\ ReadyTypes' /\ HealthTypes' BY <1>4, UnchangedTypes DEF OnTerminateProcess
    <2>2. StateTypes' BY <1>4, UnchangedTypes, Bounds DEF OnTerminateProcess, SendEnding, StateTypes, stateVars
    <2>3. CallTypes' BY <1>4, UnchangedTypes, Bounds DEF OnTerminateProcess, SendEnding, CallTypes, callVars, Goto, Pcs
    <2>4. EndedType' BY <1>4, UnchangedTypes, Bounds DEF OnTerminateProcess, SendEnding, EndedType, Panics, Panic
    <2> QED BY <2>1, <2>2, <2>3, <2>4, TypeParts
  <1>5. CASE OnRefreshConnection(h)
    <2>1. ApiTypes' /\ StateTypes' /\ ReadyTypes' /\ HealthTypes' BY <1>5, UnchangedTypes DEF OnRefreshConnection
    <2>2. CallTypes' BY <1>5, UnchangedTypes, Bounds DEF OnRefreshConnection, CallTypes, StateTypes, callVars, Goto, Pcs
    <2>3. EndedType' BY <1>5, UnchangedTypes, Bounds DEF OnRefreshConnection, EndedType, Panics, Panic
    <2> QED BY <2>1, <2>2, <2>3, TypeParts
  <1>6. CASE RefreshReturns(h)
    <2>1. ApiTypes' /\ ReadyTypes' /\ HealthTypes' /\ EndedType' BY <1>6, UnchangedTypes DEF RefreshReturns
    <2>2. StateTypes' BY <1>6, UnchangedTypes, Bounds DEF RefreshReturns, StateTypes, CallTypes, stateVars
    <2>3. CallTypes' BY <1>6, UnchangedTypes, Bounds DEF RefreshReturns, CallTypes, callVars, Goto, Pcs
    <2> QED BY <2>1, <2>2, <2>3, TypeParts
  <1> QED BY <1>1, <1>2, <1>3, <1>4, <1>5, <1>6 DEF HandlerStep

LEMMA HealthTypeOK ==
    ASSUME TypeOK, (\E k \in Chans : LoopStep(k)) \/ (\E b \in Beats : BeatStep(b))
    PROVE  TypeOK'
  <1>1. ASSUME NEW k \in Chans, LoopTests(k) PROVE TypeOK'
    <2>1. ApiTypes' /\ StateTypes' /\ ReadyTypes' /\ CallTypes' /\ EndedType' BY <1>1, UnchangedTypes DEF LoopTests
    <2>2. HealthTypes' BY <1>1, UnchangedTypes, Bounds DEF LoopTests, HealthTypes, healthVars
    <2> QED BY <2>1, <2>2, TypeParts
  <1>2. ASSUME NEW k \in Chans, LoopWakes(k) PROVE TypeOK'
    <2>1. ApiTypes' /\ StateTypes' /\ ReadyTypes' /\ CallTypes' /\ EndedType' BY <1>2, UnchangedTypes DEF LoopWakes
    <2>2. HealthTypes' BY <1>2, UnchangedTypes, Bounds DEF LoopWakes, HealthTypes, healthVars
    <2> QED BY <2>1, <2>2, TypeParts
  <1>3. ASSUME NEW b \in Beats, HealthReported(b) PROVE TypeOK'
    <2>1. ApiTypes' /\ StateTypes' /\ ReadyTypes' /\ CallTypes' /\ EndedType' BY <1>3, UnchangedTypes DEF HealthReported
    <2>2. HealthTypes' BY <1>3, UnchangedTypes, Bounds DEF HealthReported, HealthTypes, healthVars
    <2> QED BY <2>1, <2>2, TypeParts
  <1>4. ASSUME NEW b \in Beats, HealthGivenUp(b) PROVE TypeOK'
    <2>1. ApiTypes' /\ StateTypes' /\ ReadyTypes' /\ CallTypes' /\ EndedType' BY <1>4, UnchangedTypes DEF HealthGivenUp
    <2>2. HealthTypes' BY <1>4, UnchangedTypes, Bounds DEF HealthGivenUp, HealthTypes, healthVars
    <2> QED BY <2>1, <2>2, TypeParts
  <1>5. ASSUME NEW b \in Beats, BeatSends(b) PROVE TypeOK'
    <2>1. ApiTypes' /\ StateTypes' /\ ReadyTypes' /\ CallTypes' BY <1>5, UnchangedTypes DEF BeatSends
    <2>2. HealthTypes' BY <1>5, UnchangedTypes, Bounds DEF BeatSends, HealthTypes, healthVars
    <2>3. EndedType' BY <1>5, UnchangedTypes, Bounds DEF BeatSends, EndedType, Panics, Panic
    <2> QED BY <2>1, <2>2, <2>3, TypeParts
  <1>6. ASSUME NEW b \in Beats, BeatReturns(b) PROVE TypeOK'
    <2>1. ApiTypes' /\ StateTypes' /\ ReadyTypes' /\ CallTypes' /\ EndedType' BY <1>6, UnchangedTypes DEF BeatReturns
    <2>2. HealthTypes' BY <1>6, UnchangedTypes, Bounds DEF BeatReturns, HealthTypes, healthVars
    <2> QED BY <2>1, <2>2, TypeParts
  <1> QED BY <1>1, <1>2, <1>3, <1>4, <1>5, <1>6 DEF LoopStep, BeatStep

LEMMA NextTypeOK == TypeOK /\ ChannelInv /\ [Next]_vars => TypeOK'
  <1>1. TypeOK /\ UNCHANGED vars => TypeOK'
    BY UnchangedTypes, TypeParts DEF vars
  <1> QED BY <1>1, EnvironmentTypeOK, ApiTypeOK, HandlerTypeOK, HealthTypeOK DEF Next

-----------------------------------------------------------------------------
(* A step that leaves the flag, the channel and the health check alone,    *)
(* and is no step of ProcessReady or of a stop that they depend on.        *)
Marked == {"makeShutdown", "checkOpen", "closeShutdown"}
QuietStep ==
    /\ UNCHANGED <<readyVars, loop>>
    /\ \A g \in Goroutines : pc'[g] = pc[g] \/ (pc[g] \notin Marked /\ pc'[g] \notin Marked)
    /\ \A g \in Goroutines : pc'[g] = "activating" => pc[g] = "activating" \/ g \in Main
    /\ ended' # "close of closed channel" \/ ended' = ended

LEMMA QuietKeeps == ASSUME IInv, QuietStep PROVE ChannelInv' /\ (ReadyOnce => StopInv /\ LoopInv /\ ShutdownClosedOnce)'
  <1>1. \A g \in Goroutines : \A where \in Marked : pc'[g] = where <=> pc[g] = where BY DEF QuietStep, Marked
  <1>2. ChannelInv' BY <1>1 DEF IInv, ChannelInv, QuietStep, readyVars, Marked
  <1>3. ASSUME ReadyOnce' PROVE ReadyOnce BY <1>1, <1>3 DEF ReadyOnce, QuietStep, readyVars, Marked
  <1>4. StopInv => StopInv' BY <1>1 DEF StopInv, QuietStep, readyVars, Marked, Stopping
  <1>5. LoopInv => LoopInv' BY DEF LoopInv, QuietStep, readyVars
  <1>6. ShutdownClosedOnce => ShutdownClosedOnce' BY DEF ShutdownClosedOnce, QuietStep
  <1> QED BY <1>2, <1>3, <1>4, <1>5, <1>6 DEF IInv

(* The steps that are not quiet. *)
ReadyStep(g) == ReadyReturns(g) \/ MakeShutdown(g) \/ StopSwaps(g) \/ StopChecks(g) \/ StopCloses(g)

(* All other steps are quiet. *)
LEMMA OtherStepsAreQuiet ==
    ASSUME IInv, [Next]_vars, \A g \in Goroutines : ~ReadyStep(g), \A k \in Chans : ~LoopStep(k)
    PROVE  QuietStep
  <1> USE DEF QuietStep, Marked, readyVars, Goto, At, Panic
  <1>0. CallTypes BY TypeParts DEF IInv
  <1>1. ASSUME NEW g \in Goroutines, NEW from \in Pcs \ Marked, NEW where \in Pcs \ Marked,
               UNCHANGED <<readyVars, loop>>, pc[g] = from, pc' = [pc EXCEPT ![g] = where] \/ pc' = pc,
               where # "activating" \/ g \in Main,
               ended' # "close of closed channel" \/ ended' = ended
        PROVE  QuietStep
    BY <1>0, <1>1 DEF CallTypes
  <1>2. ASSUME NEW g \in Goroutines,
               \/ InitSDK(g) \/ ProcessReady(g) \/ SessionCall(g) \/ ProcessEnding(g) \/ Destroy(g)
               \/ CallbackReturns(g)
        PROVE  QuietStep
    <2>1. UNCHANGED <<readyVars, loop>> /\ (ended' # "close of closed channel" \/ ended' = ended)
      BY <1>2 DEF InitSDK, ProcessReady, SessionCall, ProcessEnding, SendEnding, Destroy, CallbackReturns, healthVars
    <2>2. pc[g] = "app"
      BY <1>2 DEF InitSDK, ProcessReady, SessionCall, ProcessEnding, Destroy, CallbackReturns
    <2>3. pc' = pc \/ \E where \in {"connecting", "activating", "request", "ending", "stop", "free"} :
                         pc' = [pc EXCEPT ![g] = where]
      BY <1>2 DEF InitSDK, ProcessReady, SessionCall, ProcessEnding, SendEnding, Destroy, CallbackReturns, callVars
    <2>4. pc' = [pc EXCEPT ![g] = "activating"] => pc' = pc \/ g \in Main
      <3>1. ProcessReady(g) => g \in Main BY DEF ProcessReady
      <3>2. pc' = pc \/ ProcessReady(g) \/ pc'[g] # "activating"
        BY <1>0, <1>2 DEF InitSDK, ProcessReady, SessionCall, ProcessEnding, SendEnding, Destroy, CallbackReturns,
          callVars, CallTypes
      <3> QED BY <1>0, <3>1, <3>2 DEF CallTypes
    <2> QED BY <1>1, <2>1, <2>2, <2>3, <2>4 DEF Pcs
  <1>3. ASSUME NEW h \in Handlers, NEW kind \in Kinds, Receive(h, kind) PROVE QuietStep
    <2>1. kind \in Pcs \ Marked /\ kind # "activating" BY ServerStateAssumption DEF ServerStateAssumption, Pcs
    <2> QED BY <1>1, <1>3, <2>1, Bounds DEF Receive, healthVars, Pcs
  <1>4. ASSUME NEW g \in Goroutines, ApiStep(g) PROVE QuietStep
    <2>1. \/ InitReturns(g) \/ SessionSends(g) \/ SessionReturns(g) \/ EndingReturns(g)
          \/ DestroyChecks(g) \/ Disconnect(g) \/ DestroyForgets(g) \/ Teardown(g)
      BY <1>4 DEF ApiStep, ReadyStep
    <2>2. UNCHANGED <<readyVars, loop>> /\ (ended' # "close of closed channel" \/ ended' = ended)
      <3>1. CASE InitReturns(g) \/ SessionSends(g) \/ SessionReturns(g) \/ EndingReturns(g)
        BY <3>1 DEF InitReturns, SessionSends, SessionReturns, EndingReturns, healthVars
      <3>2. CASE DestroyChecks(g) \/ Disconnect(g) \/ DestroyForgets(g) \/ Teardown(g)
        BY <3>2 DEF DestroyChecks, Disconnect, DestroyForgets, DestroyReturns, Teardown, healthVars
      <3> QED BY <2>1, <3>1, <3>2
    <2>3. pc[g] \in {"connecting", "request", "pending", "ending", "disconnect", "close", "forget", "teardown"}
      BY <2>1 DEF InitReturns, SessionSends, SessionReturns, EndingReturns, DestroyChecks, Disconnect, DestroyForgets,
        Teardown
    <2>4. pc' = pc \/ \E where \in {"app", "pending", "stop", "close", "forget", "teardown"} :
                         pc' = [pc EXCEPT ![g] = where]
      <3>1. CASE InitReturns(g) \/ SessionSends(g) \/ SessionReturns(g) \/ EndingReturns(g)
        BY <3>1 DEF InitReturns, SessionSends, SessionReturns, EndingReturns, EndingOver, callVars
      <3>2. CASE DestroyChecks(g) \/ Disconnect(g) \/ DestroyForgets(g) \/ Teardown(g)
        BY <3>2 DEF DestroyChecks, Disconnect, DestroyForgets, DestroyReturns, Teardown, callVars
      <3> QED BY <2>1, <3>1, <3>2
    <2> QED BY <1>1, <2>2, <2>3, <2>4 DEF Pcs
  <1>5. ASSUME NEW h \in Handlers, HandlerStep(h) PROVE QuietStep
    <2>1. UNCHANGED <<readyVars, loop>> /\ (ended' # "close of closed channel" \/ ended' = ended)
      BY <1>5 DEF HandlerStep, OnStartGameSession, BindSession, OnUpdateGameSession, OnTerminateProcess, SendEnding,
        OnRefreshConnection, RefreshReturns, healthVars
    <2>2. pc[h] \in {"start", "bind", "update", "terminate", "refresh", "refreshing"}
      BY <1>5 DEF HandlerStep, OnStartGameSession, BindSession, OnUpdateGameSession, OnTerminateProcess,
        OnRefreshConnection, RefreshReturns
    <2>3. pc' = pc \/ \E where \in {"app", "free", "bind", "ending", "refreshing"} : pc' = [pc EXCEPT ![h] = where]
      BY <1>5 DEF HandlerStep, OnStartGameSession, BindSession, OnUpdateGameSession, OnTerminateProcess, SendEnding,
        OnRefreshConnection, RefreshReturns, callVars
    <2> QED BY <1>1, <2>1, <2>2, <2>3, Bounds DEF Pcs
  <1>6. ASSUME NEW b \in Beats, BeatStep(b) PROVE QuietStep
    <2>1. UNCHANGED <<readyVars, loop, pc>>
      BY <1>6 DEF BeatStep, HealthReported, HealthGivenUp, BeatSends, BeatReturns, callVars
    <2>2. ended' # "close of closed channel" \/ ended' = ended
      BY <1>6 DEF BeatStep, HealthReported, HealthGivenUp, BeatSends, BeatReturns
    <2> QED BY <2>1, <2>2
  <1>7. CASE UNCHANGED vars BY <1>7 DEF vars, callVars, healthVars
  <1> QED BY <1>2, <1>3, <1>4, <1>5, <1>6, <1>7 DEF Next, Environment

-----------------------------------------------------------------------------
(* What is proved of a step that is not quiet. *)
ReadyInv == ChannelInv /\ (ReadyOnce => StopInv /\ LoopInv /\ ShutdownClosedOnce)

LEMMA ReadyReturnsKeeps == ASSUME IInv, NEW g \in Goroutines, ReadyReturns(g) PROVE ReadyInv'
  <1> USE DEF ReadyReturns, Goto, At
  <1>0. CallTypes BY TypeParts DEF IInv
  <1>1. \A h \in Goroutines : pc'[h] = IF h = g THEN pc'[g] ELSE pc[h] BY <1>0 DEF CallTypes
  <1>2. pc[g] = "activating" /\ pc'[g] \in {"makeShutdown", "app"} BY <1>0 DEF CallTypes
  <1>3. \A h \in Goroutines : Stopping(h)' <=> Stopping(h) BY <1>1, <1>2 DEF Stopping
  <1>4. ChannelInv' BY <1>1, <1>2 DEF IInv, ChannelInv
  <1>5. ASSUME ReadyOnce' PROVE (StopInv /\ LoopInv /\ ShutdownClosedOnce)'
    <2>1. ReadyOnce BY <1>1, <1>2, <1>5 DEF ReadyOnce
    <2>2. StopInv /\ LoopInv /\ ShutdownClosedOnce BY <2>1 DEF IInv
    <2>3. CASE pc'[g] = "makeShutdown"
      <3>1. \A h \in Goroutines : pc[h] # "makeShutdown" BY <1>1, <1>2, <1>5, <2>3 DEF ReadyOnce
      <3>2. loop[1] = "none" BY <1>5, <2>3 DEF ReadyOnce
      <3>3. ~isReadyProcess /\ \A h \in Goroutines : ~Stopping(h) BY <2>2, <3>1, <3>2 DEF StopInv
      <3>4. StopInv' BY <1>1, <1>3, <2>2, <2>3, <3>2, <3>3 DEF StopInv, LoopInv, Stopping
      <3> QED BY <2>2, <3>2, <3>4 DEF LoopInv, ShutdownClosedOnce
    <2>4. CASE pc'[g] = "app"
      <3>1. isReadyProcess' = isReadyProcess BY <1>0, <2>4 DEF CallTypes
      <3>2. \A h \in Goroutines : (pc'[h] = "makeShutdown" <=> pc[h] = "makeShutdown")
                                  /\ (pc'[h] = "closeShutdown" <=> pc[h] = "closeShutdown")
        BY <1>1, <1>2, <2>4
      <3> QED BY <1>3, <2>2, <3>1, <3>2 DEF StopInv, LoopInv, ShutdownClosedOnce
    <2> QED BY <1>2, <2>3, <2>4
  <1> QED BY <1>4, <1>5 DEF ReadyInv

LEMMA MakeShutdownKeeps == ASSUME IInv, NEW g \in Goroutines, MakeShutdown(g) PROVE ReadyInv'
  <1>0. CallTypes /\ HealthTypes BY TypeParts DEF IInv
  <1>1. PICK k \in Chans : /\ loop[k] = "none" /\ \A j \in 1..(k-1) : loop[j] # "none"
                           /\ shutdown' = k /\ loop' = [loop EXCEPT ![k] = "test"]
    BY DEF MakeShutdown
  <1>2. /\ pc[g] = "makeShutdown" /\ UNCHANGED <<isReadyProcess, closed, ended>>
        /\ \A h \in Goroutines : pc'[h] = IF h = g THEN "app" ELSE pc[h]
    BY <1>0 DEF MakeShutdown, At, Goto, CallTypes
  <1>3. \A h \in Goroutines : Stopping(h)' <=> Stopping(h) BY <1>2 DEF Stopping
  <1>4. ChannelInv' BY <1>1, <1>2 DEF IInv, ChannelInv
  <1>5. ASSUME ReadyOnce' PROVE (StopInv /\ LoopInv /\ ShutdownClosedOnce)'
    <2>1. loop'[k] = "test" /\ \A j \in Chans \ {k} : loop'[j] = loop[j] BY <1>0, <1>1 DEF HealthTypes
    <2>2. k = 1 BY <1>5, <2>1 DEF ReadyOnce
    <2>3. \A h \in Goroutines : pc'[h] # "makeShutdown" BY <1>5, <2>1, <2>2, Bounds DEF ReadyOnce
    <2>4. ReadyOnce BY <1>1, <1>2, <1>5, <2>1, <2>2, <2>3 DEF ReadyOnce
    <2>5. StopInv /\ LoopInv /\ ShutdownClosedOnce BY <2>4 DEF IInv
    <2>6. closed = {} BY <1>1, <2>2, <2>5 DEF LoopInv
    <2>7. StopInv' BY <1>1, <1>2, <1>3, <2>1, <2>2, <2>5 DEF StopInv
    <2>8. LoopInv' BY <1>1, <1>2, <2>1, <2>2, <2>6 DEF LoopInv
    <2> QED BY <1>2, <2>5, <2>7, <2>8 DEF ShutdownClosedOnce
  <1> QED BY <1>4, <1>5 DEF ReadyInv

(* The goroutine of a stop goes on; what the others are at is unchanged. *)
LEMMA StopSwapsKeeps == ASSUME IInv, NEW g \in Goroutines, StopSwaps(g) PROVE ReadyInv'
  <1>0. CallTypes BY TypeParts DEF IInv
  <1>1. /\ pc[g] = "stop" /\ UNCHANGED <<shutdown, closed, loop, ended>> /\ isReadyProcess' = FALSE
        /\ \A h \in Goroutines : h # g => pc'[h] = pc[h]
        /\ pc'[g] = "checkOpen" \/ pc'[g] \in {"app", "stop", "disconnect"}
        /\ pc'[g] = "checkOpen" => isReadyProcess
    BY <1>0 DEF StopSwaps, Stopped, EndingOver, At, Goto, CallTypes, healthVars
  <1>2. ChannelInv' BY <1>1 DEF IInv, ChannelInv
  <1>3. ASSUME ReadyOnce' PROVE (StopInv /\ LoopInv /\ ShutdownClosedOnce)'
    <2>1. \A h \in Goroutines : pc'[h] = "makeShutdown" <=> pc[h] = "makeShutdown" BY <1>1
    <2>2. ReadyOnce BY <1>1, <1>3, <2>1 DEF ReadyOnce
    <2>3. StopInv /\ LoopInv /\ ShutdownClosedOnce BY <2>2 DEF IInv
    <2>4. \A h \in Goroutines : h # g => (Stopping(h)' <=> Stopping(h)) BY <1>1 DEF Stopping
    <2>5. Stopping(g)' => isReadyProcess BY <1>1 DEF Stopping
    <2>6. ~Stopping(g) BY <1>1 DEF Stopping
    <2>7. \A h, i \in Goroutines : Stopping(h)' /\ Stopping(i)' => h = i BY <2>3, <2>4, <2>5 DEF StopInv
    <2>8. \A h \in Goroutines : Stopping(h)' => closed' = {} BY <1>1, <2>3, <2>4, <2>5 DEF StopInv
    <2>9. \A h \in Goroutines : pc'[h] = "closeShutdown" => shutdown' = 1 BY <1>1, <2>3 DEF StopInv
    <2>10. (\A h \in Goroutines : pc'[h] # "makeShutdown") /\ loop'[1] = "none" =>
             \A h \in Goroutines : ~Stopping(h)'
      BY <1>1, <2>1, <2>3, <2>4, <2>5 DEF StopInv
    <2>11. StopInv' BY <1>1, <2>7, <2>8, <2>9, <2>10 DEF StopInv
    <2> QED BY <1>1, <2>3, <2>11 DEF LoopInv, ShutdownClosedOnce
  <1> QED BY <1>2, <1>3 DEF ReadyInv

LEMMA StopChecksKeeps == ASSUME IInv, NEW g \in Goroutines, StopChecks(g) PROVE ReadyInv'
  <1>0. CallTypes /\ ReadyTypes BY TypeParts DEF IInv
  <1>1. /\ pc[g] = "checkOpen" /\ UNCHANGED <<isReadyProcess, shutdown, closed, loop, ended>>
        /\ \A h \in Goroutines : h # g => pc'[h] = pc[h]
        /\ pc'[g] = "closeShutdown" \/ pc'[g] \in {"app", "stop", "disconnect"}
        /\ pc'[g] = "closeShutdown" => shutdown # Nil
    BY <1>0 DEF StopChecks, Stopped, EndingOver, At, Goto, CallTypes, healthVars, readyVars
  <1>2. ChannelInv' BY <1>0, <1>1 DEF IInv, ChannelInv, ReadyTypes
  <1>3. ASSUME ReadyOnce' PROVE (StopInv /\ LoopInv /\ ShutdownClosedOnce)'
    <2>1. \A h \in Goroutines : pc'[h] = "makeShutdown" <=> pc[h] = "makeShutdown" BY <1>1
    <2>2. ReadyOnce BY <1>1, <1>3, <2>1 DEF ReadyOnce
    <2>3. StopInv /\ LoopInv /\ ShutdownClosedOnce BY <2>2 DEF IInv
    <2>4. \A h \in Goroutines : Stopping(h)' => Stopping(h) BY <1>1 DEF Stopping
    <2>5. pc'[g] = "closeShutdown" => shutdown = 1 BY <1>1, <2>3 DEF LoopInv
    <2>6. StopInv' BY <1>1, <2>1, <2>3, <2>4, <2>5 DEF StopInv
    <2> QED BY <1>1, <2>3, <2>6 DEF LoopInv, ShutdownClosedOnce
  <1> QED BY <1>2, <1>3 DEF ReadyInv

LEMMA StopClosesKeeps == ASSUME IInv, NEW g \in Goroutines, StopCloses(g) PROVE ReadyInv'
  <1>0. CallTypes BY TypeParts DEF IInv
  <1>1. /\ pc[g] = "closeShutdown" /\ UNCHANGED <<isReadyProcess, shutdown, loop>> /\ closed' = closed \cup {shutdown}
        /\ \A h \in Goroutines : h # g => pc'[h] = pc[h]
        /\ shutdown \notin closed => pc'[g] \in {"app", "stop", "disconnect"} /\ ended' = ended
        /\ pc'[g] \in {"closeShutdown", "app", "stop", "disconnect"}
    BY <1>0 DEF StopCloses, Stopped, EndingOver, At, Goto, CallTypes, healthVars
  <1>2. ChannelInv' BY <1>1 DEF IInv, ChannelInv
  <1>3. ASSUME ReadyOnce' PROVE (StopInv /\ LoopInv /\ ShutdownClosedOnce)'
    <2>1. \A h \in Goroutines : pc'[h] = "makeShutdown" <=> pc[h] = "makeShutdown" BY <1>1
    <2>2. ReadyOnce BY <1>1, <1>3, <2>1 DEF ReadyOnce
    <2>3. StopInv /\ LoopInv /\ ShutdownClosedOnce BY <2>2 DEF IInv
    <2>4. Stopping(g) BY <1>1 DEF Stopping
    <2>5. closed = {} /\ shutdown = 1 /\ ~isReadyProcess BY <1>1, <2>3, <2>4 DEF StopInv
    <2>6. \A h \in Goroutines : ~Stopping(h)' BY <1>1, <2>3, <2>4, <2>5 DEF StopInv, Stopping
    <2>7. loop[1] # "none" BY <2>3, <2>5 DEF LoopInv, Nil
    <2>8. StopInv' BY <1>1, <2>5, <2>6, <2>7 DEF StopInv, Stopping
    <2>9. LoopInv' BY <1>1, <2>3, <2>5, <2>7 DEF LoopInv
    <2> QED BY <1>1, <2>3, <2>5, <2>8, <2>9 DEF ShutdownClosedOnce
  <1> QED BY <1>2, <1>3 DEF ReadyInv

LEMMA LoopStepKeeps == ASSUME IInv, NEW k \in Chans, LoopStep(k) PROVE ReadyInv'
  <1>0. HealthTypes BY TypeParts DEF IInv
  <1>1. /\ UNCHANGED <<isReadyProcess, shutdown, closed, pc, ended>>
        /\ loop[k] # "none" /\ loop'[k] # "none"
        /\ \A j \in Chans : j # k => loop'[j] = loop[j]
        /\ loop'[k] = "ended" => ~isReadyProcess \/ k \in closed
    BY <1>0 DEF LoopStep, LoopTests, LoopWakes, LoopAt, HealthTypes, readyVars, callVars
  <1>2. \A j \in Chans : loop'[j] = "none" <=> loop[j] = "none" BY <1>1
  <1>3. ChannelInv' BY <1>1 DEF IInv, ChannelInv
  <1>4. ASSUME ReadyOnce' PROVE (StopInv /\ LoopInv /\ ShutdownClosedOnce)'
    <2>1. ReadyOnce BY <1>1, <1>2, <1>4, Bounds DEF ReadyOnce
    <2>2. StopInv /\ LoopInv /\ ShutdownClosedOnce BY <2>1 DEF IInv
    <2>3. StopInv' BY <1>1, <1>2, <2>2, Bounds DEF StopInv, Stopping
    <2>4. LoopInv' BY <1>1, <1>2, <2>2, Bounds DEF LoopInv, StopInv
    <2> QED BY <1>1, <2>2, <2>3, <2>4 DEF ShutdownClosedOnce
  <1> QED BY <1>3, <1>4 DEF ReadyInv

-----------------------------------------------------------------------------
LEMMA InductiveInvariant == Spec => []IInv
  <1>1. ASSUME IInv, [Next]_vars PROVE IInv'
    <2>1. TypeOK' BY <1>1, NextTypeOK DEF IInv
    <2>2. CASE \E g \in Goroutines : ReadyStep(g)
      <3>1. ReadyInv'
        BY <1>1, <2>2, ReadyReturnsKeeps, MakeShutdownKeeps, StopSwapsKeeps, StopChecksKeeps, StopClosesKeeps
        DEF ReadyStep
      <3> QED BY <2>1, <3>1 DEF IInv, ReadyInv
    <2>3. CASE \E k \in Chans : LoopStep(k)
      <3>1. ReadyInv' BY <1>1, <2>3, LoopStepKeeps
      <3> QED BY <2>1, <3>1 DEF IInv, ReadyInv
    <2>4. CASE (\A g \in Goroutines : ~ReadyStep(g)) /\ \A k \in Chans : ~LoopStep(k)
      <3>1. QuietStep BY <1>1, <2>4, OtherStepsAreQuiet
      <3> QED BY <1>1, <2>1, <3>1, QuietKeeps DEF IInv
    <2> QED BY <2>2, <2>3, <2>4
  <1> QED BY <1>1, InitIInv, PTL DEF Spec

(* The global state of the SDK is well typed, whatever overlaps. *)
THEOREM ServerStateTypeCorrect == Spec => []TypeOK
  <1>1. IInv => TypeOK BY DEF IInv
  <1> QED BY <1>1, InductiveInvariant, PTL

(* As long as ProcessReady has set the ready flag at most once, the        *)
(* shutdown channel is closed at most once (server_state.go:457), however  *)
(* many goroutines end or destroy the process at a time.  What makes it so *)
(* is the swap of the flag, not the check that the channel is open.        *)
THEOREM ChannelClosedOnce == Spec => [](ReadyOnce => ShutdownClosedOnce)
  <1>1. IInv => (ReadyOnce => ShutdownClosedOnce) BY DEF IInv
  <1> QED BY <1>1, InductiveInvariant, PTL

(* As long as ProcessReady has set the ready flag at most once, a process  *)
(* that is ready has a health check that runs, and a channel to stop it    *)
(* (server_state.go:229 to 231), outside the lines that make them.          *)
THEOREM ReadyIsReported == Spec => [](ReadyOnce => ReadyProcessIsReported)
  <1>1. IInv => (ReadyOnce => ReadyProcessIsReported)
    <2> SUFFICES ASSUME IInv, ReadyOnce, isReadyProcess, \A g \in Main : pc[g] # "makeShutdown"
                 PROVE  loop[shutdown] \in {"test", "wait"} /\ shutdown \notin closed
      BY DEF ReadyProcessIsReported
    <2>1. HealthTypes /\ StopInv /\ LoopInv /\ \A g \in Goroutines : pc[g] # "makeShutdown"
      BY TypeParts DEF IInv, ChannelInv
    <2>2. loop[1] # "none" BY <2>1, Bounds DEF StopInv
    <2>3. shutdown = 1 /\ closed = {} BY <2>1, <2>2 DEF StopInv, LoopInv
    <2>4. loop[1] \in {"test", "wait"} BY <2>1, <2>2, Bounds DEF LoopInv, HealthTypes
    <2> QED BY <2>3, <2>4
  <1> QED BY <1>1, InductiveInvariant, PTL
=============================================================================
