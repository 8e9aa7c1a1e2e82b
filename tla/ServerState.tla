----------------------------- MODULE ServerState -----------------------------
(***************************************************************************)
(* server/server_state.go and the calls of server/gamelift_server_api.go:  *)
(* the life of the SDK in a server process, from InitSDK over ProcessReady *)
(* to ProcessEnding and Destroy and, since every variable is global, to    *)
(* the next InitSDK.  Three kinds of goroutine share the state without a   *)
(* lock: the application's, one for each message of the service, and the   *)
(* health check with the heartbeats it starts.                             *)
(*                                                                         *)
(* A request is sent in one step and returns in another, with success or   *)
(* an error; WebsocketClient says how it gets there.  The application uses *)
(* the API as documented: nothing before an InitSDK that succeeded,        *)
(* ProcessReady once, ProcessEnding also in a callback, and Destroy where  *)
(* it called InitSDK.                                                      *)
(***************************************************************************)
EXTENDS Naturals, FiniteSets

CONSTANTS
    Main,         \* goroutines of the application
    Handlers,     \* goroutines of readHandler that may be alive at one time
    Beats,        \* goroutines of heartbeatServerProcess alive at one time
    MaxInits,     \* bound: managers that InitSDK ever creates
    MaxMessages,  \* bound: messages of the service
    Kinds         \* bound: the kinds of message that it sends

Nil == 0                  \* a nil manager, connection or channel; no game session
Managers == 1..MaxInits   \* all with the one client and transport of the process
Chans == 1..MaxInits      \* shutdown channels: one for each ProcessReady
Goroutines == Main \cup Handlers

ASSUME ServerStateAssumption ==
    /\ Main \cap Handlers = {}
    /\ MaxInits \in Nat \ {0} /\ MaxMessages \in Nat
    /\ Kinds \subseteq {"start", "update", "terminate", "refresh"}

VARIABLES
    srv,              \* srv # nil
    manager,          \* the global manager
    wsGameLift,       \* state.wsGameLift
    isReadyProcess,   \* state.isReadyProcess
    shutdown,         \* state.shutdown
    closed,           \* the channels that are closed
    parameters,       \* state.parameters: "nil", or whether it has its callbacks
    gameSessionID,    \* state.gameSessionID; the session of manager m goes by its number
    terminationTime,  \* state.terminationTime # 0
    up,               \* the manager that opened the connection there is, if any
    pc,               \* where each goroutine is
    of,               \* the manager of each handler's connection, or of a pending request
    task,             \* what stopServerProcess was called for: "ending" or "destroy"
    auto,             \* the handlers that shut the process down by themselves
    endingErr,        \* those of them whose ProcessEnding failed
    loop,             \* startHealthCheck, for each shutdown channel
    beat, beatChan,   \* each heartbeatServerProcess, and its done channel
    created,          \* how many managers were created
    messages,         \* how much of MaxMessages is used
    initResult,       \* history: what the last InitSDK returned
    initialized,      \* history: InitSDK has succeeded, and Destroy not since
    readied,          \* history: ProcessReady was called since
    stuck,            \* history: an OnHealthCheck goroutine can no longer send its result
    ended             \* "no", the exit code, or the panic that ended the process

apiVars == <<srv, manager, created, initResult, initialized, readied>>
stateVars == <<wsGameLift, parameters, gameSessionID, terminationTime, up>>
readyVars == <<isReadyProcess, shutdown, closed>>
callVars == <<pc, of, task, auto, endingErr, messages>>
healthVars == <<loop, beat, beatChan, stuck>>
vars == <<apiVars, stateVars, readyVars, callVars, healthVars, ended>>

Init ==
    /\ srv = FALSE /\ manager = Nil /\ wsGameLift = Nil
    /\ isReadyProcess = FALSE /\ shutdown = Nil /\ closed = {}
    /\ parameters = "nil" /\ gameSessionID = Nil /\ terminationTime = FALSE
    /\ up = Nil
    /\ pc = [g \in Goroutines |-> IF g \in Main THEN "app" ELSE "free"]
    /\ of = [g \in Goroutines |-> Nil]
    /\ task = [g \in Goroutines |-> "ending"]
    /\ auto = {} /\ endingErr = {}
    /\ loop = [k \in Chans |-> "none"]
    /\ beat = [b \in Beats |-> "free"] /\ beatChan = [b \in Beats |-> Nil]
    /\ created = 0 /\ messages = 0
    /\ initResult = "none" /\ initialized = FALSE /\ readied = FALSE
    /\ stuck = FALSE
    /\ ended = "no"

-----------------------------------------------------------------------------
Goto(g, where) == pc' = [pc EXCEPT ![g] = where]
Panic(what) == ended' = what
Running == ended = "no"

(* Where the goroutines are, in a process that has not ended. *)
At(g, where) == Running /\ pc[g] = where
LoopAt(k, where) == Running /\ loop[k] = where
BeatAt(b, where) == Running /\ beat[b] = where

(* A goroutine of the application is idle between two calls; a handler is  *)
(* while it runs a callback, and then its goroutine ends.                  *)
CallbackReturns(h) ==
    /\ h \in Handlers /\ At(h, "app")
    /\ Goto(h, "free")
    /\ UNCHANGED <<apiVars, stateVars, readyVars, of, task, auto, endingErr, messages, healthVars, ended>>

-----------------------------------------------------------------------------
(* InitSDK. *)

(* srv is set even if init fails: the validation of the parameters and the *)
(* credentials of a container come before state.wsGameLift is set.         *)
InitSDK(g) ==
    /\ g \in Main /\ At(g, "app")
    /\ IF srv
       THEN initResult' = "already" /\ UNCHANGED <<srv, manager, created, initialized, wsGameLift, pc, of>>
       ELSE /\ manager # Nil \/ created < MaxInits
            /\ manager' = IF manager = Nil THEN created + 1 ELSE manager
            /\ created' = IF manager = Nil THEN created + 1 ELSE created
            /\ \/ srv' = TRUE /\ initResult' = "error" /\ UNCHANGED <<initialized, wsGameLift, pc, of>>
               \/ /\ wsGameLift' = manager' /\ of' = [of EXCEPT ![g] = manager']
                  /\ Goto(g, "connecting")
                  /\ UNCHANGED <<srv, initResult, initialized>>
    /\ UNCHANGED <<readied, parameters, gameSessionID, terminationTime, up, readyVars,
                   task, auto, endingErr, messages, healthVars, ended>>

InitReturns(g) ==
    /\ At(g, "connecting")
    /\ srv' = TRUE
    /\ \/ up' = of[g] /\ initResult' = "nil" /\ initialized' = TRUE /\ readied' = FALSE
       \/ initResult' = "error" /\ UNCHANGED <<up, initialized, readied>>
    /\ Goto(g, "app")
    /\ UNCHANGED <<manager, created, wsGameLift, parameters, gameSessionID, terminationTime, readyVars,
                   of, task, auto, endingErr, messages, healthVars, ended>>

-----------------------------------------------------------------------------
(* ProcessReady. *)

ProcessReady(g) ==
    /\ g \in Main /\ At(g, "app")
    /\ srv /\ initialized /\ ~readied
    /\ readied' = TRUE
    /\ parameters' \in {"callbacks", "bare"}
    /\ of' = [of EXCEPT ![g] = wsGameLift]
    /\ IF wsGameLift = Nil
       THEN Panic("nil manager") /\ UNCHANGED pc
       ELSE Goto(g, "activating") /\ UNCHANGED ended
    /\ UNCHANGED <<srv, manager, created, initResult, initialized, wsGameLift, gameSessionID, terminationTime,
                   up, readyVars, task, auto, endingErr, messages, healthVars>>

(* The process is ready when the service has said so. *)
ReadyReturns(g) ==
    /\ At(g, "activating")
    /\ \/ /\ isReadyProcess' = TRUE
          /\ Goto(g, "makeShutdown")
       \/ UNCHANGED isReadyProcess /\ Goto(g, "app")
    /\ UNCHANGED <<apiVars, stateVars, shutdown, closed, of, task, auto, endingErr, messages,
                   loop, beat, beatChan, stuck, ended>>

(* Only then is there a shutdown channel, and a health check. *)
MakeShutdown(g) ==
    /\ At(g, "makeShutdown")
    /\ \E k \in Chans : /\ loop[k] = "none" /\ \A j \in 1..(k-1) : loop[j] # "none"
                        /\ shutdown' = k
                        /\ loop' = [loop EXCEPT ![k] = "test"]
    /\ Goto(g, "app")
    /\ UNCHANGED <<apiVars, stateVars, isReadyProcess, closed, of, task, auto, endingErr, messages,
                   beat, beatChan, stuck, ended>>

-----------------------------------------------------------------------------
(* The calls that talk about players, sessions, backfill, certificates:    *)
(* they check that the process is ready, some that it has a session and    *)
(* all what they are given, and only then read state.wsGameLift.           *)

SessionCall(g) ==
    /\ At(g, "app") /\ srv /\ initialized
    /\ isReadyProcess
    /\ Goto(g, "request")
    /\ UNCHANGED <<apiVars, stateVars, readyVars, of, task, auto, endingErr, messages, healthVars, ended>>

SessionSends(g) ==
    /\ At(g, "request")
    /\ IF wsGameLift = Nil
       THEN Panic("nil manager") /\ UNCHANGED pc
       ELSE Goto(g, "pending") /\ UNCHANGED ended
    /\ UNCHANGED <<apiVars, stateVars, readyVars, of, task, auto, endingErr, messages, healthVars>>

SessionReturns(g) ==
    /\ At(g, "pending")
    /\ Goto(g, "app")
    /\ UNCHANGED <<apiVars, stateVars, readyVars, of, task, auto, endingErr, messages, healthVars, ended>>

-----------------------------------------------------------------------------
(* processEnding, destroy and stopServerProcess. *)

(* state.processEnding(), called by goroutine g *)
SendEnding(g) ==
    IF wsGameLift = Nil
    THEN Panic("nil manager") /\ UNCHANGED <<pc, task>>
    ELSE /\ Goto(g, "ending")
         /\ task' = [task EXCEPT ![g] = "ending"]
         /\ UNCHANGED ended

ProcessEnding(g) ==
    /\ At(g, "app") /\ srv /\ initialized
    /\ SendEnding(g)
    /\ UNCHANGED <<apiVars, stateVars, readyVars, of, auto, endingErr, messages, healthVars>>

Destroy(g) ==
    /\ g \in Main /\ At(g, "app") /\ srv
    /\ Goto(g, "stop")
    /\ task' = [task EXCEPT ![g] = "destroy"]
    /\ UNCHANGED <<apiVars, stateVars, readyVars, of, auto, endingErr, messages, healthVars, ended>>

(* processEnding is over: return to the application or, if the handler     *)
(* shuts the process down by itself, go on with destroy.                   *)
EndingOver(g) ==
    IF g \in auto
    THEN Goto(g, "stop") /\ task' = [task EXCEPT ![g] = "destroy"]
    ELSE Goto(g, "app") /\ UNCHANGED task

Stopped(g) == IF task[g] = "ending" THEN EndingOver(g) ELSE Goto(g, "disconnect") /\ UNCHANGED task

(* Mutant: the error of any ProcessEnding counts for the exit code. *)
EndingReturnsErrs(g) ==
    /\ At(g, "ending")
    /\ \/ Goto(g, "stop") /\ UNCHANGED <<task, endingErr>>
       \/ EndingOver(g) /\ endingErr' = endingErr \cup {g}
    /\ UNCHANGED <<apiVars, stateVars, readyVars, of, auto, messages, healthVars, ended>>

EndingReturns(g) ==
    /\ At(g, "ending")
    /\ \/ Goto(g, "stop") /\ UNCHANGED <<task, endingErr>>
       \/ EndingOver(g) /\ endingErr' = endingErr \cup ({g} \cap auto)
    /\ UNCHANGED <<apiVars, stateVars, readyVars, of, auto, messages, healthVars, ended>>

(* Mutant: Load and Store in place of CompareAndSwap. *)
StopSwapsAlways(g) ==
    /\ At(g, "stop")
    /\ isReadyProcess' = FALSE
    /\ Goto(g, "checkOpen") /\ UNCHANGED task
    /\ UNCHANGED <<apiVars, stateVars, shutdown, closed, of, auto, endingErr, messages, healthVars, ended>>

(* isReadyProcess.CompareAndSwap(true, false) *)
StopSwaps(g) ==
    /\ At(g, "stop")
    /\ isReadyProcess' = FALSE
    /\ IF isReadyProcess THEN Goto(g, "checkOpen") /\ UNCHANGED task ELSE Stopped(g)
    /\ UNCHANGED <<apiVars, stateVars, shutdown, closed, of, auto, endingErr, messages, healthVars, ended>>

(* isChannelOpen(state.shutdown) && state.shutdown != nil *)
StopChecks(g) ==
    /\ At(g, "checkOpen")
    /\ IF shutdown \notin closed \cup {Nil} THEN Goto(g, "closeShutdown") /\ UNCHANGED task ELSE Stopped(g)
    /\ UNCHANGED <<apiVars, stateVars, readyVars, of, auto, endingErr, messages, healthVars, ended>>

StopCloses(g) ==
    /\ At(g, "closeShutdown")
    /\ closed' = closed \cup {shutdown}
    /\ IF shutdown \in closed
       THEN Panic("close of closed channel") /\ UNCHANGED <<pc, task>>
       ELSE Stopped(g) /\ UNCHANGED ended
    /\ UNCHANGED <<apiVars, stateVars, isReadyProcess, shutdown, of, auto, endingErr, messages, healthVars>>

(* What OnTerminateProcess does when destroy returns, and what Destroy does. *)
DestroyReturns(g, err) ==
    IF g \in auto
    THEN ended' = (IF err \/ g \in endingErr THEN "exit -1" ELSE "exit 0") /\ UNCHANGED pc
    ELSE Goto(g, IF err THEN "app" ELSE "teardown") /\ UNCHANGED ended

(* if state.wsGameLift == nil *)
DestroyChecks(g) ==
    /\ At(g, "disconnect")
    /\ IF wsGameLift = Nil THEN DestroyReturns(g, FALSE) ELSE Goto(g, "close") /\ UNCHANGED ended
    /\ UNCHANGED <<apiVars, stateVars, readyVars, of, task, auto, endingErr, messages, healthVars>>

(* state.wsGameLift.Disconnect() reads the field again.  Whichever manager *)
(* it is, the connection is the one that all of them share.                *)
Disconnect(g) ==
    /\ At(g, "close")
    /\ IF wsGameLift = Nil
       THEN Panic("nil manager") /\ UNCHANGED <<pc, up>>
       ELSE Goto(g, "forget") /\ up' = Nil /\ UNCHANGED ended
    /\ UNCHANGED <<apiVars, wsGameLift, parameters, gameSessionID, terminationTime, readyVars,
                   of, task, auto, endingErr, messages, healthVars>>

(* Mutant: an error of Disconnect returns before the manager is forgotten, *)
(* and in the handler before the process exits.                            *)
DestroyForgetsOnSuccess(g) ==
    /\ At(g, "forget")
    /\ \/ wsGameLift' = Nil /\ DestroyReturns(g, FALSE)
       \/ UNCHANGED <<wsGameLift, ended>> /\ Goto(g, IF g \in Handlers THEN "free" ELSE "app")
    /\ UNCHANGED <<apiVars, parameters, gameSessionID, terminationTime, up, readyVars,
                   of, task, auto, endingErr, messages, healthVars>>

DestroyForgets(g) ==
    /\ At(g, "forget")
    /\ wsGameLift' = Nil
    /\ \E err \in BOOLEAN : DestroyReturns(g, err)
    /\ UNCHANGED <<apiVars, parameters, gameSessionID, terminationTime, up, readyVars,
                   of, task, auto, endingErr, messages, healthVars>>

(* The rest of Destroy, when destroy returned no error. *)
Teardown(g) ==
    /\ At(g, "teardown")
    /\ manager' = Nil /\ srv' = FALSE
    /\ initialized' = FALSE
    /\ Goto(g, "app")
    /\ UNCHANGED <<created, initResult, readied, stateVars, readyVars,
                   of, task, auto, endingErr, messages, healthVars, ended>>

-----------------------------------------------------------------------------
(* The messages of the service. *)

(* A message of some kind gets a goroutine, which may be slow. *)
Receive(h, kind) ==
    /\ At(h, "free") /\ up # Nil /\ messages < MaxMessages
    /\ messages' = messages + 1
    /\ of' = [of EXCEPT ![h] = up]
    /\ Goto(h, kind)
    /\ UNCHANGED <<apiVars, stateVars, readyVars, task, auto, endingErr, healthVars, ended>>

(* OnStartGameSession looks at the flag ... *)
OnStartGameSession(h) ==
    /\ At(h, "start")
    /\ Goto(h, IF isReadyProcess THEN "bind" ELSE "free")
    /\ UNCHANGED <<apiVars, stateVars, readyVars, of, task, auto, endingErr, messages, healthVars, ended>>

(* ... and sets the session, whatever has become of the flag. *)
BindSession(h) ==
    /\ At(h, "bind")
    /\ gameSessionID' = of[h]
    /\ Goto(h, IF parameters = "callbacks" THEN "app" ELSE "free")
    /\ UNCHANGED <<apiVars, wsGameLift, parameters, terminationTime, up, readyVars,
                   of, task, auto, endingErr, messages, healthVars, ended>>

OnUpdateGameSession(h) ==
    /\ At(h, "update")
    /\ Goto(h, IF isReadyProcess /\ parameters = "callbacks" THEN "app" ELSE "free")
    /\ UNCHANGED <<apiVars, stateVars, readyVars, of, task, auto, endingErr, messages, healthVars, ended>>

(* Without a callback, the handler ends the process. *)
OnTerminateProcess(h) ==
    /\ At(h, "terminate")
    /\ terminationTime' = TRUE
    /\ IF parameters = "callbacks"
       THEN Goto(h, "app") /\ UNCHANGED <<auto, task, ended>>
       ELSE auto' = auto \cup {h} /\ SendEnding(h)
    /\ UNCHANGED <<apiVars, wsGameLift, parameters, gameSessionID, up, readyVars,
                   of, endingErr, messages, healthVars>>

OnRefreshConnection(h) ==
    /\ At(h, "refresh")
    /\ of' = [of EXCEPT ![h] = wsGameLift]
    /\ IF wsGameLift = Nil
       THEN Panic("nil manager") /\ UNCHANGED pc
       ELSE Goto(h, "refreshing") /\ UNCHANGED ended
    /\ UNCHANGED <<apiVars, stateVars, readyVars, task, auto, endingErr, messages, healthVars>>

(* Connect returns; an error is logged and leaves the connection there is. *)
RefreshReturns(h) ==
    /\ At(h, "refreshing")
    /\ up' \in {up, of[h]}
    /\ Goto(h, "free")
    /\ UNCHANGED <<apiVars, wsGameLift, parameters, gameSessionID, terminationTime, readyVars,
                   of, task, auto, endingErr, messages, healthVars, ended>>

-----------------------------------------------------------------------------
(* startHealthCheck(done) and heartbeatServerProcess(done). *)

(* Mutant: for { } in place of for isReadyProcess.Load() { }. *)
LoopForever(k) ==
    /\ LoopAt(k, "test")
    /\ \E b \in Beats : /\ BeatAt(b, "free")
                        /\ beat' = [beat EXCEPT ![b] = "health"]
                        /\ beatChan' = [beatChan EXCEPT ![b] = k]
    /\ loop' = [loop EXCEPT ![k] = "wait"]
    /\ UNCHANGED <<apiVars, stateVars, readyVars, callVars, stuck, ended>>

LoopTests(k) ==
    /\ LoopAt(k, "test")
    /\ IF isReadyProcess
       THEN /\ \E b \in Beats : /\ BeatAt(b, "free")
                                /\ beat' = [beat EXCEPT ![b] = "health"]
                                /\ beatChan' = [beatChan EXCEPT ![b] = k]
            /\ loop' = [loop EXCEPT ![k] = "wait"]
       ELSE /\ loop' = [loop EXCEPT ![k] = "ended"]
            /\ UNCHANGED <<beat, beatChan>>
    /\ UNCHANGED <<apiVars, stateVars, readyVars, callVars, stuck, ended>>

(* Mutant: the case of the timer returns. *)
LoopReturnsOnTimeout(k) ==
    /\ LoopAt(k, "wait")
    /\ loop' = [loop EXCEPT ![k] = "ended"]
    /\ UNCHANGED <<apiVars, stateVars, readyVars, callVars, beat, beatChan, stuck, ended>>

(* The interval is over, or done is closed; select takes either if both.   *)
LoopWakes(k) ==
    /\ LoopAt(k, "wait")
    /\ \/ loop' = [loop EXCEPT ![k] = "test"]
       \/ k \in closed /\ loop' = [loop EXCEPT ![k] = "ended"]
    /\ UNCHANGED <<apiVars, stateVars, readyVars, callVars, beat, beatChan, stuck, ended>>

(* The result of OnHealthCheck arrives; without the callback, res is closed. *)
HealthReported(b) ==
    /\ BeatAt(b, "health")
    /\ beat' = [beat EXCEPT ![b] = "report"]
    /\ UNCHANGED <<apiVars, stateVars, readyVars, callVars, loop, beatChan, stuck, ended>>

(* The callback takes too long, or done is closed: res has no buffer and   *)
(* nobody receives from it any more.                                       *)
HealthGivenUp(b) ==
    /\ BeatAt(b, "health")
    /\ \/ parameters = "callbacks" /\ beat' = [beat EXCEPT ![b] = "report"]
       \/ beatChan[b] \in closed /\ beat' = [beat EXCEPT ![b] = "free"]
    /\ stuck' = (stuck \/ parameters = "callbacks")
    /\ UNCHANGED <<apiVars, stateVars, readyVars, callVars, loop, beatChan, ended>>

BeatSends(b) ==
    /\ BeatAt(b, "report")
    /\ IF wsGameLift = Nil
       THEN Panic("heartbeat on nil manager") /\ UNCHANGED beat
       ELSE beat' = [beat EXCEPT ![b] = "sent"] /\ UNCHANGED ended
    /\ UNCHANGED <<apiVars, stateVars, readyVars, callVars, loop, beatChan, stuck>>

BeatReturns(b) ==
    /\ BeatAt(b, "sent")
    /\ beat' = [beat EXCEPT ![b] = "free"]
    /\ UNCHANGED <<apiVars, stateVars, readyVars, callVars, loop, beatChan, stuck, ended>>

-----------------------------------------------------------------------------
(* What the scheduler may run next; the application and the service act of *)
(* their own accord.                                                       *)
ApiStep(g) ==
    \/ InitReturns(g) \/ ReadyReturns(g) \/ MakeShutdown(g)
    \/ SessionSends(g) \/ SessionReturns(g)
    \/ EndingReturns(g) \/ StopSwaps(g) \/ StopChecks(g) \/ StopCloses(g)
    \/ DestroyChecks(g) \/ Disconnect(g) \/ DestroyForgets(g) \/ Teardown(g)

HandlerStep(h) ==
    \/ OnStartGameSession(h) \/ BindSession(h) \/ OnUpdateGameSession(h)
    \/ OnTerminateProcess(h) \/ OnRefreshConnection(h) \/ RefreshReturns(h)

LoopStep(k) == LoopTests(k) \/ LoopWakes(k)
BeatStep(b) == HealthReported(b) \/ HealthGivenUp(b) \/ BeatSends(b) \/ BeatReturns(b)

Environment ==
    \/ \E g \in Goroutines : \/ InitSDK(g) \/ ProcessReady(g) \/ SessionCall(g)
                             \/ ProcessEnding(g) \/ Destroy(g) \/ CallbackReturns(g)
    \/ \E h \in Handlers, kind \in Kinds : Receive(h, kind)

Next ==
    \/ Environment
    \/ \E g \in Goroutines : ApiStep(g)
    \/ \E h \in Handlers : HandlerStep(h)
    \/ \E k \in Chans : LoopStep(k)
    \/ \E b \in Beats : BeatStep(b)

(* Go runs every goroutine that can run, and a timer fires.  A request and *)
(* Connect return: of a request WebsocketClient shows it for one that has  *)
(* left the transport's Write (EverySentCallEnds); that Write lets go of   *)
(* it is an assumption here.                                               *)
Fairness ==
    /\ \A g \in Goroutines : WF_vars(ApiStep(g))
    /\ \A h \in Handlers : WF_vars(HandlerStep(h))
    /\ \A k \in Chans : WF_vars(LoopStep(k))
    /\ \A b \in Beats : WF_vars(BeatStep(b))

Spec == Init /\ [][Next]_vars /\ Fairness

-----------------------------------------------------------------------------
(* Properties. *)

Pcs == {"app", "free", "connecting", "activating", "makeShutdown", "request", "pending",
        "ending", "stop", "checkOpen", "closeShutdown", "disconnect", "close", "forget", "teardown",
        "start", "bind", "update", "terminate", "refresh", "refreshing"}

TypeOK ==
    /\ {srv, isReadyProcess, terminationTime, initialized, readied, stuck} \subseteq BOOLEAN
    /\ {manager, wsGameLift, gameSessionID, up} \subseteq Managers \cup {Nil}
    /\ shutdown \in Chans \cup {Nil} /\ closed \subseteq Chans
    /\ parameters \in {"nil", "callbacks", "bare"}
    /\ pc \in [Goroutines -> Pcs]
    /\ of \in [Goroutines -> Managers \cup {Nil}]
    /\ task \in [Goroutines -> {"ending", "destroy"}]
    /\ auto \subseteq Handlers /\ endingErr \subseteq auto
    /\ loop \in [Chans -> {"none", "test", "wait", "ended"}]
    /\ beat \in [Beats -> {"free", "health", "report", "sent"}]
    /\ beatChan \in [Beats -> Chans \cup {Nil}]
    /\ created \in 0..MaxInits /\ messages \in Nat
    /\ initResult \in {"none", "nil", "error", "already"}
    /\ ended \in {"no", "exit 0", "exit -1", "nil manager", "heartbeat on nil manager", "close of closed channel"}

(* However many goroutines end or destroy the process at a time, the       *)
(* shutdown channel is closed once: closing it again would panic.          *)
ShutdownClosedOnce == ended # "close of closed channel"

(* As long as the process is ready its health is reported: outside the two *)
(* lines of ProcessReady in between, the current health check runs and its *)
(* channel is open.                                                        *)
ReadyProcessIsReported ==
    isReadyProcess /\ (\A g \in Main : pc[g] # "makeShutdown") =>
        loop[shutdown] \in {"test", "wait"} /\ shutdown \notin closed

(* Every health check of a process that is no longer ready ends, whether   *)
(* or not its channel could be closed, unless the process gets ready anew. *)
HealthCheckEnds ==
    \A k \in Chans : loop[k] \in {"test", "wait"} /\ ~isReadyProcess
                       ~> loop[k] = "ended" \/ isReadyProcess \/ ~Running

(* A process that is told to terminate, and has no callback for it, exits: *)
(* whatever else goes on, and whether or not the requests it makes on the  *)
(* way succeed, as long as they return.                                    *)
TerminatedProcessExits == \A h \in Handlers : h \in auto ~> ~Running

(* Destroy's doc: it stops heartbeat communication.  No heartbeat is still *)
(* on its way when the manager is gone.                                    *)
DestroyStopsHeartbeats == ended # "heartbeat on nil manager"

(* Destroy's doc: it removes all state information. *)
DestroyRemovesState ==
    ~srv /\ (\A g \in Goroutines : pc[g] \in {"app", "free"}) =>
        gameSessionID = Nil /\ ~terminationTime

(* Destroy's doc: it closes any connections. *)
DestroyClosesConnections ==
    ~srv /\ (\A g \in Goroutines : pc[g] \in {"app", "free"}) => up = Nil

(* The comment and the text of AlreadyInitialized: the SDK has already     *)
(* been initialized.                                                       *)
AlreadyInitializedIsTrue == [][initResult' = "already" /\ initResult # "already" => initialized]_vars

(* The tests look for leaked goroutines: the goroutine that runs           *)
(* OnHealthCheck can hand over its result.                                 *)
HealthCheckIsReceived == ~stuck
=============================================================================
