--------------------------- MODULE MetricsLifecycle ---------------------------
(***************************************************************************)
(* How metrics begin and end with the SDK: InitMetrics, InitSDK and        *)
(* Destroy of gamelift_server_api.go, initMetricsFactory of                *)
(* server/metrics.go, the one global processor of metrics/global.go, and   *)
(* the handlers of server_state.go that tell the crash reporter and the    *)
(* processor which game session the process has.                           *)
(*                                                                         *)
(* Nothing here is locked but the global processor.  InitMetrics may be    *)
(* called before InitSDK, as is recommended, or at any later time, and by  *)
(* more than one goroutine; the goroutine that calls InitSDK and Destroy   *)
(* is one and the same.  A factory, and the processor with its transport,  *)
(* go by the name of the call of InitMetrics that made them.               *)
(***************************************************************************)
EXTENDS Naturals

CONSTANTS
    Inits,          \* calls of InitMetrics
    Handlers,       \* goroutines of readHandler alive at one time
    None,           \* no factory, no processor
    MaxLives,       \* bound: calls of InitSDK that get as far as init
    MaxSessions     \* bound: game sessions that the service starts

NoSession == 0

ASSUME LifecycleAssumption ==
    /\ None \notin Inits
    /\ MaxLives \in Nat \ {0} /\ MaxSessions \in Nat \ {0}

VARIABLES
    srv,              \* srv # nil
    metricsFactory,   \* the API's metricsFactory
    stateFactory,     \* state.metricsFactory
    wsGameLift,       \* state.wsGameLift # nil
    isReadyProcess,   \* state.isReadyProcess
    gameSessionID,    \* state.gameSessionID
    globalProcessor,  \* whose processor is the global one
    once,             \* the sync.Once has been used
    started,          \* its `started`
    sessionTag,       \* its global tag session_id
    init,             \* where each call of InitMetrics is
    hadServer,        \* those that found srv # nil
    seen,             \* the session that each read
    main,             \* where the goroutine is that calls InitSDK and Destroy
    disconnectErr,    \* what its Disconnect returned
    handler,          \* where each handler is
    session,          \* the session it was told of
    crashed,          \* a handler called a method of a nil factory
    lives, sessions,  \* how much of MaxLives and MaxSessions is used
    reporter,         \* history: the calls that the crash reporter got
    overlapped,       \* history: an InitMetrics overlapped another call of these
    raced,            \* history: state.metricsFactory changed during a handler
    boundNow,         \* history: gameSessionID was bound since the last InitSDK
    destroyed         \* history: Destroy returned nil, no InitMetrics since

apiVars == <<srv, metricsFactory, init, hadServer, seen, overlapped>>
stateVars == <<stateFactory, wsGameLift, isReadyProcess, gameSessionID>>
processorVars == <<globalProcessor, once, started, sessionTag>>
mainVars == <<main, disconnectErr, lives, destroyed>>
handlerVars == <<handler, session, crashed, sessions, boundNow>>
vars == <<apiVars, stateVars, processorVars, mainVars, handlerVars, reporter,
          raced>>

Init ==
    /\ srv = FALSE /\ metricsFactory = None
    /\ stateFactory = None /\ wsGameLift = FALSE
    /\ isReadyProcess = FALSE /\ gameSessionID = NoSession
    /\ globalProcessor = None /\ once = FALSE
    /\ started = FALSE /\ sessionTag = NoSession
    /\ init = [i \in Inits |-> "none"] /\ hadServer = {}
    /\ seen = [i \in Inits |-> NoSession]
    /\ main = "app" /\ disconnectErr = FALSE
    /\ handler = [h \in Handlers |-> "free"]
    /\ session = [h \in Handlers |-> NoSession]
    /\ crashed = FALSE
    /\ lives = 0 /\ sessions = 0 /\ boundNow = FALSE
    /\ reporter = {} /\ overlapped = FALSE /\ raced = FALSE /\ destroyed = FALSE

Done == {"none", "ok", "error"}
InDestroy == main \in {"stops", "disconnects", "forgets", "terminates", "clears"}
InitsIdle == \A i \in Inits : init[i] \in Done
HandlersIdle == \A h \in Handlers : handler[h] = "free"

\* Whoever writes state.metricsFactory may do so in the middle of a handler.
SetsStateFactory(f) ==
    /\ stateFactory' = f
    /\ raced' = (raced \/ ~HandlersIdle)

\* The steps of a process that has not panicked.
At(i, here, there) ==
    ~crashed /\ init[i] = here /\ init' = [init EXCEPT ![i] = there]

Main(here, there) == ~crashed /\ main = here /\ main' = there

-----------------------------------------------------------------------------
(* InitMetrics. *)

\* It looks at metricsFactory, and passes srv on.
InitMetrics(i) ==
    /\ At(i, "none", IF metricsFactory # None THEN "error" ELSE "checks")
    /\ hadServer' = IF srv THEN hadServer \cup {i} ELSE hadServer
    /\ overlapped' = (overlapped \/ main # "app" \/ ~InitsIdle)
    /\ destroyed' = FALSE
    /\ UNCHANGED <<srv, metricsFactory, seen, stateVars, processorVars, main,
                   disconnectErr, lives, handlerVars, reporter, raced>>

\* Invalid parameters, or a processor that is there already, are an error.
ChecksProcessor(i) ==
    /\ \/ At(i, "checks", "fails")
       \/ globalProcessor = None /\ At(i, "checks", "creates")
    /\ UNCHANGED <<srv, metricsFactory, hadServer, seen, overlapped, stateVars,
                   processorVars, mainVars, handlerVars, reporter, raced>>

(* Mutant: HasGlobalProcessor is the only guard, without the sync.Once. *)
CreatesUnguarded(i) ==
    /\ once' = TRUE
    /\ globalProcessor' = IF globalProcessor = None THEN i ELSE globalProcessor
    /\ At(i, "creates", "starts")
    /\ UNCHANGED <<srv, metricsFactory, hadServer, seen, overlapped, stateVars,
                   started, sessionTag, mainVars, handlerVars, reporter, raced>>

\* once.Do makes the processor of the first caller the global one; another gets
\* an error.
CreatesProcessor(i) ==
    /\ \/ /\ once /\ At(i, "creates", "fails")
          /\ UNCHANGED <<once, globalProcessor>>
       \/ /\ ~once /\ At(i, "creates", "starts")
          /\ once' = TRUE
          /\ globalProcessor' = IF globalProcessor = None THEN i ELSE globalProcessor
    /\ UNCHANGED <<srv, metricsFactory, hadServer, seen, overlapped, stateVars,
                   started, sessionTag, mainVars, handlerVars, reporter, raced>>

\* The factory takes the global processor, which is started.
StartsProcessor(i) ==
    /\ At(i, "starts", IF started THEN "fails" ELSE "registers")
    /\ started' = TRUE
    /\ UNCHANGED <<srv, metricsFactory, hadServer, seen, overlapped, stateVars,
                   globalProcessor, once, sessionTag, mainVars, handlerVars,
                   reporter, raced>>

\* OnProcessStart: RegisterProcess, whose error is dropped.
RegistersProcess(i) ==
    /\ At(i, "registers", "sets")
    /\ reporter' = reporter \cup {<<"register", NoSession>>}
    /\ UNCHANGED <<srv, metricsFactory, hadServer, seen, overlapped, stateVars,
                   processorVars, mainVars, handlerVars, raced>>

\* setMetricsFactory, if there was a server state when InitMetrics was called.
SetsFactory(i) ==
    /\ IF i \in hadServer
       THEN At(i, "sets", "reads") /\ SetsStateFactory(i)
       ELSE At(i, "sets", "returns") /\ UNCHANGED <<stateFactory, raced>>
    /\ UNCHANGED <<srv, metricsFactory, hadServer, seen, overlapped, wsGameLift,
                   isReadyProcess, gameSessionID, processorVars, mainVars,
                   handlerVars, reporter>>

\* getGameSessionID: a session may have begun already.
ReadsSession(i) ==
    /\ At(i, "reads", IF gameSessionID # NoSession THEN "tags" ELSE "returns")
    /\ seen' = [seen EXCEPT ![i] = gameSessionID]
    /\ UNCHANGED <<srv, metricsFactory, hadServer, overlapped, stateVars,
                   processorVars, mainVars, handlerVars, reporter, raced>>

\* OnStartGameSession of the factory: first the crash reporter ...
TagsSession(i) ==
    /\ At(i, "tags", "labels")
    /\ reporter' = reporter \cup {<<"tag", seen[i]>>}
    /\ UNCHANGED <<srv, metricsFactory, hadServer, seen, overlapped, stateVars,
                   processorVars, mainVars, handlerVars, raced>>

\* ... then the global tag.
LabelsSession(i) ==
    /\ At(i, "labels", "returns")
    /\ sessionTag' = seen[i]
    /\ UNCHANGED <<srv, metricsFactory, hadServer, seen, overlapped, stateVars,
                   globalProcessor, once, started, mainVars, handlerVars,
                   reporter, raced>>

(* Mutant: createMetrics passes on the *Factory of a failure, a typed nil. *)
ReturnsTypedNil(i) ==
    /\ \/ At(i, "returns", "ok") /\ metricsFactory' = i
       \/ At(i, "fails", "error") /\ metricsFactory' = "typed nil"
    /\ UNCHANGED <<srv, hadServer, seen, overlapped, stateVars, processorVars,
                   mainVars, handlerVars, reporter, raced>>

\* createMetrics returned: its results are assigned, a nil factory included.
Returns(i) ==
    /\ \/ At(i, "returns", "ok") /\ metricsFactory' = i
       \/ At(i, "fails", "error") /\ metricsFactory' = None
    /\ UNCHANGED <<srv, hadServer, seen, overlapped, stateVars, processorVars,
                   mainVars, handlerVars, reporter, raced>>

InitStep(i) ==
    \/ ChecksProcessor(i) \/ CreatesProcessor(i) \/ StartsProcessor(i)
    \/ RegistersProcess(i) \/ SetsFactory(i) \/ ReadsSession(i)
    \/ TagsSession(i) \/ LabelsSession(i) \/ Returns(i)

-----------------------------------------------------------------------------
(* InitSDK, ProcessReady and Destroy. *)

\* state.init sets wsGameLift (before it connects), or fails before that.
InitSDK ==
    /\ Main("app", "publishes") /\ ~srv /\ lives < MaxLives
    /\ lives' = lives + 1 /\ boundNow' = FALSE
    /\ wsGameLift' \in {wsGameLift, TRUE}
    /\ overlapped' = (overlapped \/ ~InitsIdle)
    /\ UNCHANGED <<srv, metricsFactory, init, hadServer, seen, stateFactory,
                   isReadyProcess, gameSessionID,
                   processorVars, disconnectErr, destroyed, handler, session,
                   crashed, sessions, reporter, raced>>

\* Whatever init returned, srv is set.
PublishesServer ==
    /\ Main("publishes", "hands")
    /\ srv' = TRUE
    /\ UNCHANGED <<metricsFactory, init, hadServer, seen, overlapped, stateVars,
                   processorVars, disconnectErr, lives, destroyed, handlerVars,
                   reporter, raced>>

(* Mutant: InitSDK does not pass on the factory that InitMetrics made. *)
HandsNoFactory ==
    /\ Main("hands", "app")
    /\ UNCHANGED <<apiVars, stateVars, processorVars, disconnectErr, lives,
                   destroyed, handlerVars, reporter, raced>>

\* The factory of an earlier InitMetrics is given to the state.
HandsFactory ==
    /\ Main("hands", "app")
    /\ IF metricsFactory # None THEN SetsStateFactory(metricsFactory)
       ELSE UNCHANGED <<stateFactory, raced>>
    /\ UNCHANGED <<apiVars, wsGameLift, isReadyProcess, gameSessionID,
                   processorVars, disconnectErr, lives, destroyed, handlerVars,
                   reporter>>

ProcessReady ==
    /\ ~crashed /\ main = "app" /\ srv /\ wsGameLift /\ ~isReadyProcess
    /\ isReadyProcess' = TRUE
    /\ UNCHANGED <<apiVars, stateFactory, wsGameLift, gameSessionID,
                   processorVars, mainVars, handlerVars, reporter, raced>>

Destroy ==
    /\ Main("app", IF srv THEN "stops" ELSE "terminates")
    /\ overlapped' = (overlapped \/ ~InitsIdle)
    /\ destroyed' = FALSE
    /\ UNCHANGED <<srv, metricsFactory, init, hadServer, seen, stateVars,
                   processorVars, disconnectErr, lives, handlerVars, reporter,
                   raced>>

\* state.destroy: stopServerProcess; it ends here if there is no connection.
StopsServer ==
    /\ Main("stops", IF wsGameLift THEN "disconnects" ELSE "terminates")
    /\ isReadyProcess' = FALSE
    /\ UNCHANGED <<apiVars, stateFactory, wsGameLift, gameSessionID,
                   processorVars, disconnectErr, lives, destroyed, handlerVars,
                   reporter, raced>>

Disconnects ==
    /\ Main("disconnects", "forgets")
    /\ disconnectErr' \in BOOLEAN
    /\ UNCHANGED <<apiVars, stateVars, processorVars, lives, destroyed,
                   handlerVars, reporter, raced>>

\* Both are forgotten; then an error of Disconnect ends Destroy.
Forgets ==
    /\ Main("forgets", IF disconnectErr THEN "app" ELSE "terminates")
    /\ wsGameLift' = FALSE /\ SetsStateFactory(None)
    /\ disconnectErr' = FALSE
    /\ UNCHANGED <<apiVars, isReadyProcess, gameSessionID, processorVars, lives,
                   destroyed, handlerVars, reporter>>

(* Mutant: Destroy forgets the factory before it terminates it. *)
TerminatesAfterClearing ==
    /\ Main("terminates", "clears")
    /\ metricsFactory' = None
    /\ UNCHANGED <<srv, init, hadServer, seen, overlapped, stateVars,
                   processorVars, disconnectErr, lives, destroyed, handlerVars,
                   reporter, raced>>

\* terminateMetricsFactory stops the global processor, if there is a factory.
TerminatesMetrics ==
    /\ Main("terminates", "clears")
    /\ started' = (started /\ metricsFactory = None)
    /\ UNCHANGED <<apiVars, stateVars, globalProcessor, once, sessionTag,
                   disconnectErr, lives, destroyed, handlerVars, reporter, raced>>

Clears ==
    /\ Main("clears", "app")
    /\ srv' = FALSE /\ metricsFactory' = None /\ destroyed' = TRUE
    /\ UNCHANGED <<init, hadServer, seen, overlapped, stateVars, processorVars,
                   disconnectErr, lives, handlerVars, reporter, raced>>

MainStep ==
    \/ PublishesServer \/ HandsFactory \/ StopsServer \/ Disconnects
    \/ Forgets \/ TerminatesMetrics \/ Clears

-----------------------------------------------------------------------------
(* Messages of the service. *)

Goes(h, here, there) ==
    ~crashed /\ handler[h] = here /\ handler' = [handler EXCEPT ![h] = there]

\* The service starts a game session, or terminates the process, while it is
\* ready; the handler may run much later.
Receives(h) ==
    /\ isReadyProcess
    /\ \/ /\ sessions < MaxSessions /\ sessions' = sessions + 1
          /\ session' = [session EXCEPT ![h] = sessions + 1]
          /\ Goes(h, "free", "checks")
       \/ Goes(h, "free", "ends") /\ UNCHANGED <<session, sessions>>
    /\ UNCHANGED <<apiVars, stateVars, processorVars, mainVars, crashed,
                   boundNow, reporter, raced>>

\* OnStartGameSession and OnTerminateProcess look whether there is a factory ...
ChecksFactory(h) ==
    /\ \/ Goes(h, "checks", IF stateFactory # None THEN "calls" ELSE "binds")
       \/ Goes(h, "ends", IF stateFactory # None THEN "deregisters" ELSE "free")
    /\ UNCHANGED <<apiVars, stateVars, processorVars, mainVars, session,
                   crashed, sessions, boundNow, reporter, raced>>

\* ... read it again and call it: it tags the session, or deregisters.
CallsFactory(h) ==
    /\ \/ Goes(h, "calls", "labels")
          /\ reporter' = IF stateFactory = None THEN reporter
                         ELSE reporter \cup {<<"tag", session[h]>>}
       \/ Goes(h, "deregisters", "free")
          /\ reporter' = IF stateFactory = None THEN reporter
                         ELSE reporter \cup {<<"deregister", NoSession>>}
    /\ crashed' = (stateFactory = None)
    /\ UNCHANGED <<apiVars, stateVars, processorVars, mainVars, session,
                   sessions, boundNow, raced>>

LabelsFactory(h) ==
    /\ Goes(h, "labels", "binds")
    /\ sessionTag' = session[h]
    /\ UNCHANGED <<apiVars, stateVars, globalProcessor, once, started, mainVars,
                   session, crashed, sessions, boundNow, reporter, raced>>

\* Only now is the session that of the process, and only if it is ready.
BindsSession(h) ==
    /\ Goes(h, "binds", "free")
    /\ gameSessionID' = IF isReadyProcess THEN session[h] ELSE gameSessionID
    /\ boundNow' = (boundNow \/ isReadyProcess)
    /\ session' = [session EXCEPT ![h] = NoSession]
    /\ UNCHANGED <<apiVars, stateFactory, wsGameLift, isReadyProcess,
                   processorVars, mainVars, crashed, sessions, reporter, raced>>

HandlerStep(h) ==
    ChecksFactory(h) \/ CallsFactory(h) \/ LabelsFactory(h) \/ BindsSession(h)

-----------------------------------------------------------------------------
Next ==
    \/ \E i \in Inits : InitMetrics(i) \/ InitStep(i)
    \/ InitSDK \/ ProcessReady \/ Destroy \/ MainStep
    \/ \E h \in Handlers : Receives(h) \/ HandlerStep(h)

Spec == Init /\ [][Next]_vars

-----------------------------------------------------------------------------
(* Properties. *)

\* Types of all variables.
TypeOK ==
    /\ {srv, wsGameLift, isReadyProcess, once, started, disconnectErr, crashed,
        overlapped, raced, boundNow, destroyed} \subseteq BOOLEAN
    /\ {metricsFactory, stateFactory, globalProcessor} \subseteq Inits \cup {None}
    /\ {gameSessionID, sessionTag} \subseteq 0..MaxSessions
    /\ init \in [Inits -> Done \cup {"checks", "creates", "starts", "registers",
                    "sets", "reads", "tags", "labels", "returns", "fails"}]
    /\ hadServer \subseteq Inits /\ seen \in [Inits -> 0..MaxSessions]
    /\ main \in {"app", "publishes", "hands", "stops", "disconnects", "forgets",
                 "terminates", "clears"}
    /\ handler \in [Handlers -> {"free", "checks", "calls", "labels", "binds",
                                 "ends", "deregisters"}]
    /\ session \in [Handlers -> 0..MaxSessions]
    /\ lives \in 0..MaxLives /\ sessions \in 0..MaxSessions
    /\ reporter \subseteq {"register", "tag", "deregister"} \X (0..MaxSessions)

\* A call of InitMetrics that goes past InitMetricsProcessor has its own processor
\* as the global one (with its transport and interval), however calls overlap; so one
\* call at most succeeds in a process, even with a Destroy in between.
WinnerOwnsProcessor ==
    \A i \in Inits :
        init[i] \in {"starts", "registers", "sets", "reads", "tags", "labels",
                     "returns", "ok"} => globalProcessor = i

\* The processor follows the factory: while the API keeps a factory its processor
\* runs, but for the end of Destroy, so that no metric is made in vain; and once
\* Destroy has returned nil it is stopped, so that its goroutines and its transport
\* are not leaked, if InitMetrics overlapped no other call.
ProcessorFollowsFactory ==
    /\ metricsFactory # None => started \/ main = "clears"
    /\ (destroyed /\ ~overlapped) => ~started

\* InitMetrics before InitSDK or after it, by one call at a time, reaches the state
\* that ProcessReady makes ready.
ShouldHaveFactory == isReadyProcess /\ metricsFactory # None /\ ~overlapped /\ ~InDestroy

\* A session that is bound while the state has a factory, or should have one, is
\* known to the crash reporter, whether InitSDK, InitMetrics or the session came
\* first, unless the factory changed in the middle of a handler.
SessionIsReported ==
    (/\ boundNow /\ (stateFactory # None \/ ShouldHaveFactory)
     /\ HandlersIdle /\ InitsIdle /\ ~raced)
        => <<"tag", gameSessionID>> \in reporter

-----------------------------------------------------------------------------
(* What the code does not keep. *)

\* processor.go:804: session_id is set "when a game session starts".  A handler
\* that found no factory binds its session after InitMetrics looked for one.
BoundSessionIsReported ==
    (/\ boundNow /\ stateFactory # None /\ HandlersIdle /\ InitsIdle)
        => <<"tag", gameSessionID>> \in reporter

\* gamelift_server_api.go:97: to call InitMetrics before InitSDK is recommended.  If
\* it has not returned when InitSDK looks, neither gives the state its factory.
EarlyMetricsReachServer ==
    (isReadyProcess /\ metricsFactory # None /\ InitsIdle)
        => stateFactory = metricsFactory \/ InDestroy

\* server_state.go:450-452: destroy forgets the connection and the factory.  It has
\* returned before that if init did not get as far as a connection.
DestroyForgetsFactory == destroyed => stateFactory = None

\* server_state.go:525 and 579 test the factory before they call it.  Destroy may
\* forget it in between.
HandlersDoNotPanic == ~crashed

\* gamelift_server_api.go:121: "You can only initialize metrics once."  The second
\* of two overlapping calls fails, and takes the factory of the first away, which
\* Destroy then does not stop.
FailureIsHarmless ==
    (\E i \in Inits : init[i] = "ok") /\ started /\ ~InDestroy
        => metricsFactory # None

=============================================================================
