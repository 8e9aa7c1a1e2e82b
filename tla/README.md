# A TLA+ model of the Amazon GameLift Servers SDK for Go

The SDK is a library inside a game server process.  It keeps one websocket to
the Amazon GameLift Servers service, sends requests over it and waits for their
responses, reacts to the messages the service sends by itself, reports the
health of the process, and feeds metrics to a StatsD collector.  All its state
is global to the process, and it is shared by the goroutines of the
application, one goroutine for each message that arrives, the reader of each
connection, the health check and its heartbeats, reconnect goroutines, the
metrics dispatcher and its workers.  Some of that state is under a mutex, some
is atomic, and some is neither.  That is what these modules are about.

Source paths below are relative to the root of the repository
(`server/...`, `metrics/...`).

## Inventory

| Component | State | Operations | What is hard |
|---|---|---|---|
| Request correlation: `server/internal/websocket_client.go`, `HandleRequest` of `gamelift_manager.go` | `responses` (RequestID to channel, under `respMtx`), `consecutiveTimeouts`, `reconnectInFlight` | `SendRequest`, `CancelRequest`, `NotifyRequestTimeout`, `readHandler`, `Connect`, `Close`, `HandleRequest` | a reply, a timeout, Close and another call with the same RequestID all end one request by closing one channel; the reconnect of a streak of timeouts |
| Websocket transport: `server/internal/transport/websocket.go`, `retry.go` | `conn`, `cancelConnectionFn`, `writeMtx`, `isConnected`, `reconnecting`, `preventAutoReconnect`, `writeRetries` | `Connect`, `Reconnect`, `Close`, `PreventAutoReconnect`, `Write`, `readProcess`, the close handler | replacing the connection under readers, writers and Close; who reconnects; who reads a connection that is going away |
| Server state and API: `server/server_state.go`, `server/gamelift_server_api.go` | `srv`, `manager`, `state` (`wsGameLift`, `isReadyProcess`, `shutdown`, `parameters`, `gameSessionID`, `terminationTime`) | `InitSDK`, `ProcessReady`, `ProcessEnding`, `Destroy`, session calls, `startHealthCheck`, `heartbeatServerProcess`, the four message handlers | almost no locks; several ways to end the process at a time; callbacks of the application in the middle; a second life of the SDK |
| Metrics pipeline: `metrics/processor.go`, `metrics/transport.go` | `ingressChannel`, `messageQueue`, `shutdown`, `started`, the batch of each worker | `enqueueMetric`, `Start`, `Stop`, `run`, `processWorker`, `flushMessages`, `sendServerUpHeartbeat`, `Send` | shutdown with messages in three places; restart; a full queue; a full batch; Stop waits for goroutines that want its mutex |
| Metrics and derived metrics: `metrics/base_metric.go`, `gauge.go`, `counter.go`, `timer.go`, `metrics/derived`, `metrics/samplers` | `currentValue`, tags, the fields of the derived metrics | `Set`, `Add`, `SetDuration`, `HandleMessage`, `EmitMetrics`, `Reset`, `ShouldSample`, `emitDerivedMetrics` | setters and workers share the derived metrics without a lock; the sampler is asked twice; percentiles of few values |
| Fleet role credentials: `getFleetRoleCredentials` in `server_state.go` | `fleetRoleResultCache`, `onManagedEC2` | lookup with expiry, request, store | calls that overlap each other and a new InitSDK |
| What InitSDK connects with: `init` in `server_state.go`, `server/validation.go`, `common/env.go`, `server/internal/security` | `processID`, `hostID`, `fleetID`, `onManagedEC2`; the parameters and the signature, local to a call | resolution of parameters and environment, validation, credentials and task of a container, signature, the query of `Connect` | the names that are signed and those that are sent take different ways; failed calls and a second InitSDK find the state as it was left; some failures end the process |
| Metric registry and tags: `metrics/base_metric.go`, `metrics/processor.go` | `MetricMap`, `GlobalTags`, the tags and derived metrics of each instance | `Build`, `WithTags`, `WithDimensionalTags`, `SetTags`, `RemoveTag`, `registerMetric`, `UnregisterMetric`, `SetGlobalTag`, `emitDerivedMetrics`, `mergeTags` | whose statistics are reported under whose tags; tags that change while messages and variants are made |
| Metrics lifecycle: `metrics/factory.go`, `metrics/global.go`, `metrics/crash_reporter*.go`, `server/metrics.go`, `InitMetrics` | the global processor and its `once`, `metricsFactory` of the API and of the server state, what the crash reporter was told | `InitMetrics`, `OnProcessStart`, `OnStartGameSession`, `OnProcessTermination`, termination by Destroy | no lock at all; InitMetrics before, during or after InitSDK, a session start and Destroy |
| Validation of session calls, network information, dialer, logging, data model, mocks | none, or local to a call | sequential computation and single I/O calls | nothing a model checker would add to |

How they interact: the application calls the API; the API calls
`HandleRequest`, which goes through the client and the transport; the
transport's reader hands each message to a new goroutine of `readHandler`,
which completes a request or calls a handler of the server state; a handler
calls back into the application, which calls the API.  A streak of timed-out
requests makes the client reconnect the transport.  `Destroy` closes client,
transport and health check.  Setting a metric feeds its derived metrics and
then the pipeline, whose workers emit both.

## Modules

| Module | Models | State and steps |
|---|---|---|
| `RequestReply` | what the request layer promises: a call begins once, ends at most once, and ends with an answer only if that call was given that answer; it does end if the transport lets go of its request (`Sent`) | `status`, `answers`; no channel, map, timer or goroutine |
| `WebsocketClient` | `websocket_client.go` and `HandleRequest` | one action for each section under `respMtx` and for each atomic operation; `respChan` is the buffered channel of a call, `responses` the map; each `readHandler` goroutine and each reconnect goroutine has its own program counter |
| `WebsocketTransport` | `websocket.go` and `retry.go` | one action for each access to an atomic flag, to `writeMtx` or to a field read without it; a connection is `link[k]`, its reader is process `k`; `Connect` is `ConnectLocks`, `DialSucceeds`, `MarkOldRedundant`, `Publish`, `Announce`, `Flush` |
| `ServerState` | `server_state.go` and the calls of `gamelift_server_api.go` | a program counter for each goroutine of the application and each handler, `loop[k]` for the health check of a `ProcessReady`, `beat[b]` for each heartbeat; a request is sent in one step and returns in another |
| `MetricsProcessor` | the pipeline of `processor.go` and `Send` | channels are sequences with an open flag; `dispatcher`, `worker[w]`, `caller[c]`, `controller[k]` are program counters; a panic ends the program (`crashed`) |
| `DerivedMetrics` | one metric, its sampler and its derived metrics, and the emission by a worker | `setter[s]` goes through `updateCurrentValue`, `enqueueMessage` and each `HandleMessage`; `worker[w]` takes the mutex and emits and resets each derived metric |
| `MetricRegistry` | the instances of one metric, their builders, tags and derived metrics, the registry, and a flush | `pc[a]` for the goroutines of the application: a call of SetTags holds the tags' mutex from its first tag to its last, and HandleMessage reads in one step and writes in another; `derived[i]` are the derived metrics an instance feeds, its builder's or clones; `MetricMap` maps tags to an instance; a worker reads the global tags, emits and resets the derived metrics of each instance in two steps under the processor's mutex, and sends |
| `MetricsLifecycle` | `InitMetrics`, `initMetricsFactory`, the end of metrics in `Destroy`, and what the handlers of `server_state.go` do with the factory | `init[i]` for each call of InitMetrics, `main` for the goroutine of InitSDK and Destroy, `handler[h]`; one step for each access to state that nothing locks; `reporter` is what the crash reporter was told |
| `Initialization` | what `InitSDK` and a refresh connect with: `init`, `ValidateServerParameters`, the container's fetchers, the signature, the query of `Connect` | `params` and `sigV4` are the locals of `init`, `id` the names in the global state; a string is who gave it and its shape; `connection` is what the last successful `Connect` was given |
| `FleetRoleCredentials` | `GetFleetRoleCredentials`, over the steps of `Initialization` | `pc[c]` for each call: lookup, check, send, answer and store, of which the first and the last are under `state.mtx`; `cache`, and a clock `now` |
| `MCWebsocketClient`, `MCMetricsProcessor`, `MCDerivedMetrics`, `MCMetricRegistry`, `MCFleetRoleCredentials` | | constants that a `.cfg` cannot write, and symmetry |
| `WebsocketClientProofs` | | the theorems about `WebsocketClient`, and that it implements `RequestReply` |
| `CredentialsProofs` | | the theorems about `FleetRoleCredentials` and the `Initialization` in it |
| `WebsocketTransportProofs`, `ServerStateProofs`, `MetricsProcessorProofs`, `MetricRegistryProofs`, `DerivedMetricsProofs`, `MetricsLifecycleProofs` | | the theorems about the module each is named after |

`WebsocketClient` implements `RequestReply`: `RR == INSTANCE RequestReply WITH
status <- CallStatus`, where `CallStatus` reads the outcome of a call off the
program counter and result of its `HandleRequest`; `RequestReplySpec` is the
property.  The modules meet at their interfaces: the client sees of the
transport whether it is open and what `Write`, `Connect` and `Reconnect`
return; the server state sees that a request returns with success or an error;
derived metrics see
that a message is taken by the pipeline or shed, and so does the registry, for
which a value is its number and the derived metrics of an instance are the set
of values they hold; the lifecycle sees of the pipeline whether it is started,
and of the server state the ready flag, the connection and the game session.
That a request returns is an assumption of the server state and not a fact about
the client: `EverySentCallEnds` gives it only if the transport's `Write` returns
(see Fairness).  `FleetRoleCredentials` extends `Initialization`, whose actions are the steps of
the application's goroutine there; of the rest of the server state both see the
ready flag and the manager.

Abstractions.  A frame is a reply to a call with one of two statuses, or
something else.  A goroutine's step ends where another goroutine could see the
difference.  History variables (marked "history" where they are declared) are
read by properties only.  In `DerivedMetrics` a racing `HandleMessage` is a
read and a write of the whole derived metric.  Of the finer outcomes of the data
race one is modelled: `EmitMetrics` of a percentile reads its values three times
(`percentile.go:56-62`) while an append and a Reset share their array, so that in
a race it may see any of the values sent, and zeros that nobody sent (`Copies`).
The others (a sum of one moment with a count of another) are not, and the exact
statements are about executions in which nothing overlaps (`raced`).  Percentiles
are numbers of tenths, so that 99.9 is one of them, and are computed exactly; the
rounding of floats is left out.  It is not harmless: the 30th percentile of two
values 0.1 comes out below 0.1.  `MetricRegistry` gives each instance one list of
derived metrics, and each builder a list of its own, as the application does
unless it passes one derived metric to two builders.
Definitions whose comment begins with "Mutant:" are slips that the code could
have had; the specification does not use them.

## Runs

Every number is a bound named in the module.  All runs set
`CHECK_DEADLOCK FALSE`: the application may stop calling, the service may stop
sending, and a process may end.

| Run | Instance | What it shows |
|---|---|---|
| `client_same_id` | two calls with one RequestID, one of them without a response body; two frames, two `readHandler` goroutines, a Close and a Connect | no channel is closed twice or written when closed or full (`RegisteredChannelIsFresh`); who waits can be woken (`NoOrphanedWaiter`); no path leaves an entry in the map (`NoEntryOutlivesItsCall`); a call whose request the transport has taken ends (`EverySentCallEnds`) |
| `client_refines` | two calls with identifiers of their own, a threshold of one timeout | `RequestReplySpec`; one reconnect goroutine at a time, exactly while its flag is set (`OneReconnectGoroutine`) |
| `transport_switch` | InitSDK, a refresh and a timeout goroutine that reconnects, two connections, one failed dial | one main connection, never marked redundant (`OneMainConnection`); a dead connection has somebody who will notice (`DeadConnectionIsHandled`); a superseded connection is closed (`OldConnectionIsClosed`) |
| `transport_close` | InitSDK, a writer, Destroy, two connections, one failed dial | `writeMtx` is held by exactly who writes or connects, although Write lets go of it in the middle (`OneWriterOrConnector`); the reader of a closed connection ends (`ReaderOfClosedEnds`) |
| `server_life` | one application goroutine, one handler at a time, one heartbeat, two messages of four kinds, one life | the shutdown channel is closed once (`ShutdownClosedOnce`); a ready process is reported (`ReadyProcessIsReported`); a health check ends (`HealthCheckEnds`); a process told to terminate exits (`TerminatedProcessExits`) |
| `server_credentials` | two lives of the SDK, on and off a container; three sets of parameters and three environments that disagree with them; complete and incomplete credentials of a container; two calls for one role, whose answers live three ticks | a connection names the process, host and fleet that its own InitSDK meant, with one authorization, and a signature is of just these names (`ConnectionIsOfOneInit`); parameters that were validated can be signed (`ValidatedCanBeSigned`); no call deletes credentials that are still good (`GoodEntriesAreNotDeleted`) |
| `metrics_pipeline` | one caller of three messages, two controllers, two workers, channels and batches of one, a restart, cancellation | a message is underway, delivered, or lost for a reason the code names (`NothingVanishes`), never reported twice (`NothingTwice`); a stopped processor is as new (`StoppedIsReusable`) |
| `metrics_ends` | one caller, one controller, one worker, batches of two, a restart | order is kept with one worker (`OneWorkerKeepsOrder`); Stop returns (`StopReturns`); messages are settled (`EveryMessageSettles`) |
| `metric_statistics` | two setters of a counter with a fraction sampler, two workers, three calls, mean with percentiles, or latest, greatest, least | each sampled value is in one emission (`CountedOnce`), whose statistics are those of exactly these values (`EmissionIsExact`, against definitions by counting that do not sort), both as long as nothing overlaps |
| `metric_variants` | two goroutines of the application, one worker, two instances (of one builder, of two, or a variant), two values, two tag keys, one change of tags or of the registry (two tags at once, of which one may be refused), dimensional metrics on and off, derived metrics that can be cloned or not | a message and a statistic never have half of a call of SetTags (`ReportedTagsAreSettled`); statistics mix only what one builder made, and those of a variant only if they cannot be cloned (`StatisticsKeepApart`); a value whose message is sent is in a statistic by then unless its HandleMessage overlapped another or an emission (`SentIsCounted`); global tags do not get into those of a metric (`TypeOK`) |
| `metrics_lifecycle` | two calls of InitMetrics, two lives of the SDK, one handler at a time, two sessions | the call of InitMetrics that goes on owns the processor, so that one at most succeeds (`WinnerOwnsProcessor`); the processor runs while the factory is kept and is stopped by Destroy (`ProcessorFollowsFactory`); the crash reporter is told of the session, whether InitSDK, InitMetrics or the session came first, because the factory reaches the server state (`SessionIsReported`) |

Why these bounds are enough to be interesting.  Two calls are the least for
sharing an identifier, for late and crossed replies, and for two timeouts that
race to start a reconnect; two frames allow a duplicate.  Two connections have
a switch with its old reader; a failed dial reaches every error path of
`Connect`.  One handler at a time with two messages gives a start of a session
followed by an update, a termination or a refresh, each against the
application's goroutine, the health check and the heartbeat.  Channels and
batches of one are full at once, so shedding, overflow and blocking occur with
three messages.  Three values are the least for a percentile that falls on a
value, and one that falls between two.  Two instances are a metric with a
variant, or two metrics that want the same place in the registry, and they share derived metrics or not; its
symmetry is that of the application's goroutines, whom no action or invariant
names.  Two calls of
InitMetrics overlap, or one follows a Destroy; two lives show what the first
leaves behind, in `MetricsLifecycle` and in `server_credentials`.  There the
three environments are one that is silent, one that names another process and
host, and one of an agentless process that brings a region and half a pair of
keys; with the three sets of parameters every branch of the validation is taken.
Two ticks of the clock make credentials good, and then too old; two calls are the
least for a lookup between the answer and the store of another call.  Its symmetry
(`CallerSymmetry`) is sound: no action and no property names a call.  A string
has a shape where the code looks at it (empty, with a slash, refused by a pattern,
`ManagedResource`) and otherwise only a giver, so that two sources never agree by
accident.  That a refresh brings a token is what the service is taken to do.

`MetricsLifecycle` has two history variables that say when its statements do not
apply: `overlapped` (an InitMetrics ran during another, or during InitSDK or
Destroy) and `raced` (the state's factory changed in the middle of a handler).
The table below says what happens then.  The handler of TerminateProcess is
modelled for an application that gives `OnProcessTerminate`; the other case is in
`ServerState`.

Fairness.  `WF` for goroutines: Go runs what can run, a timer fires, a dial ends
one way or the other.  Nothing obliges the application to call, the service to
answer, or the network to deliver or to break.  `SF` where a mutex is acquired in
`WebsocketTransport` (a `sync.Mutex` hands itself to a goroutine that has waited
too long), and for two branches of the workers' `select` in `MetricsProcessor` (a
`select` picks among its ready cases at random).  What returns from another
component is assumed only where this is said: the client has no fairness for
`Write` and `Reconnect` of the transport, since `Write` may stay in its loop for
ever (`WriteReturns` below), so that `EverySentCallEnds` and `RequestReply` speak
of a call from the moment `Write` has returned.  `HealthCheckEnds` and
`TerminatedProcessExits` of `ServerState` do assume that requests, and callbacks of
the application, return; `StopReturns` and `EveryMessageSettles` of
`MetricsProcessor` assume that `Send`, which writes a datagram, does.  The modules
of metrics below the pipeline and of the credentials have no liveness property and
no fairness.

### What the code does not keep

One run refutes a statement of the repository; `PROJECT.json` quotes both sides.

| Run | Statement | What happens |
|---|---|---|
| `transport_stuck_flag` | Reconnect "blocks until ongoing reconnect succeeds or initiates and finishes a new reconnect" (`websocket.go:150`) | `Connect` fails and leaves `reconnecting` set; each later Reconnect waits for nobody, returns nil and connects nothing |

The modules state more such properties, which no listed run checks, in the same
place as the others.  Each is violated in the instance given: a `.cfg` of the
module with these values, and the property as `INVARIANT` or, if it is an
action or temporal formula, `PROPERTY`.

| Property (module) | Statement | What happens | Instance |
|---|---|---|---|
| `SuccessMeansReply` (`WebsocketClient`) | HandleRequest waits for the response (`gamelift_manager.go:104`) | Close closes the channel; a call without a response body reads the zero `Outcome` and returns nil | `client_refines` |
| `SendAfterCloseFails` | "All Send calls after Close call will return an error" (`websocket_client.go:157`) | a reconnect goroutine opens the transport again | `Calls = {c1,c2,c3}`, `SharedThree`, `Threshold = 2`, one handler |
| `OneReconnectPerStreak` | "Kick off at most one reconnect per streak of timeouts" (`websocket_client.go:136`) | a timeout counted before a reconnect succeeded starts another after it | the same |
| `CancelSparesOthers` | CancelRequest "allows to cancel request if the request time duration was expire" (`websocket_client.go:118`) | with a shared RequestID the call that expires cancels the other one, if that has stored its channel since | `client_same_id` |
| `FlagCoversConnect` (`WebsocketTransport`) | "always set reconnecting to true so other goroutines can check" (`websocket.go:87`) | Reconnect clears the flag that another Connect has set | `transport_switch`, `MaxConns = 3`, `MaxFailures = 0` |
| `WriteAfterCloseFails` | "All Write calls after Close call will return an error" (`interfaces.go:33`) | a Connect under way publishes its connection after Close | one writer, `init`, one `timeout`, one closer, `MaxConns = 2` |
| `OldClosureSparesNew` | `websocket.go:239` on a normal closure of the old connection | the close handler closes `tr.conn`, which is the new one | `init`, `refresh`, `MaxConns = 2`, `MaxFailures = 0` |
| `OldErrorSparesNew` | the comment at `websocket.go:133` | a reader that looked at its context too early reconnects | the same, `MaxConns = 3` |
| `NewConnectionReconnects` | `interfaces.go:41`: "on the underlying connection" | `preventAutoReconnect` outlives Destroy | `init`, `again`, one closer, `MaxConns = 2` |
| `FailedWriteReturnsError` | `interfaces.go:26` | two writers share `writeRetries`; one leaves its loop with a nil error and calls `err.Error()` | two writers, `MaxConns = 3`, `ReconnectOnReadWriteFailureNumber = 1`, `MaxReadWriteRetry = 2` |
| `WriteReturns` | `MaxReadWriteRetry` is "the max number of retries after consecutive read/write failures" (`common/consts.go:31`) | each successful reconnect takes back its retry, so a link that fails after each one keeps `Write` in its loop | one writer, `init`, `MaxConns = 1`, `MaxFailures = 0`, `MaxRetry = 1`, `ReconnectOnReadWriteFailureNumber = 2`, `MaxReadWriteRetry = 5` |
| `DestroyStopsHeartbeats` (`ServerState`) | Destroy "stops heartbeat communication" (`gamelift_server_api.go:454`) | a heartbeat that waited for `OnHealthCheck` goes on after Destroy and dereferences the nil manager | `server_life`, `MaxMessages = 0`, `Kinds = {}` |
| `DestroyRemovesState` | Destroy "removes all state information" (`gamelift_server_api.go:454`) | the game session and the termination time stay | `server_life`, `Kinds = {"start"}` |
| `DestroyClosesConnections` | Destroy "closes any connections" (`gamelift_server_api.go:454`) | a refresh under way connects after the disconnect | `Kinds = {"refresh"}`, one message |
| `AlreadyInitializedIsTrue` | `common/errors.go:16` | a failed InitSDK leaves `srv` set | no messages |
| `HealthCheckIsReceived` | `goleak.VerifyNone` in `server_state_test.go:125` | a late health result blocks its goroutine for ever | no messages |
| `SettingsAreHarmless` (`Initialization`) | a duration of the environment may be "-1.5h" (`common/env.go:51`) | `HEALTHCHECK_MAX_JITTER` of zero or less makes `rand.Int63n` panic in the health check (`server_state.go:515`) | `server_credentials` |
| `KeysAreOfOneSource` | two AWS keys belong together (expected; no text of the repository says how sources combine) | the environment overrides one of the two AWS keys, and the signature is made with one key of each source | the same |
| `MetricsNameTheProcess` | gamelift_process_id is set "from environment variable" (`processor.go:795`) | an agentless process connects under a generated identifier (`env.go:22`) and tags its metrics `ManagedResource` | the same |
| `CacheIsOfThisLife` (`FleetRoleCredentials`) | Destroy "removes all state information" (`gamelift_server_api.go:454`) | a call that was answered before Destroy stores its credentials into the cache of the next InitSDK | the same |
| `NewerCredentialsStay` | the better of two answers is kept (expected; no text of the repository says which) | two calls ask at a time, and the older answer is stored over the newer one: expirations are not compared (`server_state.go:438-440`) | the same with `Lifetimes = {3, 4}` |
| `DefaultSessionIsAccepted` | "If role session name was not provided, default to fleetId-hostId" (`server_state.go:414`) | a host may have a slash (`validation.go:20`), a session name may not (`validation.go:25`), and the call is refused | the same |
| `EnqueueReturns` (`MetricsProcessor`) | "in a non-blocking manner" (`processor.go:294`) | after Stop nobody drains the ingress channel | `metrics_ends`, two workers, `IngressSize = 1`, `MaxMessages = 2`, `MaxStarts = 1` |
| `StoppedServerIsDown` | up=0 is sent "before any shutdown activities" (`processor.go:389`) | a worker that read `started` before sends up=1 after it | `metrics_pipeline` |
| `EnqueueNeverPanics` | `processor.go:57` | Stop closes the channel a caller sends on | `metrics_ends` |
| `SecondStopIsHarmless` | `processor_test.go:690` | a Stop while the first waits closes a closed channel | `metrics_pipeline` |
| `MessageIsItsArgument` (`DerivedMetrics`) | "SetDuration sets the timer to a specific duration" (`timer.go:87`) | the sampler declines the value and accepts the message, which then carries an earlier duration | one setter, one worker, `Type = "timer"`, `Values = {1, 4}`, `Sampler = "fraction"`, `Lists <- NoList`, `MaxSets = 2` |
| `GaugeSendsItsValue` | "Add adds to the current gauge value" (`gauge.go:87`), gauges "maintain state" (`CUSTOM_METRICS.md:198`) | the message of Add carries the increment, not the value | the same with `Type = "gauge"`, `Sampler = "all"` |
| `CountedInOnePeriod` | statistics are computed "during each capture period" (`CUSTOM_METRICS.md:408`) | an emission between the read and the write of `HandleMessage` lets a period be counted twice | the same with `Lists <- AllKinds`, `MaxSets = 3` |
| `StatisticsAreOfOne` (`MetricRegistry`) | of two counters of one builder: "Both should be independent" (`counter_test.go:568`) | Build passes the builder's derived metrics themselves (`counter.go:73`), and the values of one counter are reported under the tags of the other | `metric_variants` |
| `RecordedIsCounted` | derived metrics "compute additional statistics from base metrics automatically during each capture period" (`CUSTOM_METRICS.md:408`) | a value handled between `EmitMetrics` and `Reset` (`processor.go:657-663`) is wiped, and its message is sent | the same |
| `VariantStatisticsAreCounted` | WithTags variants "share derivedMetrics" (`base_metric.go:152`) | a variant has clones, and the second one with the same tags is not registered, so nobody emits its statistics | the same |
| `MetricTagsOverrideGlobal` | "metric-level tags overriding global tags" (`CUSTOM_METRICS.md:539`) | `mergeTags` lets the global tag win | the same |
| `TagsAreNotRaced` | "Should not panic and should be consistent" (`base_metric_test.go:172`) | `WithTags` reads the tags without their lock while SetTags writes them, which the runtime may answer by ending the program | the same |
| `TagsAreValid` | `TestWithTags_InvalidTagNotSet` (`processor_test.go:1614`) | with dimensional metrics, and in every builder, nothing is validated | the same, with an `Invalid` value in `NewTags` |
| `EarlyMetricsReachServer` (`MetricsLifecycle`) | InitMetrics is recommended before InitSDK (`gamelift_server_api.go:97`) | if it has not returned when InitSDK looks for the factory, neither passes it to the server state | `metrics_lifecycle` |
| `BoundSessionIsReported` | session_id is set "when a game session starts" (`processor.go:804`) | a handler finds no factory, InitMetrics finds no session, and then the handler binds it | the same |
| `HandlersDoNotPanic` | `server_state.go:525` and `579` test the factory first | Destroy forgets it between the test and the call | the same |
| `FailureIsHarmless` | "You can only initialize metrics once" (`gamelift_server_api.go:121`) | the second of two overlapping calls fails and overwrites the factory of the first with nil; Destroy then does not stop the processor | the same |
| `DestroyForgetsFactory` | `server_state.go:450-452` | an InitSDK that fails before it has a connection leaves one that destroy does not forget | the same |

Seen on the way, without a property: `get_fleet_role_credentials.go:18` (in
`model/request`) allows a RoleArn of 2048 characters, `validation.go:194` refuses
more than `MaxStringLengthArn`, which is 256; and `StatsDTransport.Send` truncates
the value of a counter to an integer (`transport.go:177`).

## Proofs

Every state machine but the abstract `RequestReply` has a module of proofs.
The theorems are about the same definitions that the runs check, for every
value of the constants that the assumptions allow.  Each proof has the same
shape: an inductive invariant `IInv` of named parts (`SpecIInv` in
`CredentialsProofs`), a lemma for each part or for each action, and a last step
in temporal logic.  TLC has checked each `IInv` on a run of its module.

### Request correlation

`WebsocketClientProofs` proves, for any number of calls, identifiers, handlers
and any threshold, and whether or not calls share identifiers:

| Theorem | Invariant |
|---|---|
| `TypeCorrect` | `TypeOK` |
| `ChannelsStayFresh` | `RegisteredChannelIsFresh` |
| `WaitersStayReachable` | `NoOrphanedWaiter` |
| `NoLeakedEntry` | `NoEntryOutlivesItsCall` |
| `ReconnectIsExclusive` | `OneReconnectGoroutine` |

The assumptions are `ClientAssumption` (each call has an identifier, the
threshold is positive, the bounds are natural numbers) and `FrameAssumption`;
TLC evaluates them in every run of the module.

The inductive invariant is `IInv == TypeOK /\ ChannelInv /\
OneReconnectGoroutine`.  `RegisteredChannelIsFresh` alone is not inductive:
storing a channel keeps it only because the channel of a call that has not begun
is unused and stored nowhere, which is `IdleChannelIsFresh`; and removing an
entry keeps `NoOrphanedWaiter` only because the removed channel, being fresh,
can be closed.  `SendResponseEffect` says what `sendResponse` does under these
invariants (the entry goes, the channel is closed with just that outcome), and
the steps of `readHandler`, `CancelRequest` and a failed send all cite it.
`OneReconnectGoroutine` is inductive with the types.

`ClientImplementsRequestReply` is the safety part of `RequestReplySpec`: the
initial state is one of `RequestReply`, and each step is a step of it or leaves
its variables alone.  Its hypothesis `DistinctIds` (no two calls share an
identifier, as `NewMessage` draws them) is needed: with a shared identifier one
call's reply ends the other.  Beside `IInv` it rests on `AnswerInv`: an outcome in
a frame that a handler works on, or in a channel, was given to the call that owns
the identifier, and a channel is closed without one only by Close.  Of the
refinement TLC alone checks the fairness.

### Credentials and InitSDK

`CredentialsProofs` proves, for any parameters, environments, credentials of a
container, callers and roles, and any number of lives of the SDK:

| Theorem | Property |
|---|---|
| `GoodCredentialsAreNotDeleted` | `GoodEntriesAreNotDeleted` |
| `ConnectionOfOneInit` | `ConnectionIsOfOneInit` |
| `ValidatedIsSigned` | `ValidatedCanBeSigned` |
| `CredentialsTypeCorrect` | `TypeOK` |

Its assumptions are `InitializationAssumption` (parameters and environments give
each field a shape, `MaxInits` is positive) and `FleetRoleAssumption`.
`GoodEntriesAreNotDeleted` needs the types and the domain of the cache: `Lookup`
deletes what is stale in the section that looked, `Store` puts credentials of the
same role in their place.  It does not say that they are newer: they may not be
(`NewerCredentialsStay`).  The other two say nothing of the states in which `InitSDK`
runs, so neither is inductive.  Their invariant, `ProvenanceInv`, follows the
locals of `init` from one part of it to the next: what was resolved is what was
meant (`ParamsAreMeant`), a container's fetchers run without a token and leave
credentials of the container alone (`ContainerStep`), the signature finds the
names it is meant to sign and the keys that the validation asked for
(`SignStep`), and `Connect` finds a token or a signature of just these names
(`ConnectStep`).  `LifeInv` keeps the names in the global state as long as the
process is initialized, which is what a refresh relies on.  There is a lemma for
each action of `InitSDK`; every other step but a refresh keeps the invariant by
one frame lemma, `FrameKeeps`.

`TypeOK` of this module says more than types: an entry of the cache, and what a
call holds, is of the role it is stored under, and only a connected process is
ready.  It is proved on top of `ProvenanceInv`, with the variables split by who
writes them (`MainTypes`, `CallTypes`), so that the steps of one goroutine do
not have to speak of the others.

### Transport

`WebsocketTransportProofs`, for any number of writers, goroutines that connect,
reconnect or close, and connections:

| Theorem | Property |
|---|---|
| `TransportTypeCorrect` | `TypeOK` |
| `WriteMutexHolds` | `OneWriterOrConnector` |
| `MainConnectionIsOne` | `OneMainConnection` |
| `DeadConnectionsAreHandled` | `DeadConnectionIsHandled` |

`TransportAssumption` keeps the names of goroutines, connections and `Nobody`
apart, takes the bounds to be natural numbers, and has a write reconnect before
it gives up, as the numbers of `common/consts.go` do.  `OneWriterOrConnector` is inductive with the types, and
is what the rest stands on: as one goroutine at most is between its dial and its
`Publish`, `SwitchInv` can say which connection it takes for the old one, and
which open connection is not yet marked redundant for the moment between the
dial and the mark.  `DeadConnectionIsHandled` is about a reader that looks at
flags which others change; it needs that a set `reconnecting` flag belongs to
somebody who dials as long as no dial has failed (`FlagInv`; the run
`transport_stuck_flag` shows why the condition is there) and that the reader of
the current connection leaves only after it has shut the transport or while
somebody replaces it (`CurrentReaderInv`).

### Server state

`ServerStateProofs`, for any number of goroutines of the application, handlers,
heartbeats, messages and lives:

| Theorem | Property |
|---|---|
| `ServerStateTypeCorrect` | `TypeOK` |
| `ChannelClosedOnce` | `ShutdownClosedOnce`, as long as `ReadyOnce` |
| `ReadyIsReported` | `ReadyProcessIsReported`, as long as `ReadyOnce` |

`ReadyOnce` says that ProcessReady has set the ready flag at most once so far.
It is a condition on the state, and not on the constants, and every run
satisfies it until a second ProcessReady succeeds.  It cannot be dropped: with
two lives (`MaxInits = 2`) a stop of the first life that is slow may close the
channel of the second, whose process is then ready without a health check.
Under it, `StopInv` says what makes the code right: the swap of the ready flag
lets one goroutine at most go on to close the channel, whatever the check for
nil before it saw; `LoopInv` ties the health check to the channel.

### Metrics pipeline

`MetricsProcessorProofs`, for any finite number of workers
(`WorkersAssumption`), any callers and controllers, and any capacities:

| Theorem | Property |
|---|---|
| `ProcessorTypeCorrect` | `TypeOK` |
| `NoMessageVanishes` | `NothingVanishes` |
| `NoMessageTwice` | `NothingTwice` |
| `StoppedProcessorIsReusable` | `StoppedIsReusable` |
| `OneWorkerIsInOrder` | `OneWorkerKeepsOrder` |

The invariant sees the pipeline as stages: the ingress channel, the dispatcher's
hand, the queue, what a worker has not sent, and what was reported.
`AcceptedInv` is the exact balance (what left a caller is in a stage or was given
up for a reason, and nothing else is), `ApartInv` says that no message is in two
stages or twice in one, and `OrderInv` that with one worker each stage is ahead
of the next for every caller.  Each step moves a message, or a batch, from one
stage to the next, so the proof of a step is about the two it touches.
`ControlInv` and `WorkerInv` say where Stop, the dispatcher and the workers can
be with respect to each other, which is what `StoppedIsReusable` needs.  The
lemmas on `ToSet`, `OneToOne` and `Ordered` of appended, headed and concatenated
sequences come first in the module.

### Registry and tags

`MetricRegistryProofs`, for any goroutines, tag sets and number of instances:

| Theorem | Property |
|---|---|
| `RegistryTypeCorrect` | `TypeOK` |
| `ReportsAreSettled` | `ReportedTagsAreSettled` |
| `StatisticsAreApart` | `StatisticsKeepApart` |
| `SentValuesAreCounted` | `SentIsCounted` |

`RegistryAssumption` and `ValuesAssumption` give the constants their types and keep
global values apart from those of metrics.  `LockInv` (a call of SetTags holds the
lock of its metric from its first tag to its last) and `SettledInv` (who takes the
lock finds tags that the metric had while no call was changing them, unless it is a
torn variant) settle what `LogInv` and `CountedInv` say of messages and statistics.
`DerivedInv` says which instances feed the same derived metrics: those of one
builder, among them a variant only if derived metrics cannot be cloned.
`StatisticsInv` follows values through the race: what derived metrics hold, what a
HandleMessage has read of them and what an emission has taken were all recorded
with an instance that feeds just these, so that the mixing of
`StatisticsKeepApart` cannot come from goroutines that overtake each other.

`SentIsCounted` needs a second invariant, `CountingInv`.  It calls a value accounted
for once a statistic has it or a race may have wiped it.  Up to those, what a
HandleMessage has read is what its derived metrics hold, and a worker has taken all
that its Reset will wipe (`AgreeInv`); who meets another HandleMessage, or a worker
before its Reset, is accounted for (`RivalInv`); a value that was handled stays in its
derived metrics (`HeldInv`) until its worker, before it sends, has emitted what they
hold (`EmittedInv`).  TLC checked both invariants on `metric_variants` before they
were proved.

### Derived metrics

`DerivedMetricsProofs`, for any setters and workers, values, sampler and list of
derived metrics:

| Theorem | Property |
|---|---|
| `DerivedTypeCorrect` | `TypeOK` |
| `ValuesAreCountedOnce` | `CountedOnce` |
| `StatisticsAreExact` | `EmissionIsExact` |

`CountedOnce` holds while nothing overlaps (`raced`), so its proof is in two
parts: `RaceInv` says that, without a race, what a HandleMessage or an emission
has read is what it will overwrite, and that two goroutines are never between
the read and the write of one derived metric; then `CountInv` follows each value
from the call that sends it, through each derived metric, to the emission that
resets it.  `IdsInv` gives each call one goroutine.  That an emission counts
with multiplicity is arithmetic about a sequence; the lemmas on how often an
identifier occurs in it are stated by the sets of its positions, and need no
induction.

The other two say what the emissions compute.  `SummaryInv` holds with or without
races: the fields of a derived metric, what a HandleMessage has read of them and
what an emission has taken are the `Summary` of the values of just the calls noted
with them, since HandleMessage turns the summary of some values into that of one
more (`HandleMessageSummarizes`) and a call that has its message keeps it
(`CallsGrow`).  `EmitIsExact` then says what each kind emits of a summary.
`AgreeInv` is for `~raced` only: before an emission all derived metrics have been
counted alike, and what an emission takes of the ones it is done with is what the
others still hold, so that its statistics speak of the same calls.

Underneath are lemmas about sequences of any length: some permutation sorts
(`SortExists`), a percentile lies between the two values around its rank
(`PercentileFacts`), grows with its rank (`PercentilesGrow`) and has as many values
on each side as the rank says (`PercentileSplits`), and `FoldLeft(+, 0, ...)` of
one more value adds it (`FoldLeftAppend`).  The library's induction theorems take
an operator as a parameter, which none of the provers can instantiate; these
lemmas use `Induction`, which is over a set of numbers and follows from the
library's well-foundedness of `<`.  `Sorted` is written with the permutation that
the sort applies, not with `SortSeq`, of which the prover knows nothing.
`DerivedAssumption` gives the constants their types; `NilAssumption` says that a
nil pointer is none of the values.

### Metrics lifecycle

`MetricsLifecycleProofs`, for any calls of InitMetrics, handlers, lives and
sessions:

| Theorem | Property |
|---|---|
| `LifecycleTypeCorrect` | `TypeOK` |
| `OneWinnerOwnsProcessor` | `WinnerOwnsProcessor` |
| `FactoryHasProcessor` | `ProcessorFollowsFactory` |
| `SessionReachesReporter` | `SessionIsReported` |

`OwnerInv` is what the `sync.Once` gives: a call that is past it is the only one
and owns the global processor.  `AloneInv` says what may run beside an
InitMetrics as long as nothing overlapped; `LifeInv` ties the ready flag to the
life of the SDK.  `SessionInv` and `HandlerInv` cover the two orders: a handler
that sees a factory tells the reporter before it binds the session, and a session
that was bound earlier is read by the InitMetrics, or the InitSDK, that hands the
factory over.

### Only model-checked

The liveness properties and the fairness in the refinement of `RequestReply`:
their proofs need `ENABLED`, which the prover does not support.  Every safety
invariant that a run checks is a theorem.  No module declares a recursive
operator.

## Not modelled, and the plan

Not modelled, because they are sequential or pure I/O: the validation of session
calls (in `ServerState` a call passes it or not), the discovery of the containers'
network information, the hashes of the signature, dialer, data model, logging, and
the telemetry packages outside the Go program.  `Initialization` has the
application call InitSDK, ProcessReady and Destroy from one goroutine; calls of
them that overlap are in `ServerState` and `MetricsLifecycle`.

Planned, in this order:

1. `ServerState` over two lives (a stop that is slow against the next
   ProcessReady).
2. Composition of the client with the transport, so that a reconnect that
   connects nothing is seen by the calls that wait for it.
