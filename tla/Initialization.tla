---------------------------- MODULE Initialization ----------------------------
(***************************************************************************)
(* What InitSDK connects with: the parameters of the application, which    *)
(* the environment overrides, their validation, the credentials and the    *)
(* task of a container, the SigV4 signature, and the query of Connect      *)
(* (server/server_state.go, validation.go, internal/security).  All of it  *)
(* goes through the global state, which a failed InitSDK, a refresh of the *)
(* connection and the InitSDK after a Destroy find as it was left.         *)
(*                                                                         *)
(* A string is who gave it and what a check can tell of it, its shape; "": *)
(* None.  Goroutines other than the application's are FleetRoleCredentials,*)
(* which extends this module and says when its steps are taken.            *)
(***************************************************************************)
EXTENDS Naturals

CONSTANTS
    Parameters,    \* the ServerParameters that the application may pass: a shape for each field
    Environments,  \* the environments of the process: the same for its variables
    ComputeTypes,  \* GAMELIFT_COMPUTE_TYPE: "CONTAINER" or another
    Credentials,   \* what a container's provider may answer: a shape for each of AwsCredentials
    Jitters,       \* HEALTHCHECK_MAX_JITTER: "default" (unset, or no duration), "positive", "zero" or less
    MaxInits       \* bound: calls of InitSDK

Identity == {"ProcessID", "HostID", "FleetID"}
AwsCredentials == {"AccessKey", "SecretKey", "SessionToken"}
Fields == Identity \cup AwsCredentials \cup {"WebSocketURL", "AuthToken", "AwsRegion"}

(* A "slash" shape passes as a HostID alone, "invalid" fails any pattern;  *)
(* "agentless" is the ManagedResource that stands for no ProcessID.        *)
Shapes == {"empty", "plain", "slash", "invalid", "agentless"}

ASSUME InitializationAssumption ==
    /\ Parameters \subseteq [Fields -> Shapes] /\ Environments \subseteq [Fields -> Shapes]
    /\ Credentials \subseteq [AwsCredentials -> {"empty", "plain"}]
    /\ Jitters \subseteq {"default", "positive", "zero"}
    /\ MaxInits \in Nat \ {0}

Givers == {"application", "environment", "container", "service", "uuid"}
None == [by |-> "nobody", shape |-> "empty", init |-> 0]
Value(giver, shape, n) == IF shape = "empty" THEN None ELSE [by |-> giver, shape |-> shape, init |-> n]
Values == {None} \cup [by : Givers, shape : Shapes, init : 0..MaxInits]
NoParameters == [f \in Fields |-> None]
NoSignature == [signed |-> [f \in Identity |-> None], with |-> [f \in AwsCredentials |-> None], region |-> None]

VARIABLES
    environment, computeType, jitter,  \* of the process, for good
    srv,               \* srv # nil
    wsGameLift,        \* state.wsGameLift # nil
    id,                \* state.processID, hostID and fleetID
    onManagedEC2,      \* state.onManagedEC2
    isReadyProcess,    \* state.isReadyProcess
    main,              \* where the application's goroutine is in InitSDK and Destroy
    params,            \* init's params
    sigV4,             \* init's sigV4QueryParameters
    inits,             \* how much of MaxInits is used
    given,             \* history: what the last InitSDK was called with
    initialized,       \* history: InitSDK has succeeded, and Destroy not begun since
    connection,        \* history: what the last Connect that succeeded was given
    ended              \* "no", or what ended the process

settings == <<environment, computeType, jitter>>
callOfInit == <<params, sigV4, inits, given>>
serverState == <<wsGameLift, id, onManagedEC2, isReadyProcess>>
initVars == <<settings, callOfInit, serverState, srv, main, initialized, connection, ended>>

NoConnection == [token |-> None, signature |-> NoSignature, as |-> [f \in Identity |-> None]]

InitialState ==
    /\ environment \in Environments /\ computeType \in ComputeTypes /\ jitter \in Jitters
    /\ srv = FALSE /\ wsGameLift = FALSE /\ onManagedEC2 = FALSE /\ isReadyProcess = FALSE
    /\ id = [f \in Identity |-> None]
    /\ main = "app"
    /\ params = NoParameters /\ given = NoParameters /\ sigV4 = NoSignature /\ inits = 0
    /\ initialized = FALSE /\ connection = NoConnection
    /\ ended = "no"

At(where) == ended = "no" /\ main = where
(* InitSDK returns, with or without an error: its variables are gone. *)
InitReturns == srv' = TRUE /\ main' = "app" /\ params' = NoParameters /\ sigV4' = NoSignature

-----------------------------------------------------------------------------
(* InitSDK and init, up to what they validate. *)

(* An agentless process gets a ProcessID of its own with the n-th InitSDK. *)
GetEnvStringOrDefault(f, default, n) ==
    IF environment[f] = "empty" THEN default
    ELSE IF f = "ProcessID" /\ environment[f] = "agentless" THEN Value("uuid", "plain", n)
    ELSE Value("environment", environment[f], 0)

(* The environment overrides the parameters, and then AuthToken takes      *)
(* priority as the authorization strategy.                                 *)
Resolve(p, n) ==
    LET overridden == [f \in Fields |-> GetEnvStringOrDefault(f, p[f], n)]
    IN  [f \in Fields |-> IF overridden["AuthToken"] # None /\ f \in AwsCredentials \cup {"AwsRegion"}
                          THEN None ELSE overridden[f]]

InitSDK ==
    /\ At("app") /\ ~srv /\ inits < MaxInits
    /\ inits' = inits + 1
    /\ \E p \in Parameters :
          /\ given' = [f \in Fields |-> Value("application", p[f], inits')]
          /\ params' = Resolve(given', inits')
    /\ sigV4' = NoSignature
    /\ main' = "validate"
    /\ UNCHANGED <<settings, serverState, srv, initialized, connection, ended>>

(* common.ValidateString of a required field; two of them have no pattern. *)
ValidateString(f, v) ==
    \/ f \in {"WebSocketURL", "ProcessID"} /\ v # None
    \/ v.shape = "plain"
    \/ f = "HostID" /\ v.shape = "slash"

(* Mutant: AccessKey and SecretKey are not asked for. *)
PropertiesWithoutKeys(p) ==
    {"WebSocketURL", "ProcessID", "FleetID"}
        \cup (IF p["AuthToken"] # None \/ computeType # "CONTAINER" THEN {"HostID"} ELSE {})

(* The fields that must be given, by strategy and compute type. *)
PropertiesToValidate(p) ==
    {"WebSocketURL", "ProcessID", "FleetID"}
        \cup (IF p["AuthToken"] # None \/ computeType # "CONTAINER" THEN {"HostID"} ELSE {})
        \cup (IF p["AuthToken"] = None /\ computeType # "CONTAINER" THEN {"AccessKey", "SecretKey"} ELSE {})

ValidateSpecificServerParameters(p) ==
    \A f \in PropertiesToValidate(p) :
        IF f \in AwsCredentials THEN p[f] # None ELSE ValidateString(f, p[f])

ValidateServerParameters(p) ==
    /\ ~(p["AuthToken"] # None /\ p["AwsRegion"] # None)
    /\ p["AuthToken"] # None \/ p["AwsRegion"] # None
    /\ ValidateSpecificServerParameters(p)

Validate ==
    /\ At("validate")
    /\ IF ValidateServerParameters(params)
       THEN /\ id' = [f \in Identity |-> params[f]]
            /\ onManagedEC2' = TRUE
            /\ main' = IF params["AuthToken"] # None THEN "connect"
                       ELSE IF computeType = "CONTAINER" THEN "fetchCredentials" ELSE "sign"
            /\ UNCHANGED <<srv, params, sigV4>>
       ELSE InitReturns /\ UNCHANGED <<id, onManagedEC2>>
    /\ UNCHANGED <<settings, inits, given, wsGameLift, isReadyProcess, initialized, connection, ended>>

-----------------------------------------------------------------------------
(* The container's credentials and task, the signature, and Connect. *)

(* The provider is asked: no address, no answer, a bad status or no JSON   *)
(* end the process (log.Fatalf); what JSON leaves out is empty.            *)
FetchCredentials ==
    /\ At("fetchCredentials")
    /\ \/ /\ \E c \in Credentials :
                params' = [f \in Fields |-> IF f \in AwsCredentials THEN Value("container", c[f], 0) ELSE params[f]]
          /\ main' = "fetchMetadata" /\ UNCHANGED ended
       \/ ended' = "no credentials" /\ UNCHANGED <<params, main>>
    /\ UNCHANGED <<settings, sigV4, inits, given, serverState, srv, initialized, connection>>

(* The last part of the task's ARN is the host; without one the process ends. *)
FetchMetadata ==
    /\ At("fetchMetadata")
    /\ \/ /\ id' = [id EXCEPT !["HostID"] = Value("container", "plain", 0)]
          /\ main' = "sign" /\ UNCHANGED ended
       \/ ended' = "no metadata" /\ UNCHANGED <<id, main>>
    /\ UNCHANGED <<settings, callOfInit, wsGameLift, onManagedEC2, isReadyProcess, srv, initialized, connection>>

(* validateParameters of sigv4_utility.go; a failure ends the process. *)
CanBeSigned == params["AwsRegion"] # None /\ params["AccessKey"] # None /\ params["SecretKey"] # None

(* Mutant: the host is signed as it was before the metadata of the task. *)
SignGivenIdentity ==
    /\ At("sign")
    /\ IF CanBeSigned
       THEN /\ sigV4' = [signed |-> [f \in Identity |-> params[f]], region |-> params["AwsRegion"],
                         with |-> [f \in AwsCredentials |-> params[f]]]
            /\ main' = "connect" /\ UNCHANGED ended
       ELSE ended' = "not signed" /\ UNCHANGED <<sigV4, main>>
    /\ UNCHANGED <<settings, params, inits, given, serverState, srv, initialized, connection>>

(* getSigV4QueryParameters signs what is in the global state. *)
Sign ==
    /\ At("sign")
    /\ IF CanBeSigned
       THEN /\ sigV4' = [signed |-> id, region |-> params["AwsRegion"],
                         with |-> [f \in AwsCredentials |-> params[f]]]
            /\ main' = "connect" /\ UNCHANGED ended
       ELSE ended' = "not signed" /\ UNCHANGED <<sigV4, main>>
    /\ UNCHANGED <<settings, params, inits, given, serverState, srv, initialized, connection>>

(* The query of gameLiftManager.Connect: a token, or else the signature. *)
Query(token, signature) ==
    [token |-> token, as |-> id, signature |-> IF token # None THEN NoSignature ELSE signature]

StartConnect ==
    /\ At("connect")
    /\ wsGameLift' = TRUE
    /\ main' = "connecting"
    /\ UNCHANGED <<settings, callOfInit, id, onManagedEC2, isReadyProcess, srv, initialized, connection, ended>>

(* It fails for an address that is none, as for many other reasons. *)
ConnectReturns ==
    /\ At("connecting")
    /\ \/ /\ params["WebSocketURL"].shape # "invalid"
          /\ connection' = Query(params["AuthToken"], sigV4)
          /\ initialized' = TRUE
       \/ UNCHANGED <<connection, initialized>>
    /\ InitReturns
    /\ UNCHANGED <<settings, inits, given, serverState, ended>>

(* OnRefreshConnection, in a goroutine of a message, perhaps a slow one:   *)
(* the same identity, and the token of the message.                        *)
RefreshConnection ==
    /\ ended = "no" /\ connection # NoConnection /\ wsGameLift
    /\ connection' = Query(Value("service", "plain", 0), NoSignature)
    /\ UNCHANGED <<settings, callOfInit, serverState, srv, main, initialized, ended>>

-----------------------------------------------------------------------------
(* The rest of the life, whose details are those of ServerState. *)

(* startHealthCheck asks for a random number below the jitter at once. *)
ProcessReady ==
    /\ At("app") /\ initialized /\ ~isReadyProcess
    /\ IF jitter = "zero"
       THEN ended' = "Int63n" /\ UNCHANGED isReadyProcess
       ELSE isReadyProcess' = TRUE /\ UNCHANGED ended
    /\ UNCHANGED <<settings, callOfInit, wsGameLift, id, onManagedEC2, srv, main, initialized, connection>>

(* Mutant: the process stays ready. *)
DestroyStaysReady ==
    /\ At("app") /\ srv
    /\ wsGameLift' = FALSE
    /\ initialized' = FALSE
    /\ \/ main' = "teardown"
       \/ wsGameLift /\ UNCHANGED main
    /\ UNCHANGED <<settings, callOfInit, id, onManagedEC2, isReadyProcess, srv, connection, ended>>

(* An error of Disconnect ends Destroy, with the manager forgotten. *)
Destroy ==
    /\ At("app") /\ srv
    /\ isReadyProcess' = FALSE /\ wsGameLift' = FALSE
    /\ initialized' = FALSE
    /\ \/ main' = "teardown"
       \/ wsGameLift /\ UNCHANGED main
    /\ UNCHANGED <<settings, callOfInit, id, onManagedEC2, srv, connection, ended>>

Teardown ==
    /\ At("teardown")
    /\ srv' = FALSE /\ main' = "app"
    /\ UNCHANGED <<settings, callOfInit, serverState, initialized, connection, ended>>

-----------------------------------------------------------------------------
(* Properties. *)

(* The type invariant: among it, that only an initialized process with a   *)
(* manager is ready, and that nothing is initialized while InitSDK runs.   *)
InitTypeOK ==
    /\ {srv, wsGameLift, onManagedEC2, isReadyProcess, initialized} \subseteq BOOLEAN
    /\ environment \in Environments /\ computeType \in ComputeTypes /\ jitter \in Jitters
    /\ main \in {"app", "validate", "fetchCredentials", "fetchMetadata", "sign", "connect", "connecting", "teardown"}
    /\ \A f \in Fields : params[f] \in Values /\ given[f] \in Values
    /\ \A f \in Identity : id[f] \in Values
    /\ inits \in 0..MaxInits
    /\ isReadyProcess => wsGameLift /\ initialized
    /\ initialized => srv /\ main = "app"

(* What the last InitSDK asked for, by the precedence that the code's      *)
(* comments state: the environment first, and the task of a container that *)
(* has no token.                                                           *)
Meant(f) ==
    IF f = "HostID" /\ computeType = "CONTAINER" /\ GetEnvStringOrDefault("AuthToken", given["AuthToken"], inits) = None
    THEN Value("container", "plain", 0)
    ELSE GetEnvStringOrDefault(f, given[f], inits)

(* A connection is of one InitSDK, whatever calls failed or were undone    *)
(* before it, and whether InitSDK or a refresh made it: its query names    *)
(* the process, host and fleet that this call meant, and carries one       *)
(* authorization, either a token or a signature of just these names with   *)
(* credentials that were not put together of two sources' in a container.  *)
ConnectionIsOfOneInit ==
    initialized =>
        /\ \A f \in Identity : connection.as[f] = Meant(f)
        /\ connection.token # None <=> connection.signature = NoSignature
        /\ connection.token.by # "service" => connection.token = Meant("AuthToken")
        /\ connection.signature # NoSignature =>
              /\ connection.signature.signed = connection.as
              /\ connection.signature.region = Meant("AwsRegion")
              /\ computeType = "CONTAINER" =>
                    \A f \in AwsCredentials : connection.signature.with[f] \in {None, Value("container", "plain", 0)}

(* The validation of the parameters and that of the signature agree: what  *)
(* the first accepts the second does not refuse, which would end the       *)
(* process; only what a container was given may turn out to be incomplete. *)
ValidatedCanBeSigned ==
    ended = "not signed" =>
        /\ computeType = "CONTAINER"
        /\ \E f \in {"AccessKey", "SecretKey"} : params[f] = None

-----------------------------------------------------------------------------
(* What the code does not keep. *)

(* The process of a game server is not ended by a setting that the         *)
(* comment of GetEnvDurationOrDefault allows, such as "-1.5h".             *)
SettingsAreHarmless == ended # "Int63n"

(* Metrics name the process as the service knows it: setDefaultGlobalTags  *)
(* (processor.go:796) takes the variable as it is.                         *)
MetricsNameTheProcess ==
    initialized /\ environment["ProcessID"] # "empty" =>
        connection.as["ProcessID"] = Value("environment", environment["ProcessID"], 0)

(* Credentials of AWS are of one source: the environment overrides one of  *)
(* the two keys as it overrides any parameter.                             *)
KeysAreOfOneSource ==
    initialized /\ connection.signature # NoSignature =>
        connection.signature.with["AccessKey"].by = connection.signature.with["SecretKey"].by
=============================================================================
