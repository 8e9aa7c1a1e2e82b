--------------------------- MODULE CredentialsProofs ---------------------------
(***************************************************************************)
(* Theorems about FleetRoleCredentials and the InitSDK it extends, for any *)
(* parameters, environments, credentials of containers, callers and roles, *)
(* and for any number of lives of the SDK.                                 *)
(***************************************************************************)
EXTENDS FleetRoleCredentials, TLAPS

(* The type of what the other parts apply to an argument. *)
Typed ==
    /\ environment \in [Fields -> Shapes]
    /\ params \in [Fields -> Values] /\ given \in [Fields -> Values]
    /\ id \in [Identity -> Values]
    /\ inits \in 0..MaxInits

(* What init has resolved, as long as it runs. *)
ParamsAreMeant ==
    main \notin {"app", "teardown"} =>
        /\ \A f \in Identity : params[f] = GetEnvStringOrDefault(f, given[f], inits)
        /\ params["AuthToken"] = Meant("AuthToken")
        /\ params["AuthToken"] = None => params["AwsRegion"] = Meant("AwsRegion")

IdIsMeant == \A f \in Identity : id[f] = Meant(f)

OfContainer(f, v) == v \in {None, Value("container", "plain", 0)}

(* Where a container's credentials come from. *)
ContainerStep ==
    /\ main \in {"fetchCredentials", "fetchMetadata"} =>
          /\ computeType = "CONTAINER"
          /\ params["AuthToken"] = None /\ params["AwsRegion"] # None
          /\ \A f \in Identity : id[f] = params[f]
    /\ main \in {"fetchMetadata", "sign"} /\ computeType = "CONTAINER" =>
          \A f \in AwsCredentials : OfContainer(f, params[f])

(* What the signature finds. *)
SignStep ==
    main = "sign" =>
        /\ params["AuthToken"] = None /\ params["AwsRegion"] # None
        /\ IdIsMeant
        /\ computeType # "CONTAINER" => params["AccessKey"] # None /\ params["SecretKey"] # None

(* What Connect finds: a token, or a signature of these names. *)
ConnectStep ==
    main \in {"connect", "connecting"} =>
        /\ IdIsMeant
        /\ params["AuthToken"] = None =>
              /\ sigV4 # NoSignature
              /\ sigV4.signed = id /\ sigV4.region = Meant("AwsRegion")
              /\ computeType = "CONTAINER" => \A f \in AwsCredentials : OfContainer(f, sigV4.with[f])

(* A refresh relies on the names that the InitSDK before it left. *)
LifeInv ==
    /\ initialized => srv /\ main = "app" /\ IdIsMeant
    /\ isReadyProcess => initialized

ProvenanceInv ==
    /\ ParamsAreMeant /\ ContainerStep /\ SignStep /\ ConnectStep /\ LifeInv
    /\ ConnectionIsOfOneInit /\ ValidatedCanBeSigned

IInv == Typed /\ ProvenanceInv /\ DOMAIN cache = Roles
-----------------------------------------------------------------------------
(* The cache. *)

LEMMA NextCacheDomain ==
    ASSUME DOMAIN cache = Roles, [Next]_vars
    PROVE  DOMAIN cache' = Roles
  <1> USE DEF vars, callVars
  <1>1. CASE MainStep BY <1>1 DEF MainStep, InitMakesCache
  <1>2. CASE Tick BY <1>2 DEF Tick
  <1>3. ASSUME NEW c \in Callers, CallStep(c) PROVE DOMAIN cache' = Roles
    BY <1>3 DEF CallStep, GetFleetRoleCredentials, Lookup, Check, Send, Receive, Store
  <1>4. CASE UNCHANGED vars BY <1>4
  <1> QED BY <1>1, <1>2, <1>3, <1>4 DEF Next

-----------------------------------------------------------------------------
(* What is given, and what becomes of it. *)

LEMMA ValueTypes ==
    /\ None \in Values
    /\ \A giver \in Givers, shape \in Shapes, n \in 0..MaxInits : Value(giver, shape, n) \in Values
  BY DEF Values, None, Value

LEMMA GetEnvTypes ==
    ASSUME environment \in [Fields -> Shapes],
           NEW f \in Fields, NEW v \in Values, NEW n \in 0..MaxInits
    PROVE  GetEnvStringOrDefault(f, v, n) \in Values
  <1>1. {"environment", "uuid"} \subseteq Givers BY DEF Givers
  <1>2. "plain" \in Shapes /\ environment[f] \in Shapes BY DEF Shapes
  <1>3. 0 \in 0..MaxInits BY InitializationAssumption DEF InitializationAssumption
  <1> QED BY <1>1, <1>2, <1>3, ValueTypes DEF GetEnvStringOrDefault

LEMMA SomeFields ==
    /\ Identity \subseteq Fields /\ AwsCredentials \subseteq Fields
    /\ {"AuthToken", "AwsRegion"} \subseteq Fields
    /\ "HostID" \in Identity /\ "HostID" \notin {"AuthToken", "AwsRegion"}
    /\ Identity \cap AwsCredentials = {}
    /\ {"AuthToken", "AwsRegion"} \cap (Identity \cup AwsCredentials) = {}
    /\ {"AccessKey", "SecretKey"} \subseteq AwsCredentials
  BY DEF Fields, Identity, AwsCredentials

(* What init resolves is what is meant, but for the credentials and the region *)
(* that a token leaves without use, and for the host of a container.           *)
LEMMA ResolveIsMeant ==
    ASSUME environment \in [Fields -> Shapes],
           NEW p \in [Fields -> Values], NEW n \in 0..MaxInits
    PROVE  LET q == Resolve(p, n)
               env(f) == GetEnvStringOrDefault(f, p[f], n)
           IN  /\ q \in [Fields -> Values]
               /\ \A f \in Identity \cup {"AuthToken"} : q[f] = env(f)
               /\ q["AuthToken"] = None => q["AwsRegion"] = env("AwsRegion")
  <1>1. \A f \in Fields : GetEnvStringOrDefault(f, p[f], n) \in Values BY GetEnvTypes
  <1> QED BY <1>1, SomeFields, ValueTypes DEF Resolve

LEMMA InitIInv == Init => IInv
  <1> SUFFICES ASSUME Init PROVE IInv
    OBVIOUS
  <1> USE DEF Init, InitialState
  <1>1. Typed
    <2>1. environment \in [Fields -> Shapes] BY InitializationAssumption DEF InitializationAssumption
    <2>2. inits \in 0..MaxInits BY InitializationAssumption DEF InitializationAssumption
    <2> QED BY <2>1, <2>2, ValueTypes DEF Typed, NoParameters
  <1>2. ParamsAreMeant /\ ContainerStep /\ SignStep /\ ConnectStep /\ LifeInv
    BY DEF ParamsAreMeant, ContainerStep, SignStep, ConnectStep, LifeInv
  <1>3. ConnectionIsOfOneInit /\ ValidatedCanBeSigned
    BY DEF ConnectionIsOfOneInit, ValidatedCanBeSigned
  <1> QED BY <1>1, <1>2, <1>3 DEF IInv, ProvenanceInv

-----------------------------------------------------------------------------
(* The steps of InitSDK. *)

(* What is meant changes with a call of InitSDK only. *)
LEMMA MeantStays ==
    ASSUME UNCHANGED <<settings, inits, given>>, NEW f
    PROVE  Meant(f)' = Meant(f)
  BY DEF Meant, GetEnvStringOrDefault, settings

LEMMA InitSDKKeeps == IInv /\ InitSDK => Typed' /\ ProvenanceInv'
  <1> SUFFICES ASSUME IInv, InitSDK PROVE Typed' /\ ProvenanceInv'
    OBVIOUS
  <1> USE DEF At, settings, serverState
  <1>1. PICK p \in Parameters :
          /\ given' = [f \in Fields |-> Value("application", p[f], inits')]
          /\ params' = Resolve(given', inits')
    BY DEF InitSDK
  <1>2. inits' \in 0..MaxInits /\ inits' = inits + 1
    BY InitializationAssumption DEF InitSDK, IInv, Typed, InitializationAssumption
  <1>3. given' \in [Fields -> Values]
    <2>1. p \in [Fields -> Shapes] BY InitializationAssumption DEF InitializationAssumption
    <2>2. "application" \in Givers BY DEF Givers
    <2> QED BY <1>1, <1>2, <2>1, <2>2, ValueTypes
  <1>4. environment' = environment /\ environment \in [Fields -> Shapes]
    BY DEF InitSDK, IInv, Typed
  <1>5. /\ params' \in [Fields -> Values]
        /\ \A f \in Identity \cup {"AuthToken"} : params'[f] = GetEnvStringOrDefault(f, given'[f], inits')
        /\ params'["AuthToken"] = None =>
              params'["AwsRegion"] = GetEnvStringOrDefault("AwsRegion", given'["AwsRegion"], inits')
    BY <1>1, <1>2, <1>3, <1>4, ResolveIsMeant
  <1>6. main' = "validate" /\ ~initialized' /\ ~isReadyProcess' /\ ended' = "no"
    BY DEF InitSDK, IInv, ProvenanceInv, LifeInv
  <1>7. Typed' BY <1>2, <1>3, <1>4, <1>5 DEF Typed, InitSDK, IInv
  <1>8. ParamsAreMeant'
    BY <1>4, <1>5, SomeFields DEF ParamsAreMeant, Meant, GetEnvStringOrDefault
  <1> QED BY <1>6, <1>7, <1>8
    DEF ProvenanceInv, ContainerStep, SignStep, ConnectStep, LifeInv, ConnectionIsOfOneInit, ValidatedCanBeSigned

LEMMA ValidateKeeps == IInv /\ Validate => Typed' /\ ProvenanceInv'
  <1> SUFFICES ASSUME IInv, Validate PROVE Typed' /\ ProvenanceInv'
    OBVIOUS
  <1> USE DEF At, settings, IInv, ProvenanceInv
  <1>1. /\ UNCHANGED <<settings, inits, given, wsGameLift, isReadyProcess, initialized, connection, ended>>
        /\ main = "validate" /\ ended = "no" /\ ~initialized /\ ~isReadyProcess
    BY DEF Validate, LifeInv
  <1>2. CASE ValidateServerParameters(params)
    <2>1. /\ id' = [f \in Identity |-> params[f]] /\ params' = params /\ sigV4' = sigV4
          /\ main' = IF params["AuthToken"] # None THEN "connect"
                     ELSE IF computeType = "CONTAINER" THEN "fetchCredentials" ELSE "sign"
      BY <1>2 DEF Validate
    <2>2. Typed' BY <1>1, <2>1, SomeFields DEF Typed
    <2>3. /\ params["AuthToken"] = None => params["AwsRegion"] # None
          /\ params["AuthToken"] = None /\ computeType # "CONTAINER" =>
                params["AccessKey"] # None /\ params["SecretKey"] # None
      BY <1>2 DEF ValidateServerParameters, ValidateSpecificServerParameters, PropertiesToValidate, AwsCredentials
    <2>4. ParamsAreMeant' BY <1>1, <2>1, MeantStays DEF ParamsAreMeant, GetEnvStringOrDefault
    <2>5. main' # "fetchCredentials" => IdIsMeant'
      BY <1>1, <2>1, MeantStays DEF ParamsAreMeant, IdIsMeant, Meant
    <2> QED BY <1>1, <2>1, <2>2, <2>3, <2>4, <2>5
      DEF ContainerStep, SignStep, ConnectStep, LifeInv, ConnectionIsOfOneInit, ValidatedCanBeSigned
  <1>3. CASE ~ValidateServerParameters(params)
    <2>1. InitReturns /\ id' = id BY <1>3 DEF Validate
    <2>2. Typed' BY <1>1, <2>1, ValueTypes DEF Typed, InitReturns, NoParameters
    <2> QED BY <1>1, <2>1, <2>2
      DEF InitReturns, ParamsAreMeant, ContainerStep, SignStep, ConnectStep, LifeInv, ConnectionIsOfOneInit,
          ValidatedCanBeSigned
  <1> QED BY <1>2, <1>3

LEMMA FetchCredentialsKeeps == IInv /\ FetchCredentials => Typed' /\ ProvenanceInv'
  <1> SUFFICES ASSUME IInv, FetchCredentials PROVE Typed' /\ ProvenanceInv'
    OBVIOUS
  <1> USE DEF At, settings, serverState, IInv, ProvenanceInv
  <1>1. /\ UNCHANGED <<settings, sigV4, inits, given, serverState, srv, initialized, connection>>
        /\ main = "fetchCredentials" /\ ended = "no" /\ ~initialized /\ ~isReadyProcess
    BY DEF FetchCredentials, LifeInv
  <1>2. CASE UNCHANGED <<params, main>> /\ ended' = "no credentials"
    <2>1. Typed' BY <1>1, <1>2 DEF Typed
    <2>2. ParamsAreMeant' /\ ContainerStep'
      BY <1>1, <1>2, MeantStays DEF ParamsAreMeant, ContainerStep, GetEnvStringOrDefault, OfContainer
    <2> QED BY <1>1, <1>2, <2>1, <2>2
      DEF SignStep, ConnectStep, LifeInv, ConnectionIsOfOneInit, ValidatedCanBeSigned
  <1>3. ASSUME NEW c \in Credentials,
               params' = [f \in Fields |-> IF f \in AwsCredentials THEN Value("container", c[f], 0) ELSE params[f]],
               main' = "fetchMetadata", UNCHANGED ended
        PROVE  Typed' /\ ProvenanceInv'
    <2>1. \A f \in AwsCredentials : OfContainer(f, params'[f]) /\ params'[f] \in Values
      <3>1. c \in [AwsCredentials -> {"empty", "plain"}]
        BY InitializationAssumption DEF InitializationAssumption
      <3>2. \A f \in AwsCredentials : OfContainer(f, params'[f])
        BY <1>3, <3>1, SomeFields DEF OfContainer, Value
      <3>3. "container" \in Givers /\ "plain" \in Shapes /\ 0 \in 0..MaxInits
        BY InitializationAssumption DEF InitializationAssumption, Givers, Shapes
      <3> QED BY <3>2, <3>3, ValueTypes DEF OfContainer
    <2>2. \A f \in Fields \ AwsCredentials : params'[f] = params[f] BY <1>3
    <2>3. Typed'
      <3>1. \A f \in Fields : params'[f] \in Values BY <2>1, <2>2 DEF Typed
      <3> QED BY <1>1, <1>3, <3>1 DEF Typed
    <2>4. ParamsAreMeant' /\ ContainerStep'
      BY <1>1, <1>3, <2>1, <2>2, SomeFields, MeantStays
      DEF ParamsAreMeant, ContainerStep, GetEnvStringOrDefault, OfContainer, Value, None
    <2> QED BY <1>1, <1>3, <2>3, <2>4
      DEF SignStep, ConnectStep, LifeInv, ConnectionIsOfOneInit, ValidatedCanBeSigned
  <1> QED BY <1>2, <1>3 DEF FetchCredentials

LEMMA FetchMetadataKeeps == IInv /\ FetchMetadata => Typed' /\ ProvenanceInv'
  <1> SUFFICES ASSUME IInv, FetchMetadata PROVE Typed' /\ ProvenanceInv'
    OBVIOUS
  <1> USE DEF At, settings, callOfInit, IInv, ProvenanceInv
  <1>1. /\ UNCHANGED <<settings, params, sigV4, inits, given, wsGameLift, isReadyProcess, srv, initialized, connection>>
        /\ main = "fetchMetadata" /\ ended = "no" /\ ~initialized /\ ~isReadyProcess
    BY DEF FetchMetadata, LifeInv
  <1>2. ParamsAreMeant' /\ (main' \in {"fetchMetadata", "sign"} => ContainerStep')
    BY <1>1, MeantStays DEF FetchMetadata, ParamsAreMeant, GetEnvStringOrDefault, ContainerStep, OfContainer
  <1>3. CASE UNCHANGED <<id, main>> /\ ended' = "no metadata"
    BY <1>1, <1>2, <1>3
    DEF Typed, SignStep, ConnectStep, LifeInv, ConnectionIsOfOneInit, ValidatedCanBeSigned
  <1>4. CASE /\ id' = [id EXCEPT !["HostID"] = Value("container", "plain", 0)]
             /\ main' = "sign" /\ UNCHANGED ended
    <2>1. Value("container", "plain", 0) \in Values
      BY ValueTypes, InitializationAssumption DEF InitializationAssumption, Givers, Shapes
    <2>2. Typed' BY <1>1, <1>4, <2>1 DEF Typed
    <2>3. params["AuthToken"] = None /\ computeType = "CONTAINER" /\ params["AwsRegion"] # None
      BY <1>1 DEF ContainerStep
    <2>4. IdIsMeant'
      <3>1. GetEnvStringOrDefault("AuthToken", given["AuthToken"], inits) = None
        BY <1>1, <2>3, SomeFields DEF ParamsAreMeant, Meant
      <3>2. ASSUME NEW f \in Identity PROVE id'[f] = Meant(f)
        BY <1>1, <1>4, <2>3, <3>1 DEF ParamsAreMeant, ContainerStep, Meant, Typed
      <3> QED BY <1>1, <3>2, MeantStays DEF IdIsMeant
    <2> QED BY <1>1, <1>2, <1>4, <2>2, <2>3, <2>4
      DEF SignStep, ConnectStep, LifeInv, ConnectionIsOfOneInit, ValidatedCanBeSigned
  <1> QED BY <1>3, <1>4 DEF FetchMetadata

LEMMA SignKeeps == IInv /\ Sign => Typed' /\ ProvenanceInv'
  <1> SUFFICES ASSUME IInv, Sign PROVE Typed' /\ ProvenanceInv'
    OBVIOUS
  <1> USE DEF At, settings, serverState, IInv, ProvenanceInv
  <1>1. /\ UNCHANGED <<settings, params, inits, given, serverState, srv, initialized, connection>>
        /\ main = "sign" /\ ended = "no" /\ ~initialized /\ ~isReadyProcess
        /\ params["AuthToken"] = None /\ params["AwsRegion"] # None /\ IdIsMeant
    BY DEF Sign, LifeInv, SignStep
  <1>2. Typed' BY <1>1 DEF Typed
  <1>3. ParamsAreMeant /\ main' \notin {"app", "teardown"} => ParamsAreMeant'
    BY <1>1, MeantStays DEF ParamsAreMeant, GetEnvStringOrDefault
  <1>4. IdIsMeant' BY <1>1, MeantStays DEF IdIsMeant
  <1>5. CASE CanBeSigned
    <2>1. /\ main' = "connect" /\ ended' = ended
          /\ sigV4' = [signed |-> id, region |-> params["AwsRegion"], with |-> [f \in AwsCredentials |-> params[f]]]
      BY <1>5 DEF Sign
    <2>2. params["AwsRegion"] = Meant("AwsRegion") BY <1>1 DEF ParamsAreMeant
    <2>3. sigV4'.region # None /\ NoSignature.region = None BY <1>1, <2>1 DEF NoSignature
    <2>4. Meant("AwsRegion")' = Meant("AwsRegion") BY <1>1, MeantStays
    <2>5. computeType = "CONTAINER" => \A f \in AwsCredentials : OfContainer(f, sigV4'.with[f])
      BY <1>1, <2>1 DEF ContainerStep
    <2>6. ConnectStep'
      BY <1>1, <1>4, <2>1, <2>2, <2>3, <2>4, <2>5 DEF ConnectStep, OfContainer
    <2> QED BY <1>1, <1>2, <1>3, <1>4, <2>1, <2>6
      DEF ContainerStep, SignStep, LifeInv, ConnectionIsOfOneInit, ValidatedCanBeSigned
  <1>6. CASE ~CanBeSigned
    <2>1. ended' = "not signed" /\ UNCHANGED <<sigV4, main>> BY <1>6 DEF Sign
    <2>2. ValidatedCanBeSigned' BY <1>1, <1>6, <2>1 DEF ValidatedCanBeSigned, CanBeSigned, SignStep
    <2>3. ContainerStep' BY <1>1, <2>1 DEF ContainerStep, OfContainer
    <2> QED BY <1>1, <1>2, <1>3, <1>4, <2>1, <2>2, <2>3
      DEF SignStep, ConnectStep, LifeInv, ConnectionIsOfOneInit
  <1> QED BY <1>5, <1>6

LEMMA StartConnectKeeps == IInv /\ StartConnect => Typed' /\ ProvenanceInv'
  <1> SUFFICES ASSUME IInv, StartConnect PROVE Typed' /\ ProvenanceInv'
    OBVIOUS
  <1> USE DEF At, settings, callOfInit, IInv, ProvenanceInv
  <1>1. /\ UNCHANGED <<settings, params, sigV4, inits, given, id, isReadyProcess, initialized, connection>>
        /\ main = "connect" /\ main' = "connecting" /\ ended = "no" /\ ended' = ended
        /\ ~initialized /\ ~isReadyProcess
    BY DEF StartConnect, LifeInv
  <1>2. Typed' BY <1>1 DEF Typed
  <1>3. ParamsAreMeant' BY <1>1, MeantStays DEF ParamsAreMeant, GetEnvStringOrDefault
  <1>4. ConnectStep' BY <1>1, MeantStays DEF ConnectStep, IdIsMeant, OfContainer
  <1> QED BY <1>1, <1>2, <1>3, <1>4
    DEF ContainerStep, SignStep, LifeInv, ConnectionIsOfOneInit, ValidatedCanBeSigned

LEMMA ConnectReturnsKeeps == IInv /\ ConnectReturns => Typed' /\ ProvenanceInv'
  <1> SUFFICES ASSUME IInv, ConnectReturns PROVE Typed' /\ ProvenanceInv'
    OBVIOUS
  <1> USE DEF At, settings, serverState, InitReturns, IInv, ProvenanceInv
  <1>1. /\ UNCHANGED <<settings, inits, given, serverState, ended>>
        /\ main = "connecting" /\ main' = "app" /\ srv' /\ params' = NoParameters
        /\ ended = "no" /\ ~initialized /\ ~isReadyProcess
    BY DEF ConnectReturns, LifeInv
  <1>2. Typed' BY <1>1, ValueTypes DEF Typed, NoParameters
  <1>3. IdIsMeant /\ IdIsMeant' BY <1>1, MeantStays DEF ConnectStep, IdIsMeant
  <1>4. ParamsAreMeant' /\ ContainerStep' /\ SignStep' /\ ConnectStep' /\ LifeInv' /\ ValidatedCanBeSigned'
    BY <1>1, <1>3 DEF ParamsAreMeant, ContainerStep, SignStep, ConnectStep, LifeInv, ValidatedCanBeSigned
  <1>5. CASE connection' = Query(params["AuthToken"], sigV4)
    <2>1. /\ connection'.token = params["AuthToken"] /\ connection'.as = id
          /\ connection'.signature = IF params["AuthToken"] # None THEN NoSignature ELSE sigV4
      BY <1>5 DEF Query
    <2>2. \A f \in Identity : connection'.as[f] = Meant(f)' BY <1>1, <1>3, <2>1 DEF IdIsMeant
    <2>3. connection'.token = Meant("AuthToken")'
      BY <1>1, <2>1, MeantStays DEF ParamsAreMeant
    <2>4. params["AuthToken"] = None =>
            /\ sigV4 # NoSignature /\ sigV4.signed = id /\ sigV4.region = Meant("AwsRegion")'
            /\ computeType' = "CONTAINER" => \A f \in AwsCredentials : OfContainer(f, sigV4.with[f])
      BY <1>1, MeantStays DEF ConnectStep
    <2>5. ConnectionIsOfOneInit'
      BY <2>1, <2>2, <2>3, <2>4 DEF ConnectionIsOfOneInit, OfContainer
    <2> QED BY <1>2, <1>4, <2>5
  <1>6. CASE UNCHANGED <<connection, initialized>>
    BY <1>1, <1>2, <1>4, <1>6 DEF ConnectionIsOfOneInit
  <1> QED BY <1>5, <1>6 DEF ConnectReturns

-----------------------------------------------------------------------------
(* The other steps. *)

LEMMA RefreshConnectionKeeps == IInv /\ RefreshConnection => Typed' /\ ProvenanceInv'
  <1> SUFFICES ASSUME IInv, RefreshConnection PROVE Typed' /\ ProvenanceInv'
    OBVIOUS
  <1> USE DEF settings, callOfInit, serverState, IInv, ProvenanceInv
  <1>1. UNCHANGED <<settings, params, sigV4, inits, given, wsGameLift, id, isReadyProcess, srv, main, initialized, ended>>
    BY DEF RefreshConnection
  <1>2. Typed' BY <1>1 DEF Typed
  <1>3. ParamsAreMeant' BY <1>1, MeantStays DEF ParamsAreMeant, GetEnvStringOrDefault
  <1>4. IdIsMeant' <=> IdIsMeant BY <1>1, MeantStays DEF IdIsMeant
  <1>5. ContainerStep' /\ SignStep' /\ ConnectStep' /\ LifeInv' /\ ValidatedCanBeSigned'
    BY <1>1, <1>4, MeantStays
    DEF ContainerStep, SignStep, ConnectStep, LifeInv, ValidatedCanBeSigned, OfContainer
  <1>6. ConnectionIsOfOneInit'
    <2>1. /\ connection'.token = Value("service", "plain", 0) /\ connection'.as = id
          /\ connection'.signature = NoSignature
      BY DEF RefreshConnection, Query
    <2>2. Value("service", "plain", 0) # None /\ Value("service", "plain", 0).by = "service"
      BY DEF Value, None
    <2>3. initialized' => \A f \in Identity : connection'.as[f] = Meant(f)'
      BY <1>1, <1>4, <2>1 DEF LifeInv, IdIsMeant
    <2> QED BY <2>1, <2>2, <2>3 DEF ConnectionIsOfOneInit
  <1> QED BY <1>2, <1>3, <1>5, <1>6

(* A step that changes nothing of the call of InitSDK, and of the life no  *)
(* more than the ready flag, the manager or its end.                       *)
LEMMA FrameKeeps ==
    ASSUME IInv,
           UNCHANGED <<settings, params, sigV4, inits, given, id>>,
           initialized' => initialized /\ UNCHANGED <<srv, connection>>,
           main' = main \/ (main' \in {"app", "teardown"} /\ (initialized' => main' = "app")),
           isReadyProcess' => initialized',
           ended' = ended \/ ended' # "not signed"
    PROVE  Typed' /\ ProvenanceInv'
  <1> USE DEF settings, IInv, ProvenanceInv
  <1>1. Typed' BY DEF Typed
  <1>2. ParamsAreMeant' BY MeantStays DEF ParamsAreMeant, GetEnvStringOrDefault
  <1>3. IdIsMeant' <=> IdIsMeant BY MeantStays DEF IdIsMeant
  <1>4. ContainerStep' /\ SignStep' /\ ConnectStep'
    BY <1>3, MeantStays DEF ContainerStep, SignStep, ConnectStep, OfContainer
  <1>5. LifeInv' BY <1>3 DEF LifeInv
  <1>6. ConnectionIsOfOneInit' BY MeantStays DEF ConnectionIsOfOneInit
  <1>7. ValidatedCanBeSigned' BY DEF ValidatedCanBeSigned
  <1> QED BY <1>1, <1>2, <1>4, <1>5, <1>6, <1>7

LEMMA LifeStepKeeps == IInv /\ (ProcessReady \/ Destroy \/ Teardown) => Typed' /\ ProvenanceInv'
  <1> SUFFICES ASSUME IInv PROVE ProcessReady \/ Destroy \/ Teardown => Typed' /\ ProvenanceInv'
    OBVIOUS
  <1> USE DEF At, callOfInit, serverState, IInv, ProvenanceInv, LifeInv
  <1>1. CASE ProcessReady BY <1>1, FrameKeeps DEF ProcessReady
  <1>2. CASE Destroy BY <1>2, FrameKeeps DEF Destroy
  <1>3. CASE Teardown BY <1>3, FrameKeeps DEF Teardown
  <1> QED BY <1>1, <1>2, <1>3

LEMMA CallStepKeeps ==
    ASSUME IInv, NEW c \in Callers, CallStep(c)
    PROVE  Typed' /\ ProvenanceInv'
  <1> USE DEF CallerAt, initVars, settings, callOfInit, serverState
  <1>1. UNCHANGED <<settings, params, sigV4, inits, given, id, initialized, srv, connection, main, isReadyProcess, wsGameLift>>
    BY DEF CallStep, GetFleetRoleCredentials, Lookup, Check, Send, Receive, Store
  <1>2. ended' \in {ended, "nil manager"}
    BY DEF CallStep, GetFleetRoleCredentials, Lookup, Check, Send, Receive, Store
  <1> QED BY <1>1, <1>2, FrameKeeps DEF IInv, ProvenanceInv, LifeInv

LEMMA NextIInv == IInv /\ [Next]_vars => IInv'
  <1> SUFFICES ASSUME IInv, [Next]_vars PROVE Typed' /\ ProvenanceInv'
    BY NextCacheDomain DEF IInv
  <1>1. CASE MainStep
    BY <1>1, InitSDKKeeps, ValidateKeeps, FetchCredentialsKeeps, FetchMetadataKeeps, SignKeeps, StartConnectKeeps,
       ConnectReturnsKeeps, RefreshConnectionKeeps, LifeStepKeeps
    DEF MainStep, InitMakesCache
  <1>2. CASE \E c \in Callers : CallStep(c) BY <1>2, CallStepKeeps
  <1>3. CASE UNCHANGED initVars
    BY <1>3, FrameKeeps DEF initVars, settings, callOfInit, serverState, IInv, ProvenanceInv, LifeInv
  <1> QED BY <1>1, <1>2, <1>3 DEF Next, Tick, vars

(* No step of InitSDK, nor of any call beside it, leaves IInv. *)
LEMMA SpecIInv == Spec => []IInv
  BY InitIInv, NextIInv, PTL DEF Spec

(* A connection is of one InitSDK (ConnectionIsOfOneInit): whatever failed *)
(* calls, refreshes (server_state.go:604) and lives came before, the names *)
(* in its query and in its signature are those that this call meant, as    *)
(* init (server_state.go:109) resolves them.                               *)
THEOREM ConnectionOfOneInit == Spec => []ConnectionIsOfOneInit
  <1>1. IInv => ConnectionIsOfOneInit BY DEF IInv, ProvenanceInv
  <1> QED BY <1>1, SpecIInv, PTL

(* What ValidateServerParameters (validation.go) lets pass can be signed,  *)
(* but for a container whose provider leaves out a key: log.Fatalf is not  *)
(* reached by way of the parameters or the environment.                    *)
THEOREM ValidatedIsSigned == Spec => []ValidatedCanBeSigned
  <1>1. IInv => ValidatedCanBeSigned BY DEF IInv, ProvenanceInv
  <1> QED BY <1>1, SpecIInv, PTL

-----------------------------------------------------------------------------
(* The types: of the application's goroutine and of the calls beside it.   *)

(* What is connected has a manager, which Destroy takes away with the rest. *)
MainTypes ==
    /\ {srv, wsGameLift, onManagedEC2, isReadyProcess, initialized} \subseteq BOOLEAN
    /\ environment \in Environments /\ computeType \in ComputeTypes /\ jitter \in Jitters
    /\ main \in {"app", "validate", "fetchCredentials", "fetchMetadata", "sign", "connect", "connecting", "teardown"}
    /\ main = "connecting" \/ initialized => wsGameLift

(* A call that is under way is about a role of the cache, and what it      *)
(* stores is of that role.                                                 *)
CallTypes ==
    /\ now \in 0..MaxTime /\ calls \in 0..MaxCalls
    /\ pc \in [Callers -> {"idle", "lookup", "check", "send", "pending", "store"}]
    /\ req = [c \in Callers |-> req[c]] /\ res = [c \in Callers |-> res[c]]
    /\ \A c \in Callers :
          /\ req[c] \in Requests \cup {NoRequest}
          /\ pc[c] # "idle" => req[c] \in Requests
          /\ pc[c] = "store" => res[c].role = req[c].role /\ res[c].expires > 0
    /\ cache = [r \in Roles |-> cache[r]]
    /\ \A r \in Roles : cache[r] # Missing => cache[r].role = r

LEMMA InitTypes == Init => MainTypes /\ CallTypes
  <1> SUFFICES ASSUME Init PROVE MainTypes /\ CallTypes
    OBVIOUS
  <1>1. MainTypes BY DEF Init, InitialState, MainTypes
  <1>2. CallTypes
    BY FleetRoleAssumption DEF Init, CallTypes, FleetRoleAssumption
  <1> QED BY <1>1, <1>2

LEMMA MainStepTypes ==
    ASSUME MainTypes, CallTypes, IInv, MainStep
    PROVE  MainTypes' /\ CallTypes'
  <1>1. MainTypes'
    <2> USE DEF MainTypes, At, settings, callOfInit, serverState, InitReturns
    <2>1. CASE InitSDK BY <2>1 DEF InitSDK, IInv, ProvenanceInv, LifeInv
    <2>2. CASE Validate BY <2>2 DEF Validate
    <2>3. CASE FetchCredentials BY <2>3 DEF FetchCredentials
    <2>4. CASE FetchMetadata BY <2>4 DEF FetchMetadata
    <2>5. CASE Sign BY <2>5 DEF Sign
    <2>6. CASE StartConnect BY <2>6 DEF StartConnect
    <2>7. CASE ConnectReturns BY <2>7 DEF ConnectReturns
    <2>8. CASE ProcessReady BY <2>8 DEF ProcessReady
    <2>9. CASE Destroy
      <3>1. {isReadyProcess', wsGameLift', initialized'} \subseteq BOOLEAN BY <2>9 DEF Destroy
      <3>2. /\ UNCHANGED <<environment, computeType, jitter, srv, onManagedEC2>>
            /\ ~initialized' /\ main' \in {"app", "teardown"}
        BY <2>9 DEF Destroy
      <3> QED BY <3>1, <3>2
    <2>11. CASE Teardown BY <2>11 DEF Teardown, IInv, ProvenanceInv, LifeInv
    <2>10. CASE RefreshConnection BY <2>10 DEF RefreshConnection
    <2> QED BY <2>1, <2>2, <2>3, <2>4, <2>5, <2>6, <2>7, <2>8, <2>9, <2>10, <2>11 DEF MainStep, InitMakesCache
  <1>2. CallTypes'
    <2>1. CASE InitMakesCache BY <2>1 DEF InitMakesCache, CallTypes
    <2>2. CASE UNCHANGED callVars BY <2>2 DEF callVars, CallTypes
    <2> QED BY <2>1, <2>2 DEF MainStep
  <1> QED BY <1>1, <1>2

(* A step of a call: where it gets to, what it asks for and what it has.   *)
Moved(c, p, q, a) ==
    /\ pc' = [pc EXCEPT ![c] = p] /\ req' = [req EXCEPT ![c] = q] /\ res' = [res EXCEPT ![c] = a]
    /\ p \in {"idle", "lookup", "check", "send", "pending", "store"}
    /\ q \in Requests \cup {NoRequest}
    /\ p # "idle" => q \in Requests
    /\ p = "store" => a.role = q.role /\ a.expires > 0

CacheTypes == /\ cache = [r \in Roles |-> cache[r]]
              /\ \A r \in Roles : cache[r] # Missing => cache[r].role = r

LEMMA MovedTypes ==
    ASSUME CallTypes, NEW c \in Callers, NEW p, NEW q, NEW a, Moved(c, p, q, a),
           UNCHANGED now, calls' \in 0..MaxCalls, CacheTypes'
    PROVE  CallTypes'
  <1>1. \A d \in Callers : /\ pc'[d] = IF d = c THEN p ELSE pc[d]
                           /\ req'[d] = IF d = c THEN q ELSE req[d]
                           /\ res'[d] = IF d = c THEN a ELSE res[d]
    BY DEF Moved, CallTypes
  <1>2. \A d \in Callers :
          /\ req'[d] \in Requests \cup {NoRequest}
          /\ pc'[d] # "idle" => req'[d] \in Requests
          /\ pc'[d] = "store" => res'[d].role = req'[d].role /\ res'[d].expires > 0
    BY <1>1 DEF Moved, CallTypes
  <1>3. /\ pc' \in [Callers -> {"idle", "lookup", "check", "send", "pending", "store"}]
        /\ req' = [d \in Callers |-> req'[d]] /\ res' = [d \in Callers |-> res'[d]]
    BY DEF Moved, CallTypes
  <1> QED BY <1>2, <1>3 DEF CallTypes, CacheTypes

LEMMA ReturnMoves ==
    ASSUME NEW c \in Callers, Return(c)
    PROVE  Moved(c, "idle", NoRequest, Missing)
  BY DEF Return, Goto, Moved

LEMMA CallStepTypes ==
    ASSUME MainTypes, CallTypes, NEW c \in Callers, CallStep(c)
    PROVE  MainTypes' /\ CallTypes'
  <1> USE DEF CallerAt, Goto
  <1>1. MainTypes'
    <2>1. UNCHANGED <<settings, wsGameLift, isReadyProcess, srv, main, initialized>>
            /\ onManagedEC2' \in {onManagedEC2, FALSE}
      BY DEF CallStep, GetFleetRoleCredentials, Lookup, Check, Send, Receive, Store, initVars, serverState
    <2> QED BY <2>1 DEF MainTypes, settings
  <1> SUFFICES CallTypes' BY <1>1
  <1>2. CacheTypes /\ calls \in 0..MaxCalls /\ MaxCalls \in Nat
    BY FleetRoleAssumption DEF CallTypes, CacheTypes, FleetRoleAssumption
  <1>3. pc[c] # "idle" => req[c] \in Requests BY DEF CallTypes
  <1>4. req = [req EXCEPT ![c] = req[c]] /\ res = [res EXCEPT ![c] = res[c]] /\ pc = [pc EXCEPT ![c] = pc[c]]
    BY DEF CallTypes
  <1>5. CASE GetFleetRoleCredentials(c)
    <2>1. UNCHANGED <<now, cache, res>> /\ calls' \in 0..MaxCalls /\ pc[c] = "idle"
      BY <1>2, <1>5 DEF GetFleetRoleCredentials
    <2>2. CASE \E r \in Roles, s \in SessionNames :
                  pc' = [pc EXCEPT ![c] = "lookup"] /\ req' = [req EXCEPT ![c] = [role |-> r, session |-> s]]
      <3>1. PICK r \in Roles, s \in SessionNames : req' = [req EXCEPT ![c] = [role |-> r, session |-> s]]
        BY <2>2
      <3>2. Moved(c, "lookup", [role |-> r, session |-> s], res[c])
        BY <1>4, <2>1, <2>2, <3>1 DEF Moved, Requests
      <3> QED BY <1>2, <2>1, <3>2, MovedTypes DEF CacheTypes
    <2>3. CASE UNCHANGED <<pc, req>> BY <2>1, <2>3 DEF CallTypes
    <2> QED BY <1>5, <2>2, <2>3 DEF GetFleetRoleCredentials
  <1>6. CASE Lookup(c)
    <2>1. pc[c] = "lookup" /\ UNCHANGED <<now, calls>> BY <1>6 DEF Lookup
    <2>2. CASE IsFresh(cache[req[c].role])
      <3>1. Return(c) /\ UNCHANGED cache BY <1>6, <2>2 DEF Lookup
      <3> QED BY <1>2, <2>1, <3>1, ReturnMoves, MovedTypes DEF CacheTypes
    <2>3. CASE ~IsFresh(cache[req[c].role])
      <3>1. /\ cache' = [cache EXCEPT ![req[c].role] = Missing]
            /\ pc' = [pc EXCEPT ![c] = "check"] /\ UNCHANGED <<req, res>>
        BY <1>6, <2>3 DEF Lookup
      <3>2. Moved(c, "check", req[c], res[c]) BY <1>3, <1>4, <2>1, <3>1 DEF Moved
      <3>3. CacheTypes' BY <1>2, <3>1 DEF CacheTypes
      <3> QED BY <1>2, <2>1, <3>2, <3>3, MovedTypes
    <2> QED BY <2>2, <2>3
  <1>7. CASE Check(c)
    <2>1. UNCHANGED <<now, cache, calls>> /\ pc[c] = "check" BY <1>7 DEF Check
    <2>2. CASE Return(c) BY <1>2, <2>1, <2>2, ReturnMoves, MovedTypes DEF CacheTypes
    <2>3. CASE ~Return(c)
      <3> DEFINE session == IF req[c].session = "" THEN "default" ELSE req[c].session
                 q == [req[c] EXCEPT !.session = session]
      <3>1. /\ pc' = [pc EXCEPT ![c] = "send"] /\ req' = [req EXCEPT ![c] = q] /\ UNCHANGED res
        BY <1>7, <2>3 DEF Check
      <3>2. q \in Requests BY <1>3, <2>1 DEF Requests
      <3> HIDE DEF q
      <3>3. Moved(c, "send", q, res[c]) BY <1>4, <3>1, <3>2 DEF Moved
      <3> QED BY <1>2, <2>1, <3>3, MovedTypes DEF CacheTypes
    <2> QED BY <2>2, <2>3
  <1>8. CASE Send(c)
    <2> DEFINE a == [res[c] EXCEPT !.life = inits]
    <2>1. /\ UNCHANGED <<now, cache, calls, req>> /\ pc[c] = "send" /\ res' = [res EXCEPT ![c] = a]
          /\ \/ pc' = [pc EXCEPT ![c] = "pending"]
             \/ UNCHANGED pc
      BY <1>8 DEF Send
    <2> HIDE DEF a
    <2>2. CASE pc' = [pc EXCEPT ![c] = "pending"]
      <3>1. Moved(c, "pending", req[c], a) BY <1>3, <1>4, <2>1, <2>2 DEF Moved
      <3> QED BY <1>2, <2>1, <3>1, MovedTypes DEF CacheTypes
    <2>3. CASE UNCHANGED pc
      <3>1. Moved(c, "send", req[c], a) BY <1>3, <1>4, <2>1, <2>3 DEF Moved
      <3> QED BY <1>2, <2>1, <3>1, MovedTypes DEF CacheTypes
    <2> QED BY <2>1, <2>2, <2>3
  <1>9. CASE Receive(c)
    <2>1. UNCHANGED <<now, cache, calls>> /\ pc[c] = "pending" BY <1>9 DEF Receive
    <2>2. CASE Return(c) BY <1>2, <2>1, <2>2, ReturnMoves, MovedTypes DEF CacheTypes
    <2>3. CASE ~Return(c)
      <3>1. PICK t \in Lifetimes :
                  res' = [res EXCEPT ![c] = [role |-> req[c].role, session |-> req[c].session,
                                             expires |-> now + t, life |-> @.life]]
        BY <1>9, <2>3 DEF Receive
      <3> DEFINE a == [role |-> req[c].role, session |-> req[c].session, expires |-> now + t, life |-> res[c].life]
      <3>2. pc' = [pc EXCEPT ![c] = "store"] /\ UNCHANGED req BY <1>9, <2>3 DEF Receive
      <3>3. res' = [res EXCEPT ![c] = a] /\ a.role = req[c].role BY <3>1
      <3>5. a.expires > 0
        BY FleetRoleAssumption DEF CallTypes, FleetRoleAssumption
      <3> HIDE DEF a
      <3>4. Moved(c, "store", req[c], a) BY <1>3, <1>4, <2>1, <3>2, <3>3, <3>5 DEF Moved
      <3> QED BY <1>2, <2>1, <3>4, MovedTypes DEF CacheTypes
    <2> QED BY <2>2, <2>3
  <1>10. CASE Store(c)
    <2>1. /\ cache' = [cache EXCEPT ![req[c].role] = res[c]] /\ pc[c] = "store"
          /\ Return(c) /\ UNCHANGED <<now, calls>>
      BY <1>10 DEF Store
    <2>2. res[c].role = req[c].role BY <2>1 DEF CallTypes
    <2>3. CacheTypes' BY <1>2, <2>1, <2>2 DEF CacheTypes
    <2> QED BY <1>2, <2>1, <2>3, ReturnMoves, MovedTypes
  <1> QED BY <1>5, <1>6, <1>7, <1>8, <1>9, <1>10 DEF CallStep

LEMMA NextTypes == MainTypes /\ CallTypes /\ IInv /\ [Next]_vars => MainTypes' /\ CallTypes'
  <1> SUFFICES ASSUME MainTypes, CallTypes, IInv, [Next]_vars PROVE MainTypes' /\ CallTypes'
    OBVIOUS
  <1>1. CASE MainStep BY <1>1, MainStepTypes
  <1>2. CASE Tick
    <2>1. MainTypes' BY <1>2 DEF Tick, MainTypes, initVars, settings, callOfInit, serverState
    <2>2. CallTypes' BY <1>2, FleetRoleAssumption DEF Tick, CallTypes, FleetRoleAssumption
    <2> QED BY <2>1, <2>2
  <1>3. CASE \E c \in Callers : CallStep(c) BY <1>3, CallStepTypes
  <1>4. CASE UNCHANGED vars
    BY <1>4 DEF vars, callVars, initVars, settings, callOfInit, serverState, MainTypes, CallTypes
  <1> QED BY <1>1, <1>2, <1>3, <1>4 DEF Next

(* The types, as an invariant of every behaviour. *)
THEOREM SpecTypes == Spec => [](MainTypes /\ CallTypes)
  <1>1. MainTypes /\ CallTypes /\ IInv /\ [Next]_vars => (MainTypes /\ CallTypes)'
    BY NextTypes
  <1> QED BY InitTypes, SpecIInv, <1>1, PTL DEF Spec

(* Every goroutine is where its code can be, only a connected process is   *)
(* ready, and every entry of the cache is of the role it is stored under   *)
(* (server_state.go:383): a late answer is never stored for another role.  *)
THEOREM CredentialsTypeCorrect == Spec => []TypeOK
  <1>1. MainTypes /\ CallTypes /\ IInv => TypeOK
    <2> SUFFICES ASSUME MainTypes, CallTypes, IInv PROVE TypeOK
      OBVIOUS
    <2>1. InitTypeOK BY DEF MainTypes, IInv, Typed, ProvenanceInv, LifeInv, InitTypeOK
    <2> QED BY <2>1 DEF CallTypes, TypeOK
  <1> QED BY SpecTypes, SpecIInv, <1>1, PTL

-----------------------------------------------------------------------------
(* The cache. *)

(* Only a lookup takes an entry out of the cache, one that is not good, and *)
(* only a store and InitSDK change it otherwise.                            *)
LEMMA NextSparesTheGood ==
    ASSUME CallTypes, [Next]_vars, NEW r \in Roles, IsFresh(cache[r]), inits' = inits, inits \in Nat
    PROVE  cache'[r] # Missing /\ cache'[r].role = r
  <1> USE DEF vars, callVars
  <1>1. cache[r] # Missing /\ cache[r].role = r /\ cache = [s \in Roles |-> cache[s]]
    BY DEF IsFresh, CallTypes
  <1>2. CASE MainStep
    <2>1. CASE InitMakesCache BY <2>1 DEF InitMakesCache, InitSDK
    <2> QED BY <1>1, <1>2, <2>1 DEF MainStep
  <1>3. CASE Tick BY <1>1, <1>3 DEF Tick
  <1>4. ASSUME NEW c \in Callers, Lookup(c) PROVE cache'[r] = cache[r]
    <2>1. CASE IsFresh(cache[req[c].role]) BY <1>4, <2>1 DEF Lookup
    <2>2. CASE ~IsFresh(cache[req[c].role])
      <3>1. cache' = [cache EXCEPT ![req[c].role] = Missing] BY <1>4, <2>2 DEF Lookup
      <3>2. r # req[c].role BY <2>2
      <3> QED BY <1>1, <3>1, <3>2
    <2> QED BY <2>1, <2>2
  <1>5. ASSUME NEW c \in Callers, Store(c) PROVE cache'[r] # Missing /\ cache'[r].role = r
    <2>1. pc[c] = "store" /\ cache' = [cache EXCEPT ![req[c].role] = res[c]] BY <1>5 DEF Store, CallerAt
    <2>2. res[c].role = req[c].role /\ res[c].expires > 0 BY <2>1 DEF CallTypes
    <2>3. Missing.expires = 0 BY DEF Missing
    <2>4. res[c] # Missing
      <3>1. SUFFICES ASSUME res[c] = Missing PROVE FALSE
        OBVIOUS
      <3>2. 0 > 0 BY <2>2, <2>3, <3>1
      <3> QED BY <3>2
    <2> QED BY <1>1, <2>1, <2>2, <2>4
  <1>6. ASSUME NEW c \in Callers, CallStep(c), ~Lookup(c), ~Store(c) PROVE cache' = cache
    BY <1>6 DEF CallStep, GetFleetRoleCredentials, Check, Send, Receive
  <1>7. CASE UNCHANGED vars BY <1>1, <1>7
  <1> QED BY <1>1, <1>2, <1>3, <1>4, <1>5, <1>6, <1>7 DEF Next

(* No call deletes credentials that are good (GoodEntriesAreNotDeleted),   *)
(* however many overlap: the lookup and the deletion of what is stale are  *)
(* one section of the mutex (server_state.go:383), and what a call stores  *)
(* is an answer to its own request (server_state.go:440).                  *)
THEOREM GoodCredentialsAreNotDeleted == Spec => GoodEntriesAreNotDeleted
  <1>1. MainTypes /\ CallTypes /\ IInv /\ [Next]_vars =>
          [\A r \in Roles :
              IsFresh(cache[r]) /\ inits' = inits => cache'[r] # Missing /\ cache'[r].role = r]_vars
    <2>1. IInv => inits \in Nat
      BY InitializationAssumption DEF InitializationAssumption, IInv, Typed
    <2> QED BY <2>1, NextSparesTheGood
  <1> QED BY SpecTypes, SpecIInv, <1>1, PTL DEF Spec, GoodEntriesAreNotDeleted
=============================================================================
