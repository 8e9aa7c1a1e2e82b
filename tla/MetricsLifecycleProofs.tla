------------------------- MODULE MetricsLifecycleProofs -------------------------
(***************************************************************************)
(* Theorems about MetricsLifecycle, for any number of calls of InitMetrics *)
(* and of handlers, of lives and of sessions, however they overlap.        *)
(***************************************************************************)
EXTENDS MetricsLifecycle, TLAPS

(* A call of InitMetrics that is past the sync.Once, and one whose         *)
(* processor it has started and has not handed over yet.                   *)
Starting == {"registers", "sets", "reads", "tags", "labels", "returns"}
Past == Starting \cup {"starts", "ok"}

(* The sync.Once lets one call pass, and its processor is the global one   *)
(* for good; so the factory that the API keeps is of that call.            *)
OwnerInv ==
    /\ ~once => globalProcessor = None
    /\ \A i \in Inits : init[i] \in Past => once /\ globalProcessor = i
    /\ metricsFactory # None => init[metricsFactory] = "ok"
    /\ \A i \in Inits : init[i] \in Starting => started
    /\ metricsFactory # None => started \/ main = "clears"

(* As long as no InitMetrics has overlapped another call, it runs alone:   *)
(* from its first check of metricsFactory and srv to its last assignment,  *)
(* only it changes them, and a processor that runs has a factory.          *)
Alone ==
    /\ main # "app" => InitsIdle
    /\ \A i, j \in Inits : init[i] \notin Done /\ init[j] \notin Done => i = j
    /\ \A i \in Inits : init[i] \notin Done => metricsFactory = None /\ (i \in hadServer <=> srv) /\ ~destroyed
    /\ \A i \in Inits : init[i] = "none" => i \notin hadServer
    /\ \A i \in Inits : init[i] \in {"reads", "tags", "labels"} => stateFactory = i
    /\ \A i \in Inits : init[i] = "returns" /\ i \in hadServer => stateFactory = i
    /\ started => metricsFactory # None \/ \E i \in Inits : init[i] \in Starting
    /\ main = "clears" \/ destroyed => ~started
    /\ metricsFactory # None /\ wsGameLift /\ srv /\ main # "hands" => stateFactory # None
AloneInv == ~overlapped => Alone

(* A process is ready between the InitSDK and the Destroy of one life, and *)
(* a session is bound only then.                                           *)
LifeInv ==
    /\ isReadyProcess => srv /\ wsGameLift /\ main \in {"app", "stops"}
    /\ main \in {"publishes", "hands"} => ~boundNow
    /\ main = "publishes" => ~srv
    /\ boundNow => gameSessionID # NoSession

(* As long as the state's factory has not changed in the middle of a       *)
(* handler, a handler that looked for it has told it of its session.       *)
Told(h) == <<"tag", session[h]>> \in reporter
HandlerInv ==
    \A h \in Handlers :
        /\ handler[h] \in {"checks", "calls", "labels", "binds"} => session[h] # NoSession
        /\ ~raced /\ handler[h] = "calls" => stateFactory # None
        /\ ~raced /\ handler[h] \in {"labels", "binds"} /\ stateFactory # None => Told(h)

(* And a session that was bound before the state got its factory is read   *)
(* by the InitMetrics that gave it.                                        *)
SessionInv ==
    ~raced /\ boundNow /\ stateFactory # None =>
        \/ <<"tag", gameSessionID>> \in reporter
        \/ \E i \in Inits : init[i] = "reads" \/ (init[i] = "tags" /\ seen[i] = gameSessionID)

IInv == TypeOK /\ OwnerInv /\ AloneInv /\ LifeInv /\ HandlerInv /\ SessionInv
-----------------------------------------------------------------------------
LEMMA NotNone == None \notin Inits /\ MaxLives \in Nat /\ MaxSessions \in Nat /\ NoSession \in 0..MaxSessions
  BY LifecycleAssumption DEF LifecycleAssumption, NoSession

(* TypeOK by the groups of variables. *)
Places == Done \cup Past \cup {"checks", "creates", "fails"}
ApiTypes ==
    /\ srv \in BOOLEAN /\ overlapped \in BOOLEAN /\ metricsFactory \in Inits \cup {None}
    /\ init \in [Inits -> Places] /\ hadServer \subseteq Inits /\ seen \in [Inits -> 0..MaxSessions]
StateTypes ==
    /\ stateFactory \in Inits \cup {None} /\ wsGameLift \in BOOLEAN /\ isReadyProcess \in BOOLEAN
    /\ gameSessionID \in 0..MaxSessions /\ raced \in BOOLEAN
ProcessorTypes ==
    /\ globalProcessor \in Inits \cup {None} /\ once \in BOOLEAN /\ started \in BOOLEAN
    /\ sessionTag \in 0..MaxSessions
MainTypes ==
    /\ main \in {"app", "publishes", "hands", "stops", "disconnects", "forgets", "terminates", "clears"}
    /\ disconnectErr \in BOOLEAN /\ lives \in 0..MaxLives /\ destroyed \in BOOLEAN
HandlerTypes ==
    /\ handler \in [Handlers -> {"free", "checks", "calls", "labels", "binds", "ends", "deregisters"}]
    /\ session \in [Handlers -> 0..MaxSessions] /\ sessions \in 0..MaxSessions
    /\ crashed \in BOOLEAN /\ boundNow \in BOOLEAN
ReporterType == reporter \subseteq {"register", "tag", "deregister"} \X (0..MaxSessions)
Types == ApiTypes /\ StateTypes /\ ProcessorTypes /\ MainTypes /\ HandlerTypes /\ ReporterType

LEMMA TypeParts == (TypeOK <=> Types) /\ (Types' => TypeOK')
  <1> USE DEF TypeOK, ApiTypes, StateTypes, ProcessorTypes, MainTypes, HandlerTypes, ReporterType, Places, Past, Starting,
        Done
  <1>1. TypeOK => ApiTypes OBVIOUS
  <1>2. TypeOK => StateTypes OBVIOUS
  <1>3. TypeOK => ProcessorTypes /\ MainTypes OBVIOUS
  <1>4. TypeOK => HandlerTypes /\ ReporterType OBVIOUS
  <1>5. Types => TypeOK BY DEF Types
  <1>6. Types' => TypeOK' BY DEF Types
  <1> QED BY <1>1, <1>2, <1>3, <1>4, <1>5, <1>6 DEF Types

LEMMA UnchangedTypes ==
    ASSUME Types
    PROVE  /\ UNCHANGED apiVars => ApiTypes'
           /\ UNCHANGED <<stateVars, raced>> => StateTypes'
           /\ UNCHANGED processorVars => ProcessorTypes'
           /\ UNCHANGED mainVars => MainTypes'
           /\ UNCHANGED handlerVars => HandlerTypes'
           /\ UNCHANGED reporter => ReporterType'
  <1> USE DEF Types
  <1>1. UNCHANGED apiVars => ApiTypes' BY DEF ApiTypes, apiVars
  <1>2. UNCHANGED <<stateVars, raced>> => StateTypes' BY DEF StateTypes, stateVars
  <1>3. UNCHANGED processorVars => ProcessorTypes' BY DEF ProcessorTypes, processorVars
  <1>4. UNCHANGED mainVars => MainTypes' BY DEF MainTypes, mainVars
  <1>5. UNCHANGED handlerVars => HandlerTypes' BY DEF HandlerTypes, handlerVars
  <1>6. UNCHANGED reporter => ReporterType' BY DEF ReporterType
  <1> QED BY <1>1, <1>2, <1>3, <1>4, <1>5, <1>6

LEMMA InitIInv == Init => IInv
  <1> SUFFICES ASSUME Init PROVE IInv
    OBVIOUS
  <1> USE NotNone DEF Init
  <1>1. ApiTypes BY DEF ApiTypes, Places, Done
  <1>2. StateTypes /\ ProcessorTypes /\ ReporterType BY DEF StateTypes, ProcessorTypes, ReporterType
  <1>3. MainTypes
    <2>1. lives \in 0..MaxLives OBVIOUS
    <2>2. disconnectErr \in BOOLEAN /\ destroyed \in BOOLEAN OBVIOUS
    <2> QED BY <2>1, <2>2 DEF MainTypes
  <1>4. HandlerTypes
    <2>1. sessions \in 0..MaxSessions /\ session \in [Handlers -> 0..MaxSessions] OBVIOUS
    <2>2. crashed \in BOOLEAN /\ boundNow \in BOOLEAN OBVIOUS
    <2> QED BY <2>1, <2>2 DEF HandlerTypes
  <1>5. TypeOK BY <1>1, <1>2, <1>3, <1>4, TypeParts DEF Types
  <1>6. OwnerInv /\ LifeInv /\ HandlerInv /\ SessionInv
    BY DEF OwnerInv, LifeInv, HandlerInv, SessionInv, Past, Starting
  <1>7. AloneInv BY DEF AloneInv, Alone, InitsIdle, Done
  <1> QED BY <1>5, <1>6, <1>7 DEF IInv

-----------------------------------------------------------------------------
(* Type correctness is preserved. *)
LEMMA InitMetricsTypes == ASSUME Types, NEW i \in Inits, InitMetrics(i) \/ InitStep(i) PROVE Types'
  <1> USE NotNone DEF Types
  <1>1. CASE InitMetrics(i)
    <2>1. StateTypes' /\ ProcessorTypes' /\ HandlerTypes' /\ ReporterType'
      BY <1>1, UnchangedTypes DEF InitMetrics, apiVars, stateVars, mainVars, handlerVars
    <2>2. ApiTypes' BY <1>1 DEF InitMetrics, ApiTypes, apiVars, At, Places, Past, Starting, Done
    <2>3. MainTypes' BY <1>1 DEF InitMetrics, MainTypes, mainVars, Main
    <2> QED BY <2>1, <2>2, <2>3
  <1>2. CASE ChecksProcessor(i)
    <2>1. StateTypes' /\ ProcessorTypes' /\ MainTypes' /\ HandlerTypes' /\ ReporterType'
      BY <1>2, UnchangedTypes DEF ChecksProcessor, apiVars, stateVars, mainVars, handlerVars
    <2>2. ApiTypes' BY <1>2 DEF ChecksProcessor, ApiTypes, apiVars, At, Places, Past, Starting, Done
    <2> QED BY <2>1, <2>2
  <1>3. CASE CreatesProcessor(i)
    <2>1. StateTypes' /\ MainTypes' /\ HandlerTypes' /\ ReporterType'
      BY <1>3, UnchangedTypes DEF CreatesProcessor, apiVars, stateVars, mainVars, handlerVars
    <2>2. ApiTypes' BY <1>3 DEF CreatesProcessor, ApiTypes, apiVars, At, Places, Past, Starting, Done
    <2>3. ProcessorTypes' BY <1>3 DEF CreatesProcessor, ProcessorTypes, processorVars
    <2> QED BY <2>1, <2>2, <2>3
  <1>4. CASE StartsProcessor(i)
    <2>1. StateTypes' /\ MainTypes' /\ HandlerTypes' /\ ReporterType'
      BY <1>4, UnchangedTypes DEF StartsProcessor, apiVars, stateVars, mainVars, handlerVars
    <2>2. ApiTypes' BY <1>4 DEF StartsProcessor, ApiTypes, apiVars, At, Places, Past, Starting, Done
    <2>3. ProcessorTypes' BY <1>4 DEF StartsProcessor, ProcessorTypes, processorVars
    <2> QED BY <2>1, <2>2, <2>3
  <1>5. CASE RegistersProcess(i)
    <2>1. StateTypes' /\ ProcessorTypes' /\ MainTypes' /\ HandlerTypes'
      BY <1>5, UnchangedTypes DEF RegistersProcess, apiVars, stateVars, mainVars, handlerVars
    <2>2. ApiTypes' BY <1>5 DEF RegistersProcess, ApiTypes, apiVars, At, Places, Past, Starting, Done
    <2>3. ReporterType' BY <1>5 DEF RegistersProcess, ReporterType
    <2> QED BY <2>1, <2>2, <2>3
  <1>6. CASE SetsFactory(i)
    <2>1. ProcessorTypes' /\ MainTypes' /\ HandlerTypes' /\ ReporterType'
      BY <1>6, UnchangedTypes DEF SetsFactory, apiVars, stateVars, mainVars, handlerVars
    <2>2. ApiTypes' BY <1>6 DEF SetsFactory, ApiTypes, apiVars, At, Places, Past, Starting, Done
    <2>3. StateTypes' BY <1>6 DEF SetsFactory, StateTypes, stateVars, SetsStateFactory
    <2> QED BY <2>1, <2>2, <2>3
  <1>7. CASE ReadsSession(i)
    <2>1. StateTypes' /\ ProcessorTypes' /\ MainTypes' /\ HandlerTypes' /\ ReporterType'
      BY <1>7, UnchangedTypes DEF ReadsSession, apiVars, stateVars, mainVars, handlerVars
    <2>2. ApiTypes' BY <1>7 DEF ReadsSession, ApiTypes, StateTypes, apiVars, At, Places, Past, Starting, Done
    <2> QED BY <2>1, <2>2
  <1>8. CASE TagsSession(i)
    <2>1. StateTypes' /\ ProcessorTypes' /\ MainTypes' /\ HandlerTypes'
      BY <1>8, UnchangedTypes DEF TagsSession, apiVars, stateVars, mainVars, handlerVars
    <2>2. ApiTypes' BY <1>8 DEF TagsSession, ApiTypes, apiVars, At, Places, Past, Starting, Done
    <2>3. ReporterType' BY <1>8 DEF TagsSession, ReporterType, ApiTypes
    <2> QED BY <2>1, <2>2, <2>3
  <1>9. CASE LabelsSession(i)
    <2>1. StateTypes' /\ MainTypes' /\ HandlerTypes' /\ ReporterType'
      BY <1>9, UnchangedTypes DEF LabelsSession, apiVars, stateVars, mainVars, handlerVars
    <2>2. ApiTypes' BY <1>9 DEF LabelsSession, ApiTypes, apiVars, At, Places, Past, Starting, Done
    <2>3. ProcessorTypes' BY <1>9 DEF LabelsSession, ProcessorTypes, ApiTypes, processorVars
    <2> QED BY <2>1, <2>2, <2>3
  <1>10. CASE Returns(i)
    <2>1. StateTypes' /\ ProcessorTypes' /\ MainTypes' /\ HandlerTypes' /\ ReporterType'
      BY <1>10, UnchangedTypes DEF Returns, apiVars, stateVars, mainVars, handlerVars
    <2>2. ApiTypes' BY <1>10 DEF Returns, ApiTypes, apiVars, At, Places, Past, Starting, Done
    <2> QED BY <2>1, <2>2
  <1> QED BY <1>1, <1>2, <1>3, <1>4, <1>5, <1>6, <1>7, <1>8, <1>9, <1>10 DEF InitStep

LEMMA MainTypesKept == ASSUME Types, InitSDK \/ ProcessReady \/ Destroy \/ MainStep PROVE Types'
  <1> USE NotNone DEF Types
  <1>1. CASE InitSDK
    <2>1. ProcessorTypes' /\ ReporterType'
      BY <1>1, UnchangedTypes DEF InitSDK, apiVars, stateVars, mainVars, handlerVars
    <2>2. ApiTypes' BY <1>1 DEF InitSDK, ApiTypes, apiVars, At, Places, Past, Starting, Done
    <2>3. MainTypes' BY <1>1 DEF InitSDK, MainTypes, mainVars, Main
    <2>4. HandlerTypes' BY <1>1 DEF InitSDK, HandlerTypes, handlerVars, Goes
    <2>5. StateTypes' BY <1>1 DEF InitSDK, StateTypes, stateVars, SetsStateFactory
    <2> QED BY <2>1, <2>2, <2>3, <2>4, <2>5
  <1>2. CASE PublishesServer
    <2>1. StateTypes' /\ ProcessorTypes' /\ HandlerTypes' /\ ReporterType'
      BY <1>2, UnchangedTypes DEF PublishesServer, apiVars, stateVars, mainVars, handlerVars
    <2>2. ApiTypes' BY <1>2 DEF PublishesServer, ApiTypes, apiVars, At, Places, Past, Starting, Done
    <2>3. MainTypes' BY <1>2 DEF PublishesServer, MainTypes, mainVars, Main
    <2> QED BY <2>1, <2>2, <2>3
  <1>3. CASE HandsFactory
    <2>1. ApiTypes' /\ ProcessorTypes' /\ HandlerTypes' /\ ReporterType'
      BY <1>3, UnchangedTypes DEF HandsFactory, apiVars, stateVars, mainVars, handlerVars
    <2>2. StateTypes' BY <1>3 DEF HandsFactory, StateTypes, ApiTypes, stateVars, SetsStateFactory
    <2>3. MainTypes' BY <1>3 DEF HandsFactory, MainTypes, mainVars, Main
    <2> QED BY <2>1, <2>2, <2>3
  <1>4. CASE ProcessReady
    <2>1. ApiTypes' /\ ProcessorTypes' /\ MainTypes' /\ HandlerTypes' /\ ReporterType'
      BY <1>4, UnchangedTypes DEF ProcessReady, apiVars, stateVars, mainVars, handlerVars
    <2>2. StateTypes' BY <1>4 DEF ProcessReady, StateTypes, stateVars, SetsStateFactory
    <2> QED BY <2>1, <2>2
  <1>5. CASE Destroy
    <2>1. StateTypes' /\ ProcessorTypes' /\ HandlerTypes' /\ ReporterType'
      BY <1>5, UnchangedTypes DEF Destroy, apiVars, stateVars, mainVars, handlerVars
    <2>2. ApiTypes' BY <1>5 DEF Destroy, ApiTypes, apiVars, At, Places, Past, Starting, Done
    <2>3. MainTypes' BY <1>5 DEF Destroy, MainTypes, mainVars, Main
    <2> QED BY <2>1, <2>2, <2>3
  <1>6. CASE StopsServer
    <2>1. ApiTypes' /\ ProcessorTypes' /\ HandlerTypes' /\ ReporterType'
      BY <1>6, UnchangedTypes DEF StopsServer, apiVars, stateVars, mainVars, handlerVars
    <2>2. StateTypes' BY <1>6 DEF StopsServer, StateTypes, stateVars, SetsStateFactory
    <2>3. MainTypes' BY <1>6 DEF StopsServer, MainTypes, mainVars, Main
    <2> QED BY <2>1, <2>2, <2>3
  <1>7. CASE Disconnects
    <2>1. ApiTypes' /\ StateTypes' /\ ProcessorTypes' /\ HandlerTypes' /\ ReporterType'
      BY <1>7, UnchangedTypes DEF Disconnects, apiVars, stateVars, mainVars, handlerVars
    <2>2. MainTypes' BY <1>7 DEF Disconnects, MainTypes, mainVars, Main
    <2> QED BY <2>1, <2>2
  <1>8. CASE Forgets
    <2>1. ApiTypes' /\ ProcessorTypes' /\ HandlerTypes' /\ ReporterType'
      BY <1>8, UnchangedTypes DEF Forgets, apiVars, stateVars, mainVars, handlerVars
    <2>2. StateTypes' BY <1>8 DEF Forgets, StateTypes, stateVars, SetsStateFactory
    <2>3. MainTypes' BY <1>8 DEF Forgets, MainTypes, mainVars, Main
    <2> QED BY <2>1, <2>2, <2>3
  <1>9. CASE TerminatesMetrics
    <2>1. ApiTypes' /\ StateTypes' /\ HandlerTypes' /\ ReporterType'
      BY <1>9, UnchangedTypes DEF TerminatesMetrics, apiVars, stateVars, mainVars, handlerVars
    <2>2. ProcessorTypes' BY <1>9 DEF TerminatesMetrics, ProcessorTypes, processorVars
    <2>3. MainTypes' BY <1>9 DEF TerminatesMetrics, MainTypes, mainVars, Main
    <2> QED BY <2>1, <2>2, <2>3
  <1>10. CASE Clears
    <2>1. StateTypes' /\ ProcessorTypes' /\ HandlerTypes' /\ ReporterType'
      BY <1>10, UnchangedTypes DEF Clears, apiVars, stateVars, mainVars, handlerVars
    <2>2. ApiTypes' BY <1>10 DEF Clears, ApiTypes, apiVars, At, Places, Past, Starting, Done
    <2>3. MainTypes' BY <1>10 DEF Clears, MainTypes, mainVars, Main
    <2> QED BY <2>1, <2>2, <2>3
  <1> QED BY <1>1, <1>2, <1>3, <1>4, <1>5, <1>6, <1>7, <1>8, <1>9, <1>10 DEF MainStep

LEMMA HandlerTypesKept == ASSUME Types, NEW h \in Handlers, Receives(h) \/ HandlerStep(h) PROVE Types'
  <1> USE NotNone DEF Types
  <1>1. CASE Receives(h)
    <2>1. ApiTypes' /\ StateTypes' /\ ProcessorTypes' /\ MainTypes' /\ ReporterType'
      BY <1>1, UnchangedTypes DEF Receives, apiVars, stateVars, mainVars, handlerVars
    <2>2. HandlerTypes' BY <1>1 DEF Receives, HandlerTypes, handlerVars, Goes
    <2> QED BY <2>1, <2>2
  <1>2. CASE ChecksFactory(h)
    <2>1. ApiTypes' /\ StateTypes' /\ ProcessorTypes' /\ MainTypes' /\ ReporterType'
      BY <1>2, UnchangedTypes DEF ChecksFactory, apiVars, stateVars, mainVars, handlerVars
    <2>2. HandlerTypes' BY <1>2 DEF ChecksFactory, HandlerTypes, handlerVars, Goes
    <2> QED BY <2>1, <2>2
  <1>3. CASE CallsFactory(h)
    <2>1. ApiTypes' /\ StateTypes' /\ ProcessorTypes' /\ MainTypes'
      BY <1>3, UnchangedTypes DEF CallsFactory, apiVars, stateVars, mainVars, handlerVars
    <2>2. HandlerTypes' BY <1>3 DEF CallsFactory, HandlerTypes, handlerVars, Goes
    <2>3. ReporterType' BY <1>3 DEF CallsFactory, ReporterType, HandlerTypes
    <2> QED BY <2>1, <2>2, <2>3
  <1>4. CASE LabelsFactory(h)
    <2>1. ApiTypes' /\ StateTypes' /\ MainTypes' /\ ReporterType'
      BY <1>4, UnchangedTypes DEF LabelsFactory, apiVars, stateVars, mainVars, handlerVars
    <2>2. ProcessorTypes' BY <1>4 DEF LabelsFactory, ProcessorTypes, HandlerTypes, processorVars
    <2>3. HandlerTypes' BY <1>4 DEF LabelsFactory, HandlerTypes, handlerVars, Goes
    <2> QED BY <2>1, <2>2, <2>3
  <1>5. CASE BindsSession(h)
    <2>1. ApiTypes' /\ ProcessorTypes' /\ MainTypes' /\ ReporterType'
      BY <1>5, UnchangedTypes DEF BindsSession, apiVars, stateVars, mainVars, handlerVars
    <2>2. StateTypes' BY <1>5 DEF BindsSession, StateTypes, HandlerTypes, stateVars, SetsStateFactory
    <2>3. HandlerTypes' BY <1>5 DEF BindsSession, HandlerTypes, handlerVars, Goes
    <2> QED BY <2>1, <2>2, <2>3
  <1> QED BY <1>1, <1>2, <1>3, <1>4, <1>5 DEF HandlerStep

LEMMA NextTypes == Types /\ [Next]_vars => Types'
  <1>1. Types /\ UNCHANGED vars => Types' BY UnchangedTypes DEF vars, Types
  <1> QED BY <1>1, InitMetricsTypes, MainTypesKept, HandlerTypesKept DEF Next

(* The steps of InitMetrics move one call. *)
LEMMA OneMoves ==
    ASSUME Types, NEW i \in Inits, NEW here, NEW there, At(i, here, there)
    PROVE  init[i] = here /\ \A j \in Inits : init'[j] = IF j = i THEN there ELSE init[j]
  BY DEF At, Types, ApiTypes

-----------------------------------------------------------------------------
LEMMA NextOwner == Types /\ OwnerInv /\ [Next]_vars => OwnerInv'
  <1> SUFFICES ASSUME Types, OwnerInv, [Next]_vars PROVE OwnerInv'
    OBVIOUS
  <1> USE NotNone DEF Past, Starting
  <1>0. metricsFactory \in Inits \cup {None} BY DEF Types, ApiTypes
  <1>1. ASSUME UNCHANGED <<once, globalProcessor, init, metricsFactory, started>>, main' = main \/ main # "clears"
        PROVE  OwnerInv'
    BY <1>1 DEF OwnerInv
  <1>2. ASSUME NEW i \in Inits, NEW here \in Places, NEW there \in Places, At(i, here, there),
               there \in Starting => here \in Starting, there \in Past => here \in Past, here # "ok",
               UNCHANGED <<once, globalProcessor, metricsFactory, started, main>>
        PROVE  OwnerInv'
    BY <1>0, <1>2, OneMoves DEF OwnerInv
  <1>3. ASSUME NEW i \in Inits, InitMetrics(i) PROVE OwnerInv'
    BY <1>2, <1>3 DEF InitMetrics, Places, Done, processorVars
  <1>4. ASSUME NEW i \in Inits, ChecksProcessor(i) PROVE OwnerInv'
    BY <1>2, <1>4 DEF ChecksProcessor, Places, Done, processorVars, mainVars
  <1>5. ASSUME NEW i \in Inits, CreatesProcessor(i) PROVE OwnerInv'
    <2>1. CASE once /\ At(i, "creates", "fails") /\ UNCHANGED <<once, globalProcessor>>
      BY <1>2, <1>5, <2>1 DEF CreatesProcessor, Places, Done, mainVars
    <2>2. CASE ~once /\ At(i, "creates", "starts") /\ once' = TRUE
               /\ globalProcessor' = IF globalProcessor = None THEN i ELSE globalProcessor
      BY <1>0, <1>5, <2>2, OneMoves DEF CreatesProcessor, OwnerInv, mainVars
    <2> QED BY <1>5, <2>1, <2>2 DEF CreatesProcessor
  <1>6. ASSUME NEW i \in Inits, StartsProcessor(i) PROVE OwnerInv'
    BY <1>0, <1>6, OneMoves DEF StartsProcessor, OwnerInv, mainVars
  <1>7. ASSUME NEW i \in Inits, RegistersProcess(i) \/ ReadsSession(i) \/ TagsSession(i) PROVE OwnerInv'
    BY <1>2, <1>7 DEF RegistersProcess, ReadsSession, TagsSession, Places, Done, processorVars, mainVars
  <1>8. ASSUME NEW i \in Inits, LabelsSession(i) PROVE OwnerInv'
    BY <1>2, <1>8 DEF LabelsSession, Places, Done, mainVars
  <1>9. ASSUME NEW i \in Inits, SetsFactory(i) PROVE OwnerInv'
    BY <1>2, <1>9 DEF SetsFactory, Places, Done, processorVars, mainVars
  <1>10. ASSUME NEW i \in Inits, Returns(i) PROVE OwnerInv'
    BY <1>0, <1>10, OneMoves DEF Returns, OwnerInv, processorVars, mainVars
  <1>11. CASE InitSDK \/ PublishesServer \/ HandsFactory \/ ProcessReady \/ Destroy \/ StopsServer \/ Disconnects \/ Forgets
    BY <1>1, <1>11
    DEF InitSDK, PublishesServer, HandsFactory, ProcessReady, Destroy, StopsServer, Disconnects, Forgets, Main,
      apiVars, processorVars, mainVars
  <1>12. CASE TerminatesMetrics
    <2>1. UNCHANGED <<once, globalProcessor, init, metricsFactory>> /\ main' = "clears"
          /\ (started' <=> started /\ metricsFactory = None)
      BY <1>12 DEF TerminatesMetrics, apiVars, Main
    <2>2. \A i \in Inits : init[i] \in Starting => metricsFactory = None BY <1>0 DEF OwnerInv
    <2> QED BY <2>1, <2>2 DEF OwnerInv
  <1>13. CASE Clears
    BY <1>13 DEF Clears, OwnerInv, processorVars, Main
  <1>14. ASSUME NEW h \in Handlers, Receives(h) \/ HandlerStep(h) PROVE OwnerInv'
    BY <1>1, <1>14
    DEF Receives, HandlerStep, ChecksFactory, CallsFactory, LabelsFactory, BindsSession, apiVars, processorVars, mainVars
  <1>15. CASE UNCHANGED vars BY <1>1, <1>15 DEF vars, apiVars, processorVars, mainVars
  <1> QED BY <1>3, <1>4, <1>5, <1>6, <1>7, <1>8, <1>9, <1>10, <1>11, <1>12, <1>13, <1>14, <1>15
          DEF Next, InitStep, MainStep

-----------------------------------------------------------------------------
LEMMA NextAlone == Types /\ AloneInv /\ [Next]_vars => AloneInv'
  <1> SUFFICES ASSUME Types, AloneInv, [Next]_vars, ~overlapped' PROVE Alone'
    BY DEF AloneInv
  <1> USE NotNone
  <1>0. metricsFactory \in Inits \cup {None} /\ overlapped \in BOOLEAN /\ hadServer \subseteq Inits
    BY DEF Types, ApiTypes
  <1>1. Alone
    <2>1. overlapped => overlapped'
      <3>1. ASSUME NEW i \in Inits, InitMetrics(i) \/ InitStep(i) PROVE overlapped => overlapped'
        BY <3>1 DEF InitMetrics, InitStep, ChecksProcessor, CreatesProcessor, StartsProcessor, RegistersProcess, SetsFactory,
             ReadsSession, TagsSession, LabelsSession, Returns
      <3>2. CASE InitSDK \/ ProcessReady \/ Destroy \/ MainStep
        BY <3>2 DEF InitSDK, ProcessReady, Destroy, MainStep, PublishesServer, HandsFactory, StopsServer, Disconnects,
             Forgets, TerminatesMetrics, Clears, apiVars
      <3>3. ASSUME NEW h \in Handlers, Receives(h) \/ HandlerStep(h) PROVE overlapped => overlapped'
        BY <3>3 DEF Receives, HandlerStep, ChecksFactory, CallsFactory, LabelsFactory, BindsSession, apiVars
      <3>4. CASE UNCHANGED vars BY <3>4 DEF vars, apiVars
      <3> QED BY <3>1, <3>2, <3>3, <3>4 DEF Next
    <2> QED BY <2>1 DEF AloneInv
  <1>2. ASSUME UNCHANGED <<main, init, metricsFactory, hadServer, srv, destroyed, stateFactory, started, wsGameLift>>
        PROVE  Alone'
    BY <1>1, <1>2 DEF Alone, InitsIdle
  \* What a step of the call that runs has to show.
  <1>3. ASSUME NEW i \in Inits, NEW here \in Places \ Done, NEW there \in Places, At(i, here, there), there # "none",
               UNCHANGED <<main, hadServer, srv, destroyed, wsGameLift>>,
               there \notin Done => metricsFactory' = None,
               there \in {"reads", "tags", "labels"} => stateFactory' = i,
               there = "returns" /\ i \in hadServer => stateFactory' = i,
               started' => metricsFactory' # None \/ there \in Starting,
               metricsFactory' # None /\ wsGameLift /\ srv => stateFactory' # None
        PROVE  Alone'
    <2>1. init[i] = here /\ \A j \in Inits : init'[j] = IF j = i THEN there ELSE init[j] BY <1>3, OneMoves
    <2>2. main = "app" /\ ~destroyed /\ (i \in hadServer <=> srv) /\ \A j \in Inits : j # i => init[j] \in Done
      BY <1>1, <1>3, <2>1 DEF Alone, InitsIdle
    <2> QED BY <1>1, <1>3, <2>1, <2>2 DEF Alone, InitsIdle, Starting, Done
  <1>4. ASSUME NEW i \in Inits, NEW here \in Places \ Done, init[i] = here
        PROVE  /\ metricsFactory = None /\ (i \in hadServer <=> srv)
               /\ here \in {"reads", "tags", "labels"} => stateFactory = i
               /\ here = "returns" /\ i \in hadServer => stateFactory = i
               /\ started => here \in Starting
    BY <1>1, <1>4 DEF Alone, Starting, Done
  <1>5. ASSUME NEW i \in Inits, InitMetrics(i) PROVE Alone'
    <2>1. main = "app" /\ InitsIdle BY <1>5 DEF InitMetrics
    <2>2. /\ init[i] = "none"
          /\ \A j \in Inits : init'[j] = IF j = i THEN IF metricsFactory # None THEN "error" ELSE "checks" ELSE init[j]
      BY <1>5, OneMoves DEF InitMetrics
    <2>3. /\ UNCHANGED <<main, metricsFactory, srv, stateFactory, started, wsGameLift>> /\ ~destroyed'
          /\ hadServer' = IF srv THEN hadServer \cup {i} ELSE hadServer
      BY <1>5 DEF InitMetrics, stateVars, processorVars
    <2>4. i \notin hadServer BY <1>1, <2>2 DEF Alone
    <2>5. started => metricsFactory # None BY <1>1, <2>1 DEF Alone, InitsIdle, Starting, Done
    <2> QED BY <1>1, <2>1, <2>2, <2>3, <2>4, <2>5 DEF Alone, InitsIdle, Done
  <1>6. ASSUME NEW i \in Inits, InitStep(i) PROVE Alone'
    <2> USE DEF Places, Past, Starting, Done
    <2> DEFINE here == init[i]
    <2>0. ASSUME NEW from \in Places \ Done, NEW there \in Places \ Done, At(i, from, there),
                 UNCHANGED <<main, hadServer, srv, destroyed, wsGameLift, metricsFactory, stateFactory, started>>,
                 from \in Starting => there \in Starting,
                 there \in {"reads", "tags", "labels"} => from \in {"reads", "tags"},
                 there = "returns" => from \in {"labels", "reads"}
          PROVE  Alone'
      <3>1. init[i] = from BY <2>0 DEF At
      <3>2. /\ metricsFactory = None
            /\ from \in {"reads", "tags", "labels"} => stateFactory = i
            /\ started => from \in Starting
        BY <1>4, <2>0, <3>1
      <3> HIDE DEF Starting, Places, Past, Done
      <3>3. there # "none" BY <2>0 DEF Done
      <3> QED BY <1>3, <2>0, <3>2, <3>3 DEF Done
    <2>1. CASE ChecksProcessor(i)
      BY <2>0, <2>1 DEF ChecksProcessor, stateVars, processorVars, mainVars
    <2>2. CASE CreatesProcessor(i)
      BY <2>0, <2>2 DEF CreatesProcessor, stateVars, mainVars
    <2>3. CASE StartsProcessor(i)
      <3>1. At(i, "starts", IF started THEN "fails" ELSE "registers") /\ started' = TRUE
            /\ UNCHANGED <<main, hadServer, srv, destroyed, wsGameLift, metricsFactory, stateFactory>>
        BY <2>3 DEF StartsProcessor, stateVars, mainVars
      <3>2. ~started /\ metricsFactory = None BY <1>4, <3>1 DEF At
      <3>3. At(i, "starts", "registers") BY <3>1, <3>2
      <3> QED BY <1>3, <3>1, <3>2, <3>3
    <2>4. CASE RegistersProcess(i)
      BY <2>0, <2>4 DEF RegistersProcess, stateVars, processorVars, mainVars
    <2>5. CASE SetsFactory(i)
      <3>1. UNCHANGED <<main, hadServer, srv, destroyed, wsGameLift, metricsFactory, started>>
        BY <2>5 DEF SetsFactory, processorVars, mainVars
      <3>2. init[i] = "sets" BY <2>5 DEF SetsFactory, At
      <3>3. metricsFactory = None BY <1>4, <3>2
      <3>4. CASE i \in hadServer
        <4>1. At(i, "sets", "reads") /\ stateFactory' = i BY <2>5, <3>4 DEF SetsFactory, SetsStateFactory
        <4> QED BY <1>3, <3>1, <3>3, <4>1
      <3>5. CASE i \notin hadServer
        <4>1. At(i, "sets", "returns") /\ stateFactory' = stateFactory BY <2>5, <3>5 DEF SetsFactory
        <4> QED BY <1>3, <3>1, <3>3, <3>5, <4>1
      <3> QED BY <3>4, <3>5
    <2>6. CASE ReadsSession(i)
      BY <2>0, <2>6 DEF ReadsSession, stateVars, processorVars, mainVars
    <2>7. CASE TagsSession(i)
      BY <2>0, <2>7 DEF TagsSession, stateVars, processorVars, mainVars
    <2>8. CASE LabelsSession(i)
      BY <2>0, <2>8 DEF LabelsSession, stateVars, mainVars
    <2>9. CASE Returns(i)
      <3>1. UNCHANGED <<main, hadServer, srv, destroyed, wsGameLift, stateFactory, started>>
        BY <2>9 DEF Returns, stateVars, processorVars, mainVars
      <3>2. CASE At(i, "returns", "ok") /\ metricsFactory' = i
        <4>1. init[i] = "returns" BY <3>2 DEF At
        <4>2. srv => stateFactory = i BY <1>4, <4>1
        <4> QED BY <1>3, <3>1, <3>2, <4>2
      <3>3. CASE At(i, "fails", "error") /\ metricsFactory' = None
        <4>1. init[i] = "fails" BY <3>3 DEF At
        <4>2. ~started BY <1>4, <4>1
        <4> QED BY <1>3, <3>1, <3>3, <4>2
      <3> QED BY <2>9, <3>2, <3>3 DEF Returns
    <2> QED BY <1>6, <2>1, <2>2, <2>3, <2>4, <2>5, <2>6, <2>7, <2>8, <2>9 DEF InitStep
  <1>7. CASE InitSDK
    <2>1. InitsIdle /\ main = "app" /\ main' = "publishes" /\ ~srv
          /\ UNCHANGED <<init, metricsFactory, hadServer, srv, destroyed, stateFactory, started>>
      BY <1>7 DEF InitSDK, Main, processorVars
    <2> QED BY <1>1, <2>1 DEF Alone, InitsIdle
  <1>8. CASE Destroy
    <2>1. InitsIdle /\ main = "app" /\ main' \in {"stops", "terminates"} /\ destroyed' = FALSE
          /\ UNCHANGED <<init, metricsFactory, hadServer, srv, stateFactory, started, wsGameLift>>
      BY <1>8 DEF Destroy, Main, processorVars, stateVars
    <2> QED BY <1>1, <2>1 DEF Alone, InitsIdle
  <1>9. CASE ProcessReady BY <1>2, <1>9 DEF ProcessReady, apiVars, processorVars, mainVars
  <1>10. CASE MainStep
    <2>1. InitsIdle /\ UNCHANGED <<init, hadServer>>
      <3>1. main # "app" /\ UNCHANGED <<init, hadServer>>
        BY <1>10 DEF MainStep, PublishesServer, HandsFactory, StopsServer, Disconnects, Forgets, TerminatesMetrics, Clears,
             Main, apiVars
      <3> QED BY <1>1, <3>1 DEF Alone
    <2>2. InitsIdle' BY <2>1 DEF InitsIdle
    \* All inits are idle: three conjuncts are left.
    <2>3. ASSUME started' => metricsFactory' # None, main' = "clears" \/ destroyed' => ~started',
                 metricsFactory' # None /\ wsGameLift' /\ srv' /\ main' # "hands" => stateFactory' # None
          PROVE  Alone'
      BY <1>1, <2>1, <2>2, <2>3 DEF Alone, InitsIdle, Done
    <2>4. /\ started => metricsFactory # None
          /\ main = "clears" \/ destroyed => ~started
          /\ metricsFactory # None /\ wsGameLift /\ srv /\ main # "hands" => stateFactory # None
      BY <1>1, <2>1 DEF Alone, InitsIdle, Starting, Done
    <2>5. CASE PublishesServer
      BY <2>3, <2>4, <2>5 DEF PublishesServer, Main, processorVars, stateVars
    <2>6. CASE HandsFactory
      BY <2>3, <2>4, <2>6 DEF HandsFactory, SetsStateFactory, Main, processorVars, apiVars
    <2>7. CASE StopsServer
      BY <2>3, <2>4, <2>7 DEF StopsServer, Main, processorVars, apiVars
    <2>8. CASE Disconnects
      BY <2>3, <2>4, <2>8 DEF Disconnects, Main, processorVars, stateVars, apiVars
    <2>9. CASE Forgets
      BY <2>3, <2>4, <2>9 DEF Forgets, SetsStateFactory, Main, processorVars, apiVars
    <2>10. CASE TerminatesMetrics
      BY <2>3, <2>4, <2>10 DEF TerminatesMetrics, Main, stateVars, apiVars
    <2>11. CASE Clears
      BY <2>3, <2>4, <2>11 DEF Clears, Main, processorVars, stateVars
    <2> QED BY <1>10, <2>5, <2>6, <2>7, <2>8, <2>9, <2>10, <2>11 DEF MainStep
  <1>11. ASSUME NEW h \in Handlers, Receives(h) \/ HandlerStep(h) PROVE Alone'
    BY <1>2, <1>11
    DEF Receives, HandlerStep, ChecksFactory, CallsFactory, LabelsFactory, BindsSession, apiVars, stateVars, processorVars,
      mainVars
  <1>12. CASE UNCHANGED vars BY <1>2, <1>12 DEF vars, apiVars, stateVars, processorVars, mainVars
  <1> QED BY <1>5, <1>6, <1>7, <1>8, <1>9, <1>10, <1>11, <1>12 DEF Next

-----------------------------------------------------------------------------
LEMMA NextLife == Types /\ LifeInv /\ HandlerInv /\ [Next]_vars => LifeInv'
  <1> SUFFICES ASSUME Types, LifeInv, HandlerInv, [Next]_vars PROVE LifeInv'
    OBVIOUS
  <1>1. ASSUME UNCHANGED <<isReadyProcess, srv, wsGameLift, main, boundNow, gameSessionID>> PROVE LifeInv'
    BY <1>1 DEF LifeInv
  <1>2. ASSUME NEW i \in Inits, InitMetrics(i) PROVE LifeInv'
    BY <1>1, <1>2 DEF InitMetrics, stateVars, handlerVars
  <1>3. ASSUME NEW i \in Inits, InitStep(i) PROVE LifeInv'
    <2>1. UNCHANGED <<isReadyProcess, srv, wsGameLift>>
      BY <1>3 DEF InitStep, ChecksProcessor, CreatesProcessor, StartsProcessor, RegistersProcess, SetsFactory, ReadsSession,
        TagsSession, LabelsSession, Returns, stateVars
    <2>2. UNCHANGED <<main, boundNow, gameSessionID>>
      BY <1>3 DEF InitStep, ChecksProcessor, CreatesProcessor, StartsProcessor, RegistersProcess, SetsFactory, ReadsSession,
        TagsSession, LabelsSession, Returns, stateVars, mainVars, handlerVars
    <2> QED BY <1>1, <2>1, <2>2
  <1>4. CASE InitSDK BY <1>4 DEF LifeInv, InitSDK, Main
  <1>5. CASE ProcessReady BY <1>5 DEF LifeInv, ProcessReady, apiVars, mainVars, handlerVars
  <1>6. CASE Destroy BY <1>6 DEF LifeInv, Destroy, Main, stateVars, handlerVars
  <1>7. CASE MainStep
    <2> USE DEF LifeInv, Main, apiVars, stateVars, handlerVars
    <2>1. CASE PublishesServer BY <2>1 DEF PublishesServer
    <2>2. CASE HandsFactory BY <2>2 DEF HandsFactory
    <2>3. CASE StopsServer BY <2>3 DEF StopsServer
    <2>4. CASE Disconnects BY <2>4 DEF Disconnects
    <2>5. CASE Forgets BY <2>5 DEF Forgets
    <2>6. CASE TerminatesMetrics BY <2>6 DEF TerminatesMetrics
    <2>7. CASE Clears BY <2>7 DEF Clears
    <2> QED BY <1>7, <2>1, <2>2, <2>3, <2>4, <2>5, <2>6, <2>7 DEF MainStep
  <1>8. ASSUME NEW h \in Handlers, Receives(h) \/ HandlerStep(h) PROVE LifeInv'
    <2>1. CASE Receives(h) \/ ChecksFactory(h) \/ CallsFactory(h) \/ LabelsFactory(h)
      BY <1>1, <2>1 DEF Receives, ChecksFactory, CallsFactory, LabelsFactory, apiVars, stateVars, mainVars, handlerVars
    <2>2. CASE BindsSession(h)
      <3>1. UNCHANGED <<isReadyProcess, srv, wsGameLift, main>> BY <2>2 DEF BindsSession, apiVars, mainVars
      <3>2. session[h] # NoSession BY <2>2 DEF BindsSession, Goes, HandlerInv
      <3>3. CASE isReadyProcess BY <2>2, <3>1, <3>2, <3>3 DEF BindsSession, LifeInv
      <3>4. CASE ~isReadyProcess
        <4>1. gameSessionID' = gameSessionID /\ (boundNow' <=> boundNow) BY <2>2, <3>4 DEF BindsSession
        <4> QED BY <3>1, <4>1 DEF LifeInv
      <3> QED BY <3>3, <3>4
    <2> QED BY <1>8, <2>1, <2>2 DEF HandlerStep
  <1>9. CASE UNCHANGED vars BY <1>1, <1>9 DEF vars, apiVars, stateVars, mainVars, handlerVars
  <1> QED BY <1>2, <1>3, <1>4, <1>5, <1>6, <1>7, <1>8, <1>9 DEF Next

-----------------------------------------------------------------------------
(* The state's factory changes only while no handler runs, or that is on   *)
(* record; the crash reporter forgets nothing.                             *)
LEMMA OutsideHandlers ==
    ASSUME Types,
           (\E i \in Inits : InitMetrics(i) \/ InitStep(i)) \/ InitSDK \/ ProcessReady \/ Destroy \/ MainStep
    PROVE  /\ UNCHANGED <<handler, session>> /\ reporter \subseteq reporter'
           /\ raced => raced'
           /\ stateFactory' = stateFactory \/ HandlersIdle \/ raced'
  <1>0. ASSUME raced' = (raced \/ ~HandlersIdle) \/ UNCHANGED <<stateFactory, raced>>
        PROVE  (raced => raced') /\ (stateFactory' = stateFactory \/ HandlersIdle \/ raced')
    <2>1. raced => raced' BY <1>0
    <2>2. stateFactory' = stateFactory \/ HandlersIdle \/ raced' BY <1>0
    <2> QED BY <2>1, <2>2
  <1>1. ASSUME NEW i \in Inits, InitMetrics(i) \/ InitStep(i)
        PROVE  /\ UNCHANGED <<handler, session>> /\ reporter \subseteq reporter'
               /\ raced' = (raced \/ ~HandlersIdle) \/ UNCHANGED <<stateFactory, raced>>
    <2>1. UNCHANGED <<handler, session>> /\ reporter \subseteq reporter'
      BY <1>1 DEF InitMetrics, InitStep, ChecksProcessor, CreatesProcessor, StartsProcessor, RegistersProcess, SetsFactory,
        ReadsSession, TagsSession, LabelsSession, Returns, handlerVars
    <2>2. raced' = (raced \/ ~HandlersIdle) \/ UNCHANGED <<stateFactory, raced>>
      BY <1>1 DEF InitMetrics, InitStep, ChecksProcessor, CreatesProcessor, StartsProcessor, RegistersProcess, SetsFactory,
        SetsStateFactory, ReadsSession, TagsSession, LabelsSession, Returns, stateVars
    <2> QED BY <2>1, <2>2
  <1>2. CASE InitSDK \/ ProcessReady \/ Destroy
    <2>1. UNCHANGED <<handler, session, reporter, stateFactory, raced>>
      BY <1>2 DEF InitSDK, ProcessReady, Destroy, stateVars, handlerVars
    <2> QED BY <1>0, <2>1
  <1>3. CASE MainStep
    <2>1. UNCHANGED <<handler, session, reporter>>
      BY <1>3 DEF MainStep, PublishesServer, HandsFactory, StopsServer, Disconnects, Forgets, TerminatesMetrics, Clears,
        handlerVars
    <2>2. raced' = (raced \/ ~HandlersIdle) \/ UNCHANGED <<stateFactory, raced>>
      BY <1>3 DEF MainStep, PublishesServer, HandsFactory, StopsServer, Disconnects, Forgets, TerminatesMetrics, Clears,
        SetsStateFactory, stateVars
    <2> QED BY <1>0, <2>1, <2>2
  <1> QED BY <1>0, <1>1, <1>2, <1>3

LEMMA NextHandler == Types /\ HandlerInv /\ [Next]_vars => HandlerInv'
  <1> SUFFICES ASSUME Types, HandlerInv, [Next]_vars PROVE HandlerInv'
    OBVIOUS
  <1> USE DEF Told
  <1>1. ASSUME UNCHANGED <<handler, session>>, reporter \subseteq reporter', raced => raced',
               stateFactory' = stateFactory \/ HandlersIdle \/ raced'
        PROVE  HandlerInv'
    BY <1>1 DEF HandlerInv, HandlersIdle
  <1>2. CASE (\E i \in Inits : InitMetrics(i) \/ InitStep(i)) \/ InitSDK \/ ProcessReady \/ Destroy \/ MainStep
    BY <1>1, <1>2, OutsideHandlers
  <1>4. ASSUME NEW h \in Handlers, Receives(h) \/ HandlerStep(h) PROVE HandlerInv'
    <2>0. \A here, there : Goes(h, here, there) =>
             handler[h] = here /\ \A g \in Handlers : handler'[g] = IF g = h THEN there ELSE handler[g]
      BY DEF Goes, Types, HandlerTypes
    <2>1. UNCHANGED <<stateFactory, raced>>
      BY <1>4 DEF Receives, HandlerStep, ChecksFactory, CallsFactory, LabelsFactory, BindsSession, stateVars
    <2>2. CASE Receives(h)
      <3>1. UNCHANGED reporter BY <2>2 DEF Receives
      <3>2. CASE Goes(h, "free", "checks") /\ sessions' = sessions + 1 /\ session' = [session EXCEPT ![h] = sessions + 1]
        <4>1. sessions + 1 # NoSession BY NotNone DEF Types, HandlerTypes, NoSession
        <4> QED BY <2>0, <2>1, <3>1, <3>2, <4>1 DEF HandlerInv, Types, HandlerTypes
      <3>3. CASE Goes(h, "free", "ends") /\ UNCHANGED session BY <2>0, <2>1, <3>1, <3>3 DEF HandlerInv
      <3> QED BY <2>2, <3>2, <3>3 DEF Receives
    <2>3. CASE ChecksFactory(h) BY <2>0, <2>1, <2>3 DEF ChecksFactory, HandlerInv
    <2>4. CASE CallsFactory(h)
      <3>1. UNCHANGED session /\ reporter \subseteq reporter' BY <2>4 DEF CallsFactory
      <3>2. CASE Goes(h, "calls", "labels") /\ (stateFactory # None => <<"tag", session[h]>> \in reporter')
        BY <2>0, <2>1, <3>1, <3>2 DEF HandlerInv
      <3>3. CASE Goes(h, "deregisters", "free") BY <2>0, <2>1, <3>1, <3>3 DEF HandlerInv
      <3> QED BY <2>4, <3>2, <3>3 DEF CallsFactory
    <2>5. CASE LabelsFactory(h) BY <2>0, <2>1, <2>5 DEF LabelsFactory, HandlerInv
    <2>6. CASE BindsSession(h)
      <3>1. \A g \in Handlers : session'[g] = IF g = h THEN NoSession ELSE session[g]
        BY <2>6 DEF BindsSession, Types, HandlerTypes
      <3> QED BY <2>0, <2>1, <2>6, <3>1 DEF BindsSession, HandlerInv
    <2> QED BY <1>4, <2>2, <2>3, <2>4, <2>5, <2>6 DEF HandlerStep
  <1>5. CASE UNCHANGED vars BY <1>1, <1>5 DEF vars, stateVars, handlerVars
  <1> QED BY <1>2, <1>4, <1>5 DEF Next

-----------------------------------------------------------------------------
(* Somebody has read a session that was bound without a factory. *)
Reads(i) == init[i] = "reads" \/ (init[i] = "tags" /\ seen[i] = gameSessionID)

LEMMA NextSession == Types /\ LifeInv /\ HandlerInv /\ SessionInv /\ [Next]_vars => SessionInv'
  <1> SUFFICES ASSUME Types, LifeInv, HandlerInv, SessionInv, [Next]_vars, ~raced', boundNow', stateFactory' # None
               PROVE  <<"tag", gameSessionID'>> \in reporter' \/ \E i \in Inits : Reads(i)'
    BY DEF SessionInv, Reads
  <1> DEFINE Goal == <<"tag", gameSessionID'>> \in reporter' \/ \E i \in Inits : Reads(i)'
  <1>1. ASSUME boundNow, stateFactory # None, ~raced, gameSessionID' = gameSessionID, reporter \subseteq reporter',
               \A i \in Inits : Reads(i) => Reads(i)' \/ <<"tag", gameSessionID>> \in reporter'
        PROVE  Goal
    BY <1>1 DEF SessionInv, Reads
  <1>2. ASSUME UNCHANGED <<boundNow, stateFactory, gameSessionID, init, seen>>, raced => raced', reporter \subseteq reporter'
        PROVE  Goal
    BY <1>1, <1>2 DEF Reads
  <1>3. ASSUME NEW i \in Inits, NEW here \in Places \ {"reads", "tags"}, NEW there, At(i, here, there),
               UNCHANGED <<boundNow, stateFactory, gameSessionID, seen>>, raced => raced', reporter \subseteq reporter'
        PROVE  Goal
    <2>1. init[i] = here /\ \A j \in Inits : init'[j] = IF j = i THEN there ELSE init[j] BY <1>3, OneMoves
    <2>2. \A j \in Inits : Reads(j) => Reads(j)' BY <1>3, <2>1 DEF Reads
    <2> QED BY <1>1, <1>3, <2>2
  <1>4. ASSUME NEW i \in Inits, InitMetrics(i) PROVE Goal
    <2>1. UNCHANGED <<boundNow, stateFactory, gameSessionID, seen, raced, reporter>>
      BY <1>4 DEF InitMetrics, stateVars, handlerVars
    <2>2. \E there \in {"error", "checks"} : At(i, "none", there) BY <1>4 DEF InitMetrics
    <2> QED BY <1>3, <2>1, <2>2 DEF Places, Done
  <1>5. ASSUME NEW i \in Inits, ChecksProcessor(i) \/ CreatesProcessor(i) \/ Returns(i) PROVE Goal
    <2>1. UNCHANGED <<boundNow, stateFactory, gameSessionID, seen, raced, reporter>>
      BY <1>5 DEF ChecksProcessor, CreatesProcessor, Returns, stateVars, handlerVars
    <2> QED BY <1>3, <1>5, <2>1 DEF ChecksProcessor, CreatesProcessor, Returns, Places, Past, Starting
  <1>6. ASSUME NEW i \in Inits, StartsProcessor(i) \/ RegistersProcess(i) \/ LabelsSession(i) PROVE Goal
    <2>1. UNCHANGED <<boundNow, stateFactory, gameSessionID, seen, raced>> /\ reporter \subseteq reporter'
      BY <1>6 DEF StartsProcessor, RegistersProcess, LabelsSession, stateVars, handlerVars
    <2> QED BY <1>3, <1>6, <2>1 DEF StartsProcessor, RegistersProcess, LabelsSession, Places, Past, Starting
  <1>7. ASSUME NEW i \in Inits, SetsFactory(i) PROVE Goal
    <2>1. UNCHANGED <<boundNow, gameSessionID, seen, reporter>> BY <1>7 DEF SetsFactory, handlerVars
    <2>2. CASE i \in hadServer
      <3>1. init'[i] = "reads" BY <1>7, <2>2, OneMoves DEF SetsFactory
      <3> QED BY <3>1 DEF Reads
    <2>3. CASE i \notin hadServer
      <3>1. At(i, "sets", "returns") /\ UNCHANGED <<stateFactory, raced>> BY <1>7, <2>3 DEF SetsFactory
      <3> QED BY <1>3, <2>1, <3>1 DEF Places, Past, Starting
    <2> QED BY <2>2, <2>3
  <1>8. ASSUME NEW i \in Inits, ReadsSession(i) PROVE Goal
    <2>1. UNCHANGED <<boundNow, gameSessionID>> BY <1>8 DEF ReadsSession, stateVars, handlerVars
    <2>2. gameSessionID # NoSession BY <2>1 DEF LifeInv
    <2>3. At(i, "reads", "tags") BY <1>8, <2>2 DEF ReadsSession
    <2>4. init'[i] = "tags" BY <2>3, OneMoves
    <2>5. seen'[i] = gameSessionID BY <1>8 DEF ReadsSession, Types, ApiTypes
    <2> QED BY <2>1, <2>4, <2>5 DEF Reads
  <1>9. ASSUME NEW i \in Inits, TagsSession(i) PROVE Goal
    <2>1. UNCHANGED <<boundNow, stateFactory, gameSessionID, seen, raced>>
          /\ reporter' = reporter \cup {<<"tag", seen[i]>>}
      BY <1>9 DEF TagsSession, stateVars, handlerVars
    <2>2. init[i] = "tags" /\ \A j \in Inits : j # i => init'[j] = init[j] BY <1>9, OneMoves DEF TagsSession
    <2>3. \A j \in Inits : Reads(j) => Reads(j)' \/ <<"tag", gameSessionID>> \in reporter' BY <2>1, <2>2 DEF Reads
    <2> QED BY <1>1, <2>1, <2>3
  <1>10. CASE InitSDK BY <1>10 DEF InitSDK
  <1>11. CASE ProcessReady \/ Destroy
    <2>1. UNCHANGED <<boundNow, stateFactory, gameSessionID, init, seen, raced, reporter>>
      BY <1>11 DEF ProcessReady, Destroy, apiVars, stateVars, handlerVars
    <2> QED BY <1>2, <2>1
  <1>12. CASE HandsFactory
    <2>1. ~boundNow BY <1>12 DEF HandsFactory, Main, LifeInv
    <2> QED BY <1>12, <2>1 DEF HandsFactory, handlerVars
  <1>13. CASE Forgets BY <1>13 DEF Forgets, SetsStateFactory
  <1>14. CASE PublishesServer \/ StopsServer \/ Disconnects \/ TerminatesMetrics \/ Clears
    <2>1. UNCHANGED <<boundNow, stateFactory, gameSessionID, init, seen, raced, reporter>>
      BY <1>14 DEF PublishesServer, StopsServer, Disconnects, TerminatesMetrics, Clears, apiVars, stateVars, handlerVars
    <2> QED BY <1>2, <2>1
  <1>15. ASSUME NEW h \in Handlers, Receives(h) \/ ChecksFactory(h) \/ CallsFactory(h) \/ LabelsFactory(h) PROVE Goal
    <2>1. UNCHANGED <<boundNow, stateFactory, gameSessionID, init, seen, raced>> /\ reporter \subseteq reporter'
      BY <1>15 DEF Receives, ChecksFactory, CallsFactory, LabelsFactory, apiVars, stateVars, handlerVars
    <2> QED BY <1>2, <2>1
  <1>16. ASSUME NEW h \in Handlers, BindsSession(h) PROVE Goal
    <2>1. UNCHANGED <<stateFactory, init, seen, raced, reporter>> /\ handler[h] = "binds"
      BY <1>16 DEF BindsSession, apiVars, Goes
    <2>2. CASE isReadyProcess
      <3>1. Told(h) BY <2>1 DEF HandlerInv
      <3> QED BY <1>16, <2>1, <2>2, <3>1 DEF BindsSession, Told
    <2>3. CASE ~isReadyProcess
      <3>1. gameSessionID' = gameSessionID /\ boundNow BY <1>16, <2>3 DEF BindsSession
      <3>2. \A i \in Inits : Reads(i) => Reads(i)' BY <2>1, <3>1 DEF Reads
      <3> QED BY <1>1, <2>1, <3>1, <3>2
    <2> QED BY <2>2, <2>3
  <1>17. CASE UNCHANGED vars BY <1>2, <1>17 DEF vars, apiVars, stateVars, handlerVars
  <1> QED BY <1>4, <1>5, <1>6, <1>7, <1>8, <1>9, <1>10, <1>11, <1>12, <1>13, <1>14, <1>15, <1>16, <1>17
          DEF Next, InitStep, MainStep, HandlerStep

-----------------------------------------------------------------------------
LEMMA InductiveInvariant == Spec => []IInv
  <1>1. IInv /\ [Next]_vars => IInv'
    BY TypeParts, NextTypes, NextOwner, NextAlone, NextLife, NextHandler, NextSession DEF IInv
  <1> QED BY <1>1, InitIInv, PTL DEF Spec

(* The state that InitMetrics, InitSDK, Destroy and the handlers share is  *)
(* well typed, however they overlap.                                       *)
THEOREM LifecycleTypeCorrect == Spec => []TypeOK
  <1>1. IInv => TypeOK BY DEF IInv
  <1> QED BY <1>1, InductiveInvariant, PTL

(* However many goroutines call InitMetrics, and whatever Destroy does in  *)
(* between, one call at most gets past the sync.Once of global.go, and the *)
(* processor it goes on with is its own.                                   *)
THEOREM OneWinnerOwnsProcessor ==
    Spec => [](WinnerOwnsProcessor /\ \A i, j \in Inits : init[i] \in Past /\ init[j] \in Past => i = j)
  <1>1. IInv => WinnerOwnsProcessor /\ \A i, j \in Inits : init[i] \in Past /\ init[j] \in Past => i = j
    BY DEF IInv, OwnerInv, WinnerOwnsProcessor, Past, Starting
  <1> QED BY <1>1, InductiveInvariant, PTL

(* The API never keeps a factory whose processor is stopped, but for the   *)
(* end of Destroy; and once Destroy has returned nil the processor is      *)
(* stopped, unless InitMetrics overlapped another call.                    *)
THEOREM FactoryHasProcessor == Spec => []ProcessorFollowsFactory
  <1>1. IInv => ProcessorFollowsFactory BY DEF IInv, OwnerInv, AloneInv, Alone, ProcessorFollowsFactory
  <1> QED BY <1>1, InductiveInvariant, PTL

(* Whether InitMetrics, InitSDK or the game session comes first, the crash *)
(* reporter learns of the session that the process has, unless the factory *)
(* of the state changes in the middle of a handler.                        *)
THEOREM SessionReachesReporter == Spec => []SessionIsReported
  <1>1. IInv => SessionIsReported
    <2> SUFFICES ASSUME IInv, boundNow, stateFactory # None \/ ShouldHaveFactory, InitsIdle, ~raced
                 PROVE  <<"tag", gameSessionID>> \in reporter
      BY DEF SessionIsReported
    <2>1. stateFactory # None
      BY DEF IInv, AloneInv, Alone, LifeInv, ShouldHaveFactory
    <2>2. \A i \in Inits : init[i] \notin {"reads", "tags"} BY DEF InitsIdle, Done
    <2> QED BY <2>1, <2>2 DEF IInv, SessionInv
  <1> QED BY <1>1, InductiveInvariant, PTL
=============================================================================
