------------------------ MODULE MetricRegistryProofs ------------------------
(***************************************************************************)
(* That what is reported carries tags that its metric had, and that        *)
(* statistics are not mixed but by a builder that builds twice or by       *)
(* derived metrics that cannot be cloned (base_metric.go, processor.go),   *)
(* for any number of goroutines, workers, instances, values and changes,   *)
(* and any tags.  That a value which is sent is counted by then, unless a  *)
(* race of HandleMessage wiped it.                                         *)
(***************************************************************************)
EXTENDS MetricRegistry, TLAPS

-----------------------------------------------------------------------------
(* The inductive invariant. *)

\* What the type invariant leaves out: what a goroutine is busy with.
BusyOK ==
    /\ \A a \in App :
         /\ pc[a] \in {"sets", "tags"} =>
              /\ DOMAIN todo[a] \subseteq TagKeys
              /\ \A k \in DOMAIN todo[a] :
                   todo[a][k] \in MetricValues \cup {Invalid, None}
         /\ pc[a] \in {"handles", "writes", "enqueues"} => message[a] \in Message
    /\ \A n \in 1..recorded : log[n] \in Message
    /\ settled \in [Metrics -> SUBSET Tags]
    /\ todo = [a \in App |-> todo[a]] /\ message = [a \in App |-> message[a]]

\* A goroutine that sets the tags of an instance holds their lock.
LockInv ==
    \A a \in App : /\ pc[a] = "sets" => writer[target[a]] = a
                   /\ pc[a] \in {"sets", "tags"} => target[a] <= made

\* Who takes the lock finds tags that the instance had with no call changing them.
SettledInv ==
    \A i \in Metrics :
        i <= made /\ writer[i] = None /\ i \notin torn => tags[i] \in settled[i]

\* The message of a value has tags that its metric had, and so has a statistic.
LogInv ==
    \A n \in 1..recorded :
        /\ log[n].value = n /\ log[n].metric <= made
        /\ log[n].metric \notin torn => log[n].tags \in settled[log[n].metric]
CountedInv ==
    \A e \in counted :
        /\ e.metric \in Metrics /\ e.metric <= made
        /\ e.metric \notin torn => e.tags \in settled[e.metric]

\* A goroutine still has the message that it made.
MessageInv ==
    \A a \in App : pc[a] \in {"handles", "writes", "enqueues"} =>
        /\ message[a].value \in 1..recorded
        /\ message[a] = log[message[a].value]

\* The derived metrics of an instance are its builder's, but those of a variant
\* its own if they can be cloned.
DerivedInv ==
    /\ \A i \in Metrics : i <= made =>
         /\ derived[i] = IF cloneable /\ i \in variants THEN i ELSE builder[i]
         /\ builder[i] <= made /\ builder[i] \notin variants
    /\ \A i \in variants : i <= made

\* The values V come from instances that feed the derived metrics d.
FromDerived(V, d) ==
    \A n \in V : n \in 1..recorded /\ derived[log[n].metric] = d

\* Derived metrics gather the values of the instances that feed them only: in
\* place, in a goroutine that handles a message, in a worker that emits, and in
\* what was emitted.
StatisticsInv ==
    /\ \A d \in Metrics : FromDerived(gathered[d], d)
    /\ \A a \in App : pc[a] = "writes" =>
         FromDerived(read[a], derived[message[a].metric])
    /\ \A w \in Workers : worker[w] = "resets" =>
         FromDerived(taken[w], derived[at[w]]) /\ at[w] <= made
    /\ \A w \in Workers : \A i \in left[w] : i <= made
    /\ \A e \in counted : FromDerived(e.values, derived[e.metric])

IInv == TypeOK /\ BusyOK /\ LockInv /\ SettledInv /\ LogInv /\ MessageInv
            /\ CountedInv /\ DerivedInv /\ StatisticsInv

-----------------------------------------------------------------------------
(* Types, one group of variables at a time. *)

RegistryTypes ==
    /\ dimensional \in BOOLEAN /\ cloneable \in BOOLEAN /\ crashed \in BOOLEAN
    /\ made \in 0..MaxMetrics
    /\ tags \in [Metrics -> Tags] /\ builderTags \in [Metrics -> Tags]
    /\ writer \in [Metrics -> App \cup {None}]
    /\ builder \in [Metrics -> Metrics] /\ derived \in [Metrics -> Metrics]
    /\ MetricMap \in [Tags -> 0..made]
    /\ variants \subseteq Metrics /\ torn \subseteq Metrics
BoundTypes == changes \in 0..MaxChanges /\ globalTags \in GlobalTags
SetterTypes ==
    /\ pc \in [App -> {"idle", "sets", "tags", "handles", "writes", "enqueues"}]
    /\ target \in [App -> Metrics] /\ read \in [App -> SUBSET Values]
    /\ \A a \in App : message[a] = None \/ message[a] \in Message
    /\ recorded \in 0..MaxValues
FlushTypes ==
    /\ underway \subseteq Message
    /\ batch \in [Workers -> SUBSET Message]
    /\ snapshot \in [Workers -> GlobalTags]
    /\ shed \subseteq Values
EmissionTypes ==
    /\ worker \in [Workers -> {"idle", "emits", "emitting", "resets", "sends"}]
    /\ mtx \in Workers \cup {None} /\ left \in [Workers -> SUBSET Metrics]
    /\ at \in [Workers -> Metrics] /\ taken \in [Workers -> SUBSET Values]
StatisticsTypes ==
    gathered \in [Metrics -> SUBSET Values] /\ overlapped \subseteq Values

LEMMA TypeParts ==
    /\ TypeOK <=> RegistryTypes /\ BoundTypes /\ SetterTypes /\ FlushTypes
                    /\ EmissionTypes /\ StatisticsTypes
    /\ TypeOK' <=> RegistryTypes' /\ BoundTypes' /\ SetterTypes' /\ FlushTypes'
                     /\ EmissionTypes' /\ StatisticsTypes'
  BY DEF TypeOK, RegistryTypes, BoundTypes, SetterTypes, FlushTypes,
         EmissionTypes, StatisticsTypes

LEMMA UnchangedTypes ==
    /\ RegistryTypes /\ UNCHANGED <<modes, registry>> => RegistryTypes'
    /\ BoundTypes /\ UNCHANGED <<changes, globalTags>> => BoundTypes'
    /\ SetterTypes /\ UNCHANGED setters => SetterTypes'
    /\ FlushTypes /\ UNCHANGED <<underway, batch, snapshot, shed>> => FlushTypes'
    /\ EmissionTypes /\ UNCHANGED <<worker, emission>> => EmissionTypes'
    /\ UNCHANGED pipeline => UNCHANGED <<underway, batch, snapshot, shed, worker,
                                         emission>>
    /\ StatisticsTypes /\ UNCHANGED statistics => StatisticsTypes'
  BY DEF RegistryTypes, BoundTypes, SetterTypes, FlushTypes, EmissionTypes,
         StatisticsTypes, modes, registry, instances, setters, recording,
         pipeline, emission, statistics

\* What the invariant says of the variables that the pipeline does not change.
RecordInv == BusyOK /\ LockInv /\ SettledInv /\ LogInv /\ MessageInv /\ DerivedInv

LEMMA RecordFrame ==
    ASSUME RecordInv, UNCHANGED <<modes, registry, setters>>
    PROVE  RecordInv'
  BY DEF RecordInv, BusyOK, LockInv, SettledInv, LogInv, MessageInv, DerivedInv,
         modes, registry, instances, setters, recording

\* Statistics stay what they are while values are recorded, ...
LEMMA StatisticsFrame ==
    ASSUME StatisticsInv, UNCHANGED <<made, derived, gathered, counted, read>>,
           UNCHANGED <<worker, left, at, taken>>,
           \A n \in 1..recorded : n \in 1..recorded' /\ log'[n] = log[n],
           \A a \in App : pc'[a] = "writes" =>
               pc[a] = "writes" /\ message'[a] = message[a]
    PROVE  StatisticsInv'
  BY DEF StatisticsInv, FromDerived

\* ... and their tags while tags are set.
LEMMA CountedFrame ==
    ASSUME CountedInv, UNCHANGED <<made, counted, torn>>,
           \A i \in Metrics : settled[i] \subseteq settled'[i]
    PROVE  CountedInv'
  BY DEF CountedInv

LEMMA DerivedFrame ==
    ASSUME DerivedInv, UNCHANGED <<modes, instances>>  PROVE DerivedInv'
  BY DEF DerivedInv, modes, instances

LEMMA TagTypes ==
    /\ NoTags \in Tags
    /\ \A t \in Tags : CompositeKey(t) \in Tags
    /\ \A t \in Tags, T \in NewTags : WithAll(t, T) \in Tags
    /\ NoTags \in GlobalTags
  <1>1. NoTags \in Tags /\ NoTags \in GlobalTags
    BY DEF NoTags, Tags, GlobalTags
  <1>2. \A t \in Tags : CompositeKey(t) \in Tags
    BY <1>1 DEF CompositeKey
  <1>3. ASSUME NEW t \in Tags, NEW T \in NewTags  PROVE WithAll(t, T) \in Tags
    BY RegistryAssumption DEF WithAll, Tags
  <1>4. QED  BY <1>1, <1>2, <1>3

LEMMA InitIInv == ASSUME Init PROVE IInv
  <1>1. TypeOK
    <2>1. RegistryTypes
      <3>1. /\ MetricMap \in [Tags -> 0..made] /\ tags \in [Metrics -> Tags]
            /\ builderTags \in [Metrics -> Tags]
        BY TagTypes DEF Init
      <3>2. /\ writer \in [Metrics -> App \cup {None}]
            /\ builder \in [Metrics -> Metrics]
            /\ derived \in [Metrics -> Metrics]
        BY DEF Init
      <3>3. made \in 0..MaxMetrics  BY RegistryAssumption DEF Init
      <3>4. /\ dimensional \in BOOLEAN /\ cloneable \in BOOLEAN
            /\ crashed \in BOOLEAN
            /\ variants \subseteq Metrics /\ torn \subseteq Metrics
        BY DEF Init
      <3>5. QED  BY <3>1, <3>2, <3>3, <3>4, Zenon DEF RegistryTypes
    <2>2. BoundTypes
      BY RegistryAssumption, TagTypes DEF Init, BoundTypes
    <2>3. SetterTypes
      BY RegistryAssumption DEF Init, SetterTypes, Metrics
    <2>4. FlushTypes  BY TagTypes DEF Init, FlushTypes
    <2>5. EmissionTypes
      BY RegistryAssumption DEF Init, EmissionTypes, Metrics
    <2>6. StatisticsTypes  BY DEF Init, StatisticsTypes
    <2>7. QED  BY <2>1, <2>2, <2>3, <2>4, <2>5, <2>6, TypeParts
  <1>2. BusyOK /\ LockInv /\ MessageInv
    BY DEF Init, BusyOK, LockInv, MessageInv
  <1>3. SettledInv /\ DerivedInv
    <2>1. made = 0 /\ \A i \in Metrics : ~(i <= made)
      BY DEF Init, Metrics
    <2>2. QED  BY <2>1 DEF Init, SettledInv, DerivedInv
  <1>4. LogInv /\ CountedInv  BY DEF Init, LogInv, CountedInv
  <1>5. StatisticsInv  BY DEF Init, StatisticsInv, FromDerived
  <1>6. QED  BY <1>1, <1>2, <1>3, <1>4, <1>5 DEF IInv

-----------------------------------------------------------------------------
(* The registry. *)

\* A new instance, made by a builder b or from another instance.
LEMMA MakeStep ==
    ASSUME IInv, made < MaxMetrics, NEW t \in Tags, NEW S \in SUBSET Tags,
           NEW b \in 1..made + 1, NEW d,
           Make(made + 1, t, S),
           MetricMap' = MapWith(made + 1, t) \/ UNCHANGED MetricMap,
           builder' = [builder EXCEPT ![made + 1] = b], b \notin variants',
           derived' = [derived EXCEPT ![made + 1] = d],
           d = IF cloneable /\ made + 1 \in variants' THEN made + 1 ELSE b,
           variants' \in {variants, variants \cup {made + 1}},
           torn' \in {torn, torn \cup {made + 1}},
           made + 1 \notin torn' => t \in S,
           builderTags' \in [Metrics -> Tags], crashed' \in BOOLEAN,
           UNCHANGED <<modes, writer, setters, pipeline, statistics, globalTags,
                       changes>>
    PROVE  IInv'
  <1> USE DEF IInv
  <1>1. /\ made \in 0..MaxMetrics /\ made + 1 \in Metrics
        /\ made + 1 \in 0..MaxMetrics /\ made' = made + 1
        /\ tags' = [tags EXCEPT ![made + 1] = t]
        /\ settled' = [settled EXCEPT ![made + 1] = S]
        /\ b \in Metrics /\ d \in Metrics
    BY RegistryAssumption DEF TypeOK, Make, Metrics
  <1>2. UNCHANGED <<pc, target, todo, message, read, recorded, log, writer,
                    cloneable, worker, left, at, taken, gathered, counted>>
    BY DEF setters, recording, modes, pipeline, emission, statistics
  <1>3. \A i \in Metrics : i <= made =>
          /\ i # made + 1 /\ i <= made + 1
          /\ tags'[i] = tags[i] /\ settled'[i] = settled[i]
          /\ derived'[i] = derived[i] /\ builder'[i] = builder[i]
          /\ (i \in torn' <=> i \in torn) /\ (i \in variants' <=> i \in variants)
    <2>1. /\ tags \in [Metrics -> Tags] /\ settled \in [Metrics -> SUBSET Tags]
          /\ derived \in [Metrics -> Metrics] /\ builder \in [Metrics -> Metrics]
      BY DEF TypeOK, BusyOK
    <2>2. SUFFICES ASSUME NEW i \in Metrics, i <= made
                   PROVE  /\ i # made + 1 /\ i <= made + 1
                          /\ tags'[i] = tags[i] /\ settled'[i] = settled[i]
                          /\ derived'[i] = derived[i] /\ builder'[i] = builder[i]
                          /\ i \in torn' <=> i \in torn
                          /\ i \in variants' <=> i \in variants
      OBVIOUS
    <2>3. i # made + 1 /\ i <= made + 1  BY <1>1, <2>2 DEF Metrics
    <2>4. QED  BY <1>1, <2>1, <2>3
  <1>4. TypeOK'
    <2>1. MetricMap' \in [Tags -> 0..made']
      <3>1. MetricMap \in [Tags -> 0..made] /\ CompositeKey(t) \in Tags
        BY TagTypes DEF TypeOK
      <3>2. \A n \in 0..made : n \in 0..made'
        BY <1>1
      <3>3. made + 1 \in 0..made'  BY <1>1
      <3>4. QED  BY <3>1, <3>2, <3>3 DEF MapWith
    <2>2. variants' \subseteq Metrics /\ torn' \subseteq Metrics
      BY <1>1 DEF TypeOK
    <2>3. /\ builder' \in [Metrics -> Metrics] /\ derived' \in [Metrics -> Metrics]
          /\ tags' \in [Metrics -> Tags]
      BY <1>1 DEF TypeOK
    <2>4. RegistryTypes'
      BY <1>1, <1>2, <2>1, <2>2, <2>3 DEF TypeOK, RegistryTypes, modes
    <2>5. QED
      BY <2>4, TypeParts, UnchangedTypes
  <1>5. BusyOK'
    <2>1. settled' \in [Metrics -> SUBSET Tags]  BY <1>1 DEF BusyOK
    <2>2. QED  BY <1>2, <2>1 DEF BusyOK
  <1>6. LockInv'
    <2>1. ASSUME NEW a \in App, pc[a] \in {"sets", "tags"}
          PROVE  target[a] <= made + 1
      <3>1. target[a] <= made /\ target[a] \in Nat
        BY <2>1 DEF LockInv, TypeOK, Metrics
      <3>2. QED  BY <1>1, <3>1
    <2>2. QED  BY <1>1, <1>2, <2>1 DEF LockInv
  <1>7. SettledInv'
    <2>1. SUFFICES ASSUME NEW i \in Metrics, i <= made + 1, writer[i] = None,
                          i \notin torn'
                   PROVE  tags'[i] \in settled'[i]
      BY <1>1, <1>2 DEF SettledInv
    <2>2. CASE i = made + 1
      BY <1>1, <2>1, <2>2 DEF TypeOK, BusyOK
    <2>3. CASE i # made + 1
      <3>1. i <= made  BY <1>1, <2>1, <2>3 DEF Metrics
      <3>2. QED  BY <1>3, <2>1, <3>1 DEF SettledInv
    <2>4. QED  BY <2>2, <2>3
  <1>8. LogInv'
    <2>1. SUFFICES ASSUME NEW n \in 1..recorded
                   PROVE  /\ log[n].value = n /\ log[n].metric <= made + 1
                          /\ log[n].metric \notin torn' =>
                               log[n].tags \in settled'[log[n].metric]
      BY <1>1, <1>2 DEF LogInv
    <2>2. /\ log[n].value = n /\ log[n].metric <= made
          /\ log[n].metric \notin torn => log[n].tags \in settled[log[n].metric]
          /\ log[n].metric \in Metrics
      BY DEF LogInv, BusyOK, Message
    <2>3. QED  BY <1>3, <2>2
  <1>9. MessageInv'  BY <1>2 DEF MessageInv
  <1>10. CountedInv'
    BY <1>1, <1>2, <1>3 DEF CountedInv
  <1>11. DerivedInv'
    <2>1. ASSUME NEW i \in Metrics, i <= made + 1
          PROVE  /\ derived'[i] = IF cloneable /\ i \in variants' THEN i
                                  ELSE builder'[i]
                 /\ builder'[i] <= made + 1 /\ builder'[i] \notin variants'
      <3>1. CASE i = made + 1
        <4>1. derived'[i] = d /\ builder'[i] = b  BY <1>1, <3>1 DEF TypeOK
        <4>2. b <= made + 1  BY <1>1
        <4>3. QED  BY <3>1, <4>1, <4>2
      <3>2. CASE i # made + 1
        <4>1. i <= made  BY <1>1, <2>1, <3>2 DEF Metrics
        <4>2. builder[i] \in Metrics /\ builder[i] <= made
              /\ builder[i] \notin variants
          BY <4>1 DEF DerivedInv, TypeOK
        <4>3. builder[i] \notin variants' /\ builder[i] <= made + 1
          BY <1>3, <4>2
        <4>4. derived'[i] = derived[i] /\ builder'[i] = builder[i]
                /\ (i \in variants' <=> i \in variants)
          BY <1>3, <4>1
        <4>5. derived[i] = IF cloneable /\ i \in variants THEN i ELSE builder[i]
          BY <4>1 DEF DerivedInv
        <4>6. QED  BY <4>3, <4>4, <4>5
      <3>3. QED  BY <3>1, <3>2
    <2>2. \A i \in variants' : i <= made + 1
      <3>1. \A i \in variants : i \in Metrics /\ i <= made
        BY DEF DerivedInv, TypeOK
      <3>2. made + 1 <= made + 1  BY <1>1
      <3>3. QED  BY <1>3, <3>1, <3>2
    <2>3. QED  BY <1>1, <1>2, <2>1, <2>2 DEF DerivedInv
  <1>12. StatisticsInv'
    <2>1. \A n \in 1..recorded : derived'[log[n].metric] = derived[log[n].metric]
      BY <1>3 DEF LogInv, BusyOK, Message
    <2>2. ASSUME NEW V, NEW x, FromDerived(V, x)
          PROVE  \A n \in V : n \in 1..recorded /\ derived'[log[n].metric] = x
      BY <2>1, <2>2 DEF FromDerived
    <2>3. \A x \in Metrics : \A n \in gathered[x] :
            n \in 1..recorded /\ derived'[log[n].metric] = x
      BY <2>2 DEF StatisticsInv
    <2>4. ASSUME NEW a \in App, pc[a] = "writes"
          PROVE  \A n \in read[a] : /\ n \in 1..recorded
                   /\ derived'[log[n].metric] = derived'[message[a].metric]
      <3>1. derived'[message[a].metric] = derived[message[a].metric]
        BY <2>1, <2>4 DEF MessageInv
      <3>2. QED  BY <2>2, <2>4, <3>1 DEF StatisticsInv
    <2>5. ASSUME NEW w \in Workers, worker[w] = "resets"
          PROVE  /\ at[w] <= made + 1
                 /\ \A n \in taken[w] : /\ n \in 1..recorded
                      /\ derived'[log[n].metric] = derived'[at[w]]
      <3>1. at[w] \in Metrics /\ at[w] <= made
        BY <2>5 DEF StatisticsInv, TypeOK
      <3>2. at[w] <= made + 1 /\ derived'[at[w]] = derived[at[w]]
        BY <1>3, <3>1
      <3>3. QED  BY <2>2, <2>5, <3>2 DEF StatisticsInv
    <2>6. ASSUME NEW w \in Workers, NEW i \in left[w]
          PROVE  i <= made + 1
      <3>1. i \in Metrics /\ i <= made  BY DEF StatisticsInv, TypeOK
      <3>2. QED  BY <1>3, <3>1
    <2>7. ASSUME NEW e \in counted
          PROVE  \A n \in e.values : /\ n \in 1..recorded
                   /\ derived'[log[n].metric] = derived'[e.metric]
      <3>1. derived'[e.metric] = derived[e.metric]
        BY <1>3 DEF CountedInv
      <3>2. QED  BY <2>2, <3>1 DEF StatisticsInv
    <2>8. QED
      BY <1>1, <1>2, <2>3, <2>4, <2>5, <2>6, <2>7 DEF StatisticsInv, FromDerived
  <1>13. QED
    BY <1>4, <1>5, <1>6, <1>7, <1>8, <1>9, <1>10, <1>11, <1>12

LEMMA BuildStep ==
    ASSUME IInv, NEW a \in App,
           Build(a) \/ \E i \in Metrics : WithTags(a, i) \/ WithDimensionalTags(a, i)
    PROVE  IInv'
  <1>1. /\ made \in 0..MaxMetrics /\ variants \subseteq Metrics
        /\ builder \in [Metrics -> Metrics]
        /\ builderTags \in [Metrics -> Tags] /\ tags \in [Metrics -> Tags]
        /\ settled \in [Metrics -> SUBSET Tags]
    BY DEF IInv, TypeOK, BusyOK
  <1>2. /\ made + 1 \notin variants
        /\ \A i \in Metrics : i <= made =>
             /\ builder[i] \in 1..made + 1 /\ builder[i] # made + 1
             /\ builder[i] \notin variants
    BY <1>1 DEF IInv, DerivedInv, Metrics
  <1>3. CASE Build(a)
    <2>b. PICK b \in {made + 1} \cup {builder[j] : j \in 1..made} :
            \E t \in {builderTags[b]}
                       \cup {WithAll(builderTags[b], T) : T \in NewTags} :
              /\ Make(made + 1, t, {t})
              /\ MetricMap' = MapWith(made + 1, t)
              /\ builder' = [builder EXCEPT ![made + 1] = b]
              /\ builderTags' = [builderTags EXCEPT ![b] = t]
              /\ derived' = [derived EXCEPT ![made + 1] = b]
      BY <1>3 DEF Build
    <2>1. PICK t \in {builderTags[b]}
                       \cup {WithAll(builderTags[b], T) : T \in NewTags} :
            /\ Make(made + 1, t, {t})
            /\ MetricMap' = MapWith(made + 1, t)
            /\ builder' = [builder EXCEPT ![made + 1] = b]
            /\ builderTags' = [builderTags EXCEPT ![b] = t]
            /\ derived' = [derived EXCEPT ![made + 1] = b]
      BY <2>b
    <2>2. /\ made < MaxMetrics
          /\ UNCHANGED <<modes, writer, variants, torn, crashed, setters,
                         pipeline, statistics, globalTags, changes>>
      BY <1>3 DEF Build
    <2>3. b \in 1..made + 1 /\ b \notin variants'
      <3>1. 1..made \subseteq Metrics /\ \A j \in 1..made : j <= made
        BY <1>1, RegistryAssumption DEF Metrics
      <3>2. made + 1 \in 1..made + 1  BY <1>1
      <3>3. QED  BY <1>2, <2>1, <2>2, <3>1, <3>2
    <2>4. b \in Metrics
      BY <1>1, <2>2, <2>3, RegistryAssumption DEF Metrics
    <2>5. t \in Tags  BY <1>1, <2>1, <2>4, TagTypes
    <2>6. builderTags' \in [Metrics -> Tags]  BY <1>1, <2>1, <2>5
    <2>7. crashed' \in BOOLEAN  BY <2>2 DEF IInv, TypeOK
    <2>8. b = IF cloneable /\ made + 1 \in variants' THEN made + 1 ELSE b
      BY <1>2, <2>2
    <2>9. t \in {t} /\ {t} \in SUBSET Tags  BY <2>5
    <2>10. QED
      BY <2>1, <2>2, <2>3, <2>5, <2>6, <2>7, <2>8, <2>9, MakeStep
  <1>4. ASSUME NEW i \in Metrics, WithTags(a, i) \/ WithDimensionalTags(a, i)
        PROVE  IInv'
    <2>1. PICK T \in NewTags :
            /\ MakeVariant(i, T)
            /\ \/ MetricMap' = MapWith(made + 1, WithAll(tags[i], T))
               \/ UNCHANGED MetricMap
      BY <1>4 DEF WithTags, WithDimensionalTags
    <2> DEFINE t == WithAll(tags[i], T)
               S == {WithAll(x, T) : x \in settled[i]}
               d == IF cloneable THEN made + 1 ELSE derived[i]
    <2>2. /\ made < MaxMetrics /\ i <= made
          /\ UNCHANGED <<modes, writer, builderTags, setters, pipeline,
                         statistics, globalTags, changes>>
      BY <1>4 DEF WithTags, WithDimensionalTags
    <2>3. /\ Make(made + 1, t, S)
          /\ builder' = [builder EXCEPT ![made + 1] = builder[i]]
          /\ derived' = [derived EXCEPT ![made + 1] = d]
          /\ variants' = variants \cup {made + 1}
          /\ torn' = IF writer[i] # None \/ i \in torn THEN torn \cup {made + 1}
                     ELSE torn
      BY <2>1 DEF MakeVariant, CloneDerived, ReadsUnlocked
    <2>4. crashed' \in BOOLEAN
      BY <2>1 DEF MakeVariant, ReadsUnlocked
    <2>5. t \in Tags /\ S \in SUBSET Tags
      BY <1>1, TagTypes
    <2>6. builder[i] \in 1..made + 1 /\ builder[i] \notin variants'
      BY <1>2, <2>2, <2>3
    <2>7. d = IF cloneable /\ made + 1 \in variants' THEN made + 1 ELSE builder[i]
      BY <2>2, <2>3 DEF IInv, DerivedInv
    <2>8. made + 1 \notin torn' => t \in S
      <3>1. ASSUME made + 1 \notin torn'  PROVE tags[i] \in settled[i]
        BY <2>2, <2>3, <3>1 DEF IInv, SettledInv
      <3>2. QED  BY <3>1
    <2>9. builderTags' \in [Metrics -> Tags]  BY <1>1, <2>2
    <2>10. torn' \in {torn, torn \cup {made + 1}}  BY <2>3
    <2> HIDE DEF t, S, d
    <2>11. MetricMap' = MapWith(made + 1, t) \/ UNCHANGED MetricMap
      BY <2>1 DEF t
    <2>12. QED
      BY <2>2, <2>3, <2>4, <2>5, <2>6, <2>7, <2>8, <2>9, <2>10, <2>11, MakeStep
  <1>5. QED  BY <1>3, <1>4

LEMMA UnregisterStep ==
    ASSUME IInv, NEW a \in App, UnregisterMetric(a) \/ SetGlobalTag(a)
    PROVE  IInv'
  <1>1. /\ UNCHANGED <<modes, made, tags, writer, builder, builderTags, derived,
                       variants, settled, torn, crashed, setters, pipeline,
                       statistics>>
        /\ changes < MaxChanges /\ changes' = changes + 1
    BY DEF UnregisterMetric, SetGlobalTag, Changes, registry, instances
  <1>2. TypeOK'
    <2>1. RegistryTypes'
      <3>1. MetricMap' \in [Tags -> 0..made]
        <4>1. MetricMap \in [Tags -> 0..made] /\ 0 \in 0..made
          BY RegistryAssumption DEF IInv, TypeOK
        <4>2. QED
          BY <4>1 DEF UnregisterMetric, SetGlobalTag, registry, instances
      <3>2. QED  BY <1>1, <3>1 DEF IInv, TypeOK, RegistryTypes, modes
    <2>2. BoundTypes'
      <3>1. changes' \in 0..MaxChanges
        BY <1>1, RegistryAssumption DEF IInv, TypeOK
      <3>2. globalTags' \in GlobalTags
        BY DEF UnregisterMetric, SetGlobalTag, IInv, TypeOK, GlobalTags
      <3>3. QED  BY <3>1, <3>2 DEF BoundTypes
    <2>3. QED
      BY <1>1, <2>1, <2>2, TypeParts, UnchangedTypes DEF IInv
  <1>3. RecordInv'
    BY <1>1 DEF IInv, RecordInv, BusyOK, LockInv, SettledInv, LogInv, MessageInv,
                DerivedInv, setters, recording, modes
  <1>4. StatisticsInv' /\ CountedInv'
    <2>1. UNCHANGED <<worker, left, at, taken, gathered, counted, read, pc,
                      message, recorded, log>>
      BY <1>1 DEF setters, recording, pipeline, emission, statistics
    <2>2. QED  BY <1>1, <2>1, StatisticsFrame, CountedFrame DEF IInv
  <1>5. QED  BY <1>2, <1>3, <1>4 DEF IInv, RecordInv

-----------------------------------------------------------------------------
(* Tags. *)

\* A call that changes tags begins, under the lock or, one tag at a time,
\* without it.
LEMMA BeginTagsStep ==
    ASSUME IInv, NEW a \in App, NEW i \in Metrics,
           SetTags(a, i) \/ RemoveTag(a, i) \/ WithTagsHere(a, i)
    PROVE  IInv'
  <1>1. /\ pc \in [App -> {"idle", "sets", "tags", "handles", "writes", "enqueues"}]
        /\ target \in [App -> Metrics]
        /\ writer \in [Metrics -> App \cup {None}] /\ None \notin App
        /\ todo = [b \in App |-> todo[b]]
    BY RegistryAssumption DEF IInv, TypeOK, BusyOK
  <1>2. /\ pc[a] = "idle" /\ i <= made /\ changes < MaxChanges
        /\ changes' = changes + 1 /\ target' = [target EXCEPT ![a] = i]
        /\ UNCHANGED <<modes, instances, tags, settled, message, read, recorded,
                       log, pipeline, statistics, globalTags>>
        /\ UNCHANGED <<made, derived, torn>>
        /\ \/ /\ pc' = [pc EXCEPT ![a] = "sets"] /\ writer[i] = None
              /\ writer' = [writer EXCEPT ![i] = a]
           \/ /\ pc' = [pc EXCEPT ![a] = "tags"] /\ UNCHANGED writer
    BY DEF SetTags, RemoveTag, WithTagsHere, Changes, registry, instances,
           recording
  <1>3. PICK T : /\ todo' = [todo EXCEPT ![a] = T]
                 /\ DOMAIN T \subseteq TagKeys
                 /\ \A k \in DOMAIN T : T[k] \in MetricValues \cup {Invalid, None}
    <2>1. CASE SetTags(a, i) \/ WithTagsHere(a, i)
      <3>1. PICK T \in TagArgs : todo' = [todo EXCEPT ![a] = T]
        BY <2>1 DEF SetTags, WithTagsHere
      <3>2. QED  BY <3>1, RegistryAssumption
    <2>2. CASE RemoveTag(a, i)
      <3>1. PICK k \in TagKeys :
              todo' = [todo EXCEPT ![a] = [x \in {k} |-> None]]
        BY <2>2 DEF RemoveTag
      <3> DEFINE T == [x \in {k} |-> None]
      <3>2. DOMAIN T = {k} /\ T[k] = None  OBVIOUS
      <3>3. /\ todo' = [todo EXCEPT ![a] = T] /\ DOMAIN T \subseteq TagKeys
            /\ \A x \in DOMAIN T : T[x] \in MetricValues \cup {Invalid, None}
        BY <3>1, <3>2
      <3> HIDE DEF T
      <3>4. QED  BY <3>3
    <2>3. QED  BY <2>1, <2>2
  <1>4. TypeOK'
    <2>1. RegistryTypes'
      BY <1>1, <1>2 DEF IInv, TypeOK, RegistryTypes, modes, instances
    <2>2. BoundTypes'
      BY <1>2, RegistryAssumption DEF IInv, TypeOK, BoundTypes
    <2>3. SetterTypes'
      BY <1>1, <1>2 DEF IInv, TypeOK, SetterTypes
    <2>4. QED
      BY <1>2, <2>1, <2>2, <2>3, TypeParts, UnchangedTypes DEF IInv
  <1>5. BusyOK'
    <2>1. SUFFICES ASSUME NEW b \in App
                   PROVE  /\ pc'[b] \in {"sets", "tags"} =>
                               /\ DOMAIN todo'[b] \subseteq TagKeys
                               /\ \A k \in DOMAIN todo'[b] : todo'[b][k]
                                    \in MetricValues \cup {Invalid, None}
                          /\ pc'[b] \in {"handles", "writes", "enqueues"} =>
                               message[b] \in Message
      <3>1. todo' = [b \in App |-> todo'[b]]
              /\ message' = [b \in App |-> message'[b]]
        BY <1>2, <1>3 DEF IInv, BusyOK
      <3>2. QED  BY <1>2, <3>1 DEF IInv, BusyOK
    <2>2. CASE b = a
      <3>1. pc'[b] \in {"sets", "tags"} /\ todo'[b] = T
        BY <1>1, <1>2, <1>3, <2>2
      <3>2. QED  BY <1>3, <3>1
    <2>3. CASE b # a
      <3>1. pc'[b] = pc[b] /\ todo'[b] = todo[b]  BY <1>1, <1>2, <1>3, <2>3
      <3>2. QED  BY <3>1 DEF IInv, BusyOK
    <2>4. QED  BY <2>2, <2>3
  <1>6. LockInv'  BY <1>1, <1>2 DEF IInv, LockInv
  <1>7. SettledInv'  BY <1>1, <1>2 DEF IInv, SettledInv
  <1>8. LogInv'  BY <1>2 DEF IInv, LogInv
  <1>9. MessageInv'  BY <1>1, <1>2 DEF IInv, MessageInv
  <1>10. DerivedInv'  BY <1>2, DerivedFrame DEF IInv
  <1>11. StatisticsInv' /\ CountedInv'
    <2>1. UNCHANGED <<worker, left, at, taken, gathered, counted>>
      BY <1>2 DEF pipeline, emission, statistics
    <2>2. \A b \in App : pc'[b] = "writes" => pc[b] = "writes"
      BY <1>1, <1>2
    <2>3. QED  BY <1>2, <2>1, <2>2, StatisticsFrame, CountedFrame DEF IInv
  <1>12. QED
    BY <1>4, <1>5, <1>6, <1>7, <1>8, <1>9, <1>10, <1>11 DEF IInv

\* What every step of a call that changes tags leaves alone.
others == <<modes, instances, recording, pipeline, statistics, globalTags,
            changes>>

\* One tag at most is set, and the instance's lock may be given back; then the
\* tags as they are were there between two calls.
TagChange(a, t, here, on, T) ==
    /\ t \in Tags /\ here \in {"sets", "tags", "idle"} /\ on \in {target[a], 1}
    /\ DOMAIN T \subseteq DOMAIN todo[a]
    /\ \A x \in DOMAIN T : T[x] = todo[a][x]
    /\ tags' = [tags EXCEPT ![target[a]] = t]
    /\ pc' = [pc EXCEPT ![a] = here]
    /\ target' = [target EXCEPT ![a] = on]
    /\ here # "idle" => on = target[a] /\ here = pc[a]
    /\ todo' = [todo EXCEPT ![a] = T]
    /\ \/ here = "sets" /\ UNCHANGED <<writer, settled>>
       \/ /\ here # "sets"
          /\ writer' = [writer EXCEPT ![target[a]] = None]
          /\ settled' = [settled EXCEPT ![target[a]] = @ \cup {t}]
    /\ pc[a] = "tags" => writer[target[a]] = None /\ here # "sets"

LEMMA TagStep ==
    ASSUME IInv, NEW a \in App, pc[a] \in {"sets", "tags"}, UNCHANGED others,
           NEW t, NEW here, NEW on, NEW T, TagChange(a, t, here, on, T)
    PROVE  IInv'
  <1> USE DEF TagChange
  <1> DEFINE i == target[a]
  <1>1. /\ pc \in [App -> {"idle", "sets", "tags", "handles", "writes", "enqueues"}]
        /\ target \in [App -> Metrics] /\ i \in Metrics /\ 1 \in Metrics
        /\ writer \in [Metrics -> App \cup {None}] /\ None \notin App
        /\ tags \in [Metrics -> Tags] /\ settled \in [Metrics -> SUBSET Tags]
        /\ todo = [b \in App |-> todo[b]]
    BY RegistryAssumption DEF IInv, TypeOK, BusyOK, Metrics
  <1>2. /\ UNCHANGED <<modes, instances, message, read, recorded, log, pipeline,
                       statistics, globalTags, changes>>
        /\ UNCHANGED <<made, derived, torn>>
    BY DEF others, instances, recording
  <1>3. /\ pc[a] = "sets" => writer[i] = a
        /\ i <= made
    BY DEF IInv, LockInv
  <1>4. TypeOK'
    <2>1. writer' \in [Metrics -> App \cup {None}]  BY <1>1
    <2>2. RegistryTypes'
      BY <1>1, <1>2, <2>1 DEF IInv, TypeOK, RegistryTypes, modes, instances
    <2>3. SetterTypes'
      BY <1>1, <1>2 DEF IInv, TypeOK, SetterTypes
    <2>4. QED
      BY <1>2, <2>2, <2>3, TypeParts, UnchangedTypes DEF IInv
  <1>5. BusyOK'
    <2>1. SUFFICES ASSUME NEW b \in App
                   PROVE  /\ pc'[b] \in {"sets", "tags"} =>
                               /\ DOMAIN todo'[b] \subseteq TagKeys
                               /\ \A x \in DOMAIN todo'[b] : todo'[b][x]
                                    \in MetricValues \cup {Invalid, None}
                          /\ pc'[b] \in {"handles", "writes", "enqueues"} =>
                               message[b] \in Message
      <3>1. todo' = [b \in App |-> todo'[b]]
              /\ message' = [b \in App |-> message'[b]]
        BY <1>1, <1>2 DEF IInv, BusyOK
      <3>2. settled' \in [Metrics -> SUBSET Tags]  BY <1>1
      <3>3. QED  BY <1>2, <3>1, <3>2 DEF IInv, BusyOK
    <2>2. CASE b = a
      <3>1. pc'[b] \in {"sets", "tags", "idle"} /\ todo'[b] = T
        BY <1>1, <2>2
      <3>2. /\ DOMAIN T \subseteq TagKeys
            /\ \A x \in DOMAIN T : T[x] \in MetricValues \cup {Invalid, None}
        BY DEF IInv, BusyOK
      <3>3. QED  BY <3>1, <3>2
    <2>3. CASE b # a
      <3>1. pc'[b] = pc[b] /\ todo'[b] = todo[b]  BY <1>1, <2>3
      <3>2. QED  BY <3>1 DEF IInv, BusyOK
    <2>4. QED  BY <2>2, <2>3
  <1>6. LockInv'
    <2>1. SUFFICES ASSUME NEW b \in App
                   PROVE  /\ pc'[b] = "sets" => writer'[target'[b]] = b
                          /\ pc'[b] \in {"sets", "tags"} => target'[b] <= made
      BY <1>2 DEF LockInv
    <2>2. CASE b = a
      <3>1. pc'[b] = here /\ target'[b] = on  BY <1>1, <2>2
      <3>2. QED  BY <1>3, <2>2, <3>1
    <2>3. CASE b # a
      <3>1. pc'[b] = pc[b] /\ target'[b] = target[b]  BY <1>1, <2>3
      <3>2. ASSUME pc[b] = "sets"  PROVE writer'[target[b]] = b
        <4>1. writer[target[b]] = b /\ target[b] \in Metrics /\ b # None
          BY <1>1, <3>2 DEF IInv, LockInv
        <4>2. writer[i] = a \/ writer[i] = None  BY <1>3
        <4>3. target[b] # i  BY <2>3, <4>1, <4>2
        <4>4. QED  BY <1>1, <4>1, <4>3
      <3>3. QED  BY <3>1, <3>2 DEF IInv, LockInv
    <2>4. QED  BY <2>2, <2>3
  <1>7. SettledInv'
    <2>1. SUFFICES ASSUME NEW j \in Metrics, j <= made, writer'[j] = None,
                          j \notin torn
                   PROVE  tags'[j] \in settled'[j]
      BY <1>2 DEF SettledInv
    <2>2. CASE j = i
      <3>1. here # "sets"
        <4>1. CASE here = "sets"
          BY <1>1, <1>3, <2>1, <2>2, <4>1
        <4>2. QED  BY <4>1
      <3>2. QED  BY <1>1, <2>2, <3>1
    <2>3. CASE j # i
      <3>1. writer'[j] = writer[j] /\ settled'[j] = settled[j] /\ tags'[j] = tags[j]
        BY <1>1, <2>3
      <3>2. QED  BY <2>1, <3>1 DEF IInv, SettledInv
    <2>4. QED  BY <2>2, <2>3
  <1>8. LogInv'
    <2>1. \A j \in Metrics : settled[j] \subseteq settled'[j]  BY <1>1
    <2>2. \A n \in 1..recorded : log[n].metric \in Metrics
      BY DEF IInv, BusyOK, Message
    <2>3. QED  BY <1>2, <2>1, <2>2 DEF IInv, LogInv
  <1>9. MessageInv'
    <2>1. \A b \in App : pc'[b] \in {"handles", "writes", "enqueues"} =>
                           pc[b] \in {"handles", "writes", "enqueues"}
      BY <1>1
    <2>2. QED  BY <1>2, <2>1 DEF IInv, MessageInv
  <1>10. DerivedInv'  BY <1>2, DerivedFrame DEF IInv
  <1>11. StatisticsInv' /\ CountedInv'
    <2>1. UNCHANGED <<worker, left, at, taken, gathered, counted>>
      BY <1>2 DEF pipeline, emission, statistics
    <2>2. \A b \in App : pc'[b] = "writes" => pc[b] = "writes"
      BY <1>1
    <2>3. \A j \in Metrics : settled[j] \subseteq settled'[j]  BY <1>1
    <2>4. QED
      BY <1>2, <2>1, <2>2, <2>3, StatisticsFrame, CountedFrame DEF IInv
  <1>12. QED
    BY <1>4, <1>5, <1>6, <1>7, <1>8, <1>9, <1>10, <1>11 DEF IInv

LEMMA SetOneStep ==
    ASSUME IInv, NEW a \in App, SetOne(a) \/ TagHere(a)
    PROVE  IInv'
  <1> DEFINE i == target[a]
  <1>1. /\ pc \in [App -> {"idle", "sets", "tags", "handles", "writes", "enqueues"}]
        /\ target \in [App -> Metrics] /\ i \in Metrics
        /\ writer \in [Metrics -> App \cup {None}]
        /\ tags \in [Metrics -> Tags]
    BY DEF IInv, TypeOK
  <1>2. /\ UNCHANGED others /\ pc[a] \in {"sets", "tags"}
        /\ DOMAIN todo[a] \subseteq TagKeys
        /\ \A k \in DOMAIN todo[a] :
             todo[a][k] \in MetricValues \cup {Invalid, None}
    BY DEF SetOne, TagHere, others, IInv, BusyOK
  <1>3. \A k \in DOMAIN todo[a] :
          [tags[i] EXCEPT ![k] = todo[a][k]] \in Tags
    BY <1>1, <1>2 DEF Tags
  <1>4. \A k : /\ DOMAIN Rest(todo[a], k) \subseteq DOMAIN todo[a]
               /\ \A x \in DOMAIN Rest(todo[a], k) :
                    Rest(todo[a], k)[x] = todo[a][x]
    BY DEF Rest
  <1>5. CASE SetOne(a)
    <2>1. pc[a] = "sets" /\ i = target[a]  BY <1>5 DEF SetOne
    <2>2. CASE /\ writer' = [writer EXCEPT ![i] = None]
               /\ pc' = [pc EXCEPT ![a] = "idle"]
               /\ target' = [target EXCEPT ![a] = 1]
               /\ todo' = [todo EXCEPT ![a] = <<>>]
               /\ settled' = [settled EXCEPT ![i] = @ \cup {tags[i]}]
               /\ UNCHANGED tags
      <3>1. DOMAIN <<>> \subseteq DOMAIN todo[a]
              /\ \A x \in DOMAIN <<>> : <<>>[x] = todo[a][x]
        OBVIOUS
      <3>2. tags' = [tags EXCEPT ![i] = tags[i]] /\ tags[i] \in Tags
        BY <1>1, <2>2
      <3>3. TagChange(a, tags[i], "idle", 1, <<>>)
        BY <2>1, <2>2, <3>1, <3>2 DEF TagChange
      <3>4. QED  BY <1>2, <3>3, TagStep
    <2>3. CASE \E k \in DOMAIN todo[a] :
                 /\ tags' = [tags EXCEPT ![i][k] = todo[a][k]]
                 /\ todo' = [todo EXCEPT ![a] = Rest(todo[a], k)]
                 /\ UNCHANGED <<pc, target, writer, settled>>
      <3>1. PICK k \in DOMAIN todo[a] :
              /\ tags' = [tags EXCEPT ![i][k] = todo[a][k]]
              /\ todo' = [todo EXCEPT ![a] = Rest(todo[a], k)]
              /\ UNCHANGED <<pc, target, writer, settled>>
        BY <2>3
      <3>2. tags' = [tags EXCEPT ![i] = [tags[i] EXCEPT ![k] = todo[a][k]]]
        BY <3>1
      <3>3. pc' = [pc EXCEPT ![a] = "sets"]
              /\ target' = [target EXCEPT ![a] = target[a]]
        BY <1>1, <2>1, <3>1
      <3>4. TagChange(a, [tags[i] EXCEPT ![k] = todo[a][k]], "sets",
                      target[a], Rest(todo[a], k))
        BY <1>3, <1>4, <2>1, <3>1, <3>2, <3>3 DEF TagChange
      <3>5. QED  BY <1>2, <3>4, TagStep
    <2>4. QED  BY <1>5, <2>2, <2>3 DEF SetOne
  <1>6. CASE TagHere(a)
    <2>1. pc[a] = "tags" /\ writer[i] = None  BY <1>6 DEF TagHere
    <2>2. PICK k \in DOMAIN todo[a] :
            LET t == IF todo[a][k] = Invalid THEN tags[i]
                     ELSE [tags[i] EXCEPT ![k] = todo[a][k]]
                remaining == Rest(todo[a], k)
            IN /\ tags' = [tags EXCEPT ![i] = t]
               /\ settled' = [settled EXCEPT ![i] = @ \cup {t}]
               /\ todo' = [todo EXCEPT ![a] = remaining]
               /\ IF DOMAIN remaining = {}
                  THEN /\ pc' = [pc EXCEPT ![a] = "idle"]
                       /\ target' = [target EXCEPT ![a] = 1]
                  ELSE UNCHANGED <<pc, target>>
      BY <1>6 DEF TagHere
    <2> DEFINE t == IF todo[a][k] = Invalid THEN tags[i]
                    ELSE [tags[i] EXCEPT ![k] = todo[a][k]]
    <2>3. /\ t \in Tags /\ tags' = [tags EXCEPT ![i] = t]
          /\ settled' = [settled EXCEPT ![i] = @ \cup {t}]
          /\ todo' = [todo EXCEPT ![a] = Rest(todo[a], k)]
      BY <1>1, <1>3, <2>2
    <2>4. writer' = [writer EXCEPT ![i] = None]
      <3>1. writer' = writer  BY <1>6 DEF TagHere
      <3>2. QED  BY <1>1, <2>1, <3>1
    <2>5. PICK here \in {"tags", "idle"}, on \in {target[a], 1} :
            /\ pc' = [pc EXCEPT ![a] = here]
            /\ target' = [target EXCEPT ![a] = on]
            /\ here # "idle" => on = target[a]
      <3>1. CASE pc' = [pc EXCEPT ![a] = "idle"]
                   /\ target' = [target EXCEPT ![a] = 1]
        BY <3>1
      <3>2. CASE UNCHANGED <<pc, target>>
        <4>1. pc' = [pc EXCEPT ![a] = "tags"]
                /\ target' = [target EXCEPT ![a] = target[a]]
          BY <1>1, <2>1, <3>2
        <4>2. QED  BY <4>1
      <3>3. QED  BY <2>2, <3>1, <3>2
    <2> HIDE DEF t
    <2>6. TagChange(a, t, here, on, Rest(todo[a], k))
      BY <1>4, <2>1, <2>3, <2>4, <2>5 DEF TagChange
    <2>7. QED  BY <1>2, <2>6, TagStep
  <1>7. QED  BY <1>5, <1>6

-----------------------------------------------------------------------------
(* A value. *)

LEMMA MakeMessageStep ==
    ASSUME IInv, NEW a \in App, NEW i \in Metrics, MakeMessage(a, i)
    PROVE  IInv'
  <1> DEFINE m == [value |-> recorded + 1, metric |-> i, tags |-> tags[i]]
  <1>1. /\ pc \in [App -> {"idle", "sets", "tags", "handles", "writes", "enqueues"}]
        /\ tags[i] \in Tags /\ recorded \in 0..MaxValues
        /\ message = [b \in App |-> message[b]]
    BY DEF IInv, TypeOK, BusyOK
  <1>2. /\ pc[a] = "idle" /\ i <= made /\ writer[i] = None
        /\ recorded < MaxValues /\ recorded' = recorded + 1
        /\ message' = [message EXCEPT ![a] = m]
        /\ pc' = [pc EXCEPT ![a] = "handles"]
        /\ UNCHANGED <<modes, registry, target, todo, read, pipeline, statistics,
                       globalTags, changes>>
        /\ UNCHANGED <<instances, made, tags, writer, derived, torn, settled>>
    BY DEF MakeMessage, registry, instances
  <1>3. /\ recorded + 1 \in Values /\ recorded + 1 \in 0..MaxValues
        /\ \A n \in 1..recorded + 1 : n \in 1..recorded \/ n = recorded + 1
        /\ \A n \in 1..recorded : n \in 1..recorded + 1 /\ n # recorded + 1
        /\ recorded + 1 \in 1..recorded + 1
    BY <1>1, <1>2, RegistryAssumption DEF Values
  <1>4. m \in Message /\ m.value = recorded + 1 /\ m.metric = i
          /\ m.tags = tags[i]
    BY <1>1, <1>3 DEF Message
  <1>5. /\ \A n \in 1..recorded : log'[n] = log[n]
        /\ log'[recorded + 1] = m
    BY <1>1, <1>3 DEF MakeMessage
  <1> HIDE DEF m
  <1>6. /\ message' = [b \in App |-> message'[b]]
        /\ pc'[a] = "handles" /\ message'[a] = m
        /\ \A b \in App : b # a => pc'[b] = pc[b] /\ message'[b] = message[b]
    BY <1>1, <1>2
  <1>7. TypeOK'
    <2>1. \A b \in App : message'[b] = None \/ message'[b] \in Message
      BY <1>4, <1>6 DEF IInv, TypeOK
    <2>2. SetterTypes'
      BY <1>1, <1>2, <1>3, <2>1 DEF IInv, TypeOK, SetterTypes
    <2>3. QED
      BY <1>2, <2>2, TypeParts, UnchangedTypes DEF IInv
  <1>8. BusyOK'
    <2>1. \A n \in 1..recorded' : log'[n] \in Message
      BY <1>2, <1>3, <1>4, <1>5 DEF IInv, BusyOK
    <2>2. \A b \in App :
            /\ pc'[b] \in {"sets", "tags"} =>
                 /\ DOMAIN todo[b] \subseteq TagKeys
                 /\ \A k \in DOMAIN todo[b] :
                      todo[b][k] \in MetricValues \cup {Invalid, None}
            /\ pc'[b] \in {"handles", "writes", "enqueues"} => message'[b] \in Message
      BY <1>4, <1>6 DEF IInv, BusyOK
    <2>3. QED  BY <1>2, <1>6, <2>1, <2>2 DEF IInv, BusyOK
  <1>9. LockInv'  BY <1>2, <1>6 DEF IInv, LockInv
  <1>10. SettledInv'  BY <1>2 DEF IInv, SettledInv
  <1>11. LogInv'
    <2>1. i \notin torn => tags[i] \in settled[i]  BY <1>2 DEF IInv, SettledInv
    <2>2. QED  BY <1>2, <1>3, <1>4, <1>5, <2>1 DEF IInv, LogInv
  <1>12. MessageInv'
    BY <1>2, <1>3, <1>4, <1>5, <1>6 DEF IInv, MessageInv
  <1>13. DerivedInv'  BY <1>2, DerivedFrame DEF IInv
  <1>14. StatisticsInv' /\ CountedInv'
    <2>1. UNCHANGED <<worker, left, at, taken, gathered, counted>>
      BY <1>2 DEF pipeline, emission, statistics
    <2>2. \A b \in App : pc'[b] = "writes" =>
                           pc[b] = "writes" /\ message'[b] = message[b]
      BY <1>6
    <2>3. \A n \in 1..recorded : n \in 1..recorded' /\ log'[n] = log[n]
      BY <1>2, <1>3, <1>5
    <2>4. QED
      BY <1>2, <2>1, <2>2, <2>3, StatisticsFrame, CountedFrame DEF IInv
  <1>15. QED
    BY <1>7, <1>8, <1>9, <1>10, <1>11, <1>12, <1>13, <1>14 DEF IInv

\* A step of enqueueMessage after the message was made: what it changes of the
\* goroutine that takes it.
LEMMA HandlingFrame ==
    ASSUME IInv, NEW a \in App, NEW p \in {"writes", "enqueues"},
           pc[a] \in {"handles", "writes"}, pc' = [pc EXCEPT ![a] = p],
           UNCHANGED <<modes, registry, target, todo, message, recorded, log,
                       pipeline, counted, globalTags, changes>>,
           read' \in [App -> SUBSET Values], StatisticsTypes'
    PROVE  TypeOK' /\ RecordInv' /\ CountedInv'
  <1>1. /\ pc \in [App -> {"idle", "sets", "tags", "handles", "writes", "enqueues"}]
        /\ UNCHANGED <<instances, made, tags, writer, settled, torn>>
    BY DEF IInv, TypeOK, registry, instances
  <1>2. /\ pc'[a] = p /\ \A b \in App : b # a => pc'[b] = pc[b]
    BY <1>1
  <1>3. SetterTypes'
    BY <1>1 DEF IInv, TypeOK, SetterTypes
  <1>4. TypeOK'  BY <1>3, TypeParts, UnchangedTypes DEF IInv
  <1>5. BusyOK'  BY <1>1, <1>2 DEF IInv, BusyOK
  <1>6. LockInv'  BY <1>1, <1>2 DEF IInv, LockInv
  <1>7. SettledInv'  BY <1>1 DEF IInv, SettledInv
  <1>8. LogInv'  BY <1>1 DEF IInv, LogInv
  <1>9. MessageInv'  BY <1>2 DEF IInv, MessageInv
  <1>10. DerivedInv'  BY <1>1, DerivedFrame DEF IInv
  <1>11. CountedInv'  BY <1>1, CountedFrame DEF IInv
  <1>12. QED
    BY <1>4, <1>5, <1>6, <1>7, <1>8, <1>9, <1>10, <1>11 DEF RecordInv

LEMMA BusyValues ==
    ASSUME IInv
    PROVE  \A a \in App : pc[a] \in {"handles", "writes"} =>
               message[a].value \in Values
  BY DEF IInv, BusyOK, Message

LEMMA HandleStep ==
    ASSUME IInv, NEW a \in App, HandleReads(a) \/ HandleWrites(a)
    PROVE  IInv'
  <1> DEFINE m == message[a]
             d == derived[m.metric]
  <1>1. /\ pc \in [App -> {"idle", "sets", "tags", "handles", "writes", "enqueues"}]
        /\ gathered \in [Metrics -> SUBSET Values] /\ overlapped \subseteq Values
        /\ read \in [App -> SUBSET Values]
        /\ derived \in [Metrics -> Metrics]
    BY DEF IInv, TypeOK
  <1>2. pc[a] \in {"handles", "writes"}
    BY DEF HandleReads, HandleWrites
  <1>3. /\ m \in Message /\ m.value \in 1..recorded /\ m = log[m.value]
        /\ m.metric \in Metrics /\ m.value \in Values /\ d \in Metrics
    BY <1>1, <1>2 DEF IInv, BusyOK, MessageInv, Message
  <1>4. UNCHANGED <<derived, worker, left, at, taken, made>>
    BY DEF HandleReads, HandleWrites, registry, instances, pipeline, emission
  <1>5. CASE HandleReads(a)
    <2>1. /\ pc' = [pc EXCEPT ![a] = "writes"]
          /\ read' = [read EXCEPT ![a] = gathered[d]]
          /\ overlapped' \subseteq overlapped \cup ValuesOf(Handling(d) \cup {a})
          /\ UNCHANGED <<modes, registry, target, todo, message, recorded, log,
                         pipeline, gathered, counted, globalTags, changes>>
      BY <1>5 DEF HandleReads, ValuesOf
    <2>2. ValuesOf(Handling(d) \cup {a}) \subseteq Values
      BY <1>2, BusyValues DEF ValuesOf, Handling
    <2> HIDE DEF d
    <2>3. read' \in [App -> SUBSET Values] /\ StatisticsTypes'
      BY <1>1, <1>3, <2>1, <2>2 DEF StatisticsTypes
    <2>4. TypeOK' /\ RecordInv' /\ CountedInv'
      BY <1>2, <2>1, <2>3, HandlingFrame
    <2>5. ASSUME NEW b \in App, pc'[b] = "writes"
          PROVE  FromDerived(read'[b], derived[message[b].metric])
      <3>1. CASE b = a
        <4>1. read'[b] = gathered[d]  BY <1>1, <2>1, <3>1
        <4>2. FromDerived(gathered[d], d)  BY <1>3 DEF IInv, StatisticsInv
        <4>3. QED  BY <3>1, <4>1, <4>2 DEF d
      <3>2. CASE b # a
        <4>1. read'[b] = read[b] /\ pc[b] = "writes"
          BY <1>1, <2>1, <2>5, <3>2
        <4>2. QED  BY <4>1 DEF IInv, StatisticsInv
      <3>3. QED  BY <3>1, <3>2
    <2>6. StatisticsInv'
      BY <1>4, <2>1, <2>5 DEF IInv, StatisticsInv, FromDerived
    <2>7. QED  BY <2>4, <2>6 DEF IInv, RecordInv
  <1>6. CASE HandleWrites(a)
    <2>1. /\ pc[a] = "writes" /\ pc' = [pc EXCEPT ![a] = "enqueues"]
          /\ read' = [read EXCEPT ![a] = {}]
          /\ gathered' = [gathered EXCEPT ![d] = read[a] \cup {m.value}]
          /\ UNCHANGED <<modes, registry, target, todo, message, recorded, log,
                         pipeline, counted, overlapped, globalTags, changes>>
      BY <1>6 DEF HandleWrites
    <2>2. FromDerived(read[a], d)
      BY <2>1 DEF IInv, StatisticsInv
    <2>3. FromDerived(read[a] \cup {m.value}, d)
      BY <1>3, <2>2 DEF FromDerived
    <2> HIDE DEF d, m
    <2>4. read' \in [App -> SUBSET Values] /\ StatisticsTypes'
      BY <1>1, <1>3, <2>1 DEF StatisticsTypes
    <2>5. TypeOK' /\ RecordInv' /\ CountedInv'
      BY <1>2, <2>1, <2>4, HandlingFrame
    <2>6. ASSUME NEW x \in Metrics  PROVE FromDerived(gathered'[x], x)
      <3>1. \/ gathered'[x] = gathered[x]
            \/ x = d /\ gathered'[x] = read[a] \cup {m.value}
        BY <1>1, <1>3, <2>1
      <3>2. FromDerived(gathered[x], x)  BY DEF IInv, StatisticsInv
      <3>3. QED  BY <2>3, <3>1, <3>2
    <2>7. ASSUME NEW b \in App, pc'[b] = "writes"
          PROVE  FromDerived(read'[b], derived[message[b].metric])
      <3>1. read'[b] = read[b] /\ pc[b] = "writes"
        BY <1>1, <2>1, <2>7
      <3>2. QED  BY <3>1 DEF IInv, StatisticsInv
    <2>8. StatisticsInv'
      BY <1>4, <2>1, <2>6, <2>7 DEF IInv, StatisticsInv, FromDerived
    <2>9. QED  BY <2>5, <2>8 DEF IInv, RecordInv
  <1>7. QED  BY <1>5, <1>6

LEMMA EnqueueStep ==
    ASSUME IInv, NEW a \in App, EnqueueMetric(a)
    PROVE  IInv'
  <1>1. /\ pc[a] = "enqueues" /\ pc' = [pc EXCEPT ![a] = "idle"]
        /\ underway' = underway \cup {message[a]}
        /\ message' = [message EXCEPT ![a] = None]
        /\ UNCHANGED <<modes, registry, target, todo, read, recorded, log, worker,
                       batch, snapshot, emission, shed, statistics, globalTags,
                       changes>>
        /\ UNCHANGED <<instances, made, tags, writer, derived, torn, settled>>
    BY DEF EnqueueMetric, registry, instances
  <1>2. /\ pc \in [App -> {"idle", "sets", "tags", "handles", "writes", "enqueues"}]
        /\ message = [b \in App |-> message[b]] /\ message[a] \in Message
    BY <1>1 DEF IInv, TypeOK, BusyOK
  <1>3. /\ message' = [b \in App |-> message'[b]]
        /\ pc'[a] = "idle" /\ message'[a] = None
        /\ \A b \in App : b # a => pc'[b] = pc[b] /\ message'[b] = message[b]
    BY <1>1, <1>2
  <1>4. TypeOK'
    <2>1. \A b \in App : message'[b] = None \/ message'[b] \in Message
      BY <1>3 DEF IInv, TypeOK
    <2>2. SetterTypes'
      BY <1>1, <1>2, <2>1 DEF IInv, TypeOK, SetterTypes
    <2>3. FlushTypes'
      BY <1>1, <1>2 DEF IInv, TypeOK, FlushTypes
    <2>4. QED
      BY <1>1, <2>2, <2>3, TypeParts, UnchangedTypes DEF IInv
  <1>5. BusyOK'
    <2>1. \A b \in App :
            /\ pc'[b] \in {"sets", "tags"} =>
                 /\ DOMAIN todo[b] \subseteq TagKeys
                 /\ \A k \in DOMAIN todo[b] :
                      todo[b][k] \in MetricValues \cup {Invalid, None}
            /\ pc'[b] \in {"handles", "writes", "enqueues"} => message'[b] \in Message
      BY <1>3 DEF IInv, BusyOK
    <2>2. QED  BY <1>1, <1>3, <2>1 DEF IInv, BusyOK
  <1>6. LockInv'  BY <1>1, <1>3 DEF IInv, LockInv
  <1>7. SettledInv'  BY <1>1 DEF IInv, SettledInv
  <1>8. LogInv'  BY <1>1 DEF IInv, LogInv
  <1>9. MessageInv'  BY <1>1, <1>3 DEF IInv, MessageInv
  <1>10. DerivedInv'  BY <1>1, DerivedFrame DEF IInv
  <1>11. StatisticsInv' /\ CountedInv'
    <2>1. UNCHANGED <<left, at, taken, gathered, counted>>
      BY <1>1 DEF emission, statistics
    <2>2. \A b \in App : pc'[b] = "writes" =>
                           pc[b] = "writes" /\ message'[b] = message[b]
      BY <1>3
    <2>3. QED  BY <1>1, <2>1, <2>2, StatisticsFrame, CountedFrame DEF IInv
  <1>12. QED
    BY <1>4, <1>5, <1>6, <1>7, <1>8, <1>9, <1>10, <1>11 DEF IInv

-----------------------------------------------------------------------------
(* The pipeline. *)

LEMMA RegisteredAreMade ==
    ASSUME IInv  PROVE \A i \in Registered : i \in Metrics /\ i <= made
  <1>1. SUFFICES ASSUME NEW k \in Tags, MetricMap[k] # 0
                 PROVE  MetricMap[k] \in Metrics /\ MetricMap[k] <= made
    BY DEF Registered
  <1>2. MetricMap[k] \in 0..made /\ made \in 0..MaxMetrics
    BY DEF IInv, TypeOK
  <1>3. QED  BY <1>1, <1>2, RegistryAssumption DEF Metrics

\* What no step of the pipeline changes.
LEMMA PipelineFrame ==
    ASSUME IInv, UNCHANGED <<modes, registry, setters, globalTags, changes>>,
           FlushTypes', EmissionTypes', StatisticsTypes'
    PROVE  TypeOK' /\ RecordInv'
  <1>1. RecordInv'  BY RecordFrame DEF IInv, RecordInv
  <1>2. TypeOK'  BY TypeParts, UnchangedTypes DEF IInv
  <1>3. QED  BY <1>1, <1>2

LEMMA FlushStep ==
    ASSUME IInv,
           Shed \/ \E w \in Workers : Take(w) \/ FlushReads(w) \/ Send(w)
    PROVE  IInv'
  <1>1. /\ UNCHANGED <<modes, registry, setters, emission, statistics, changes,
                       globalTags>>
    BY DEF Shed, Take, FlushReads, Send
  <1>2. /\ underway \subseteq Message
        /\ worker \in [Workers -> {"idle", "emits", "emitting", "resets", "sends"}]
        /\ batch \in [Workers -> SUBSET Message]
        /\ snapshot \in [Workers -> GlobalTags] /\ globalTags \in GlobalTags
        /\ shed \subseteq Values
        /\ \A m \in Message : m.value \in Values
    BY DEF IInv, TypeOK, Message
  <1>3. /\ worker' \in [Workers -> {"idle", "emits", "emitting", "resets", "sends"}]
        /\ \A w \in Workers : worker'[w] = "resets" => worker[w] = "resets"
    BY <1>2 DEF Shed, Take, FlushReads, Send
  <1>4. FlushTypes'
    <2>1. CASE Shed  BY <1>2, <2>1 DEF Shed, FlushTypes
    <2>2. ASSUME NEW w \in Workers, Take(w)  PROVE FlushTypes'
      BY <1>2, <2>2 DEF Take, FlushTypes
    <2>3. ASSUME NEW w \in Workers, FlushReads(w)  PROVE FlushTypes'
      BY <1>2, <2>3 DEF FlushReads, FlushTypes
    <2>4. ASSUME NEW w \in Workers, Send(w)  PROVE FlushTypes'
      BY <1>2, <2>4, TagTypes DEF Send, FlushTypes
    <2>5. QED  BY <2>1, <2>2, <2>3, <2>4
  <1>5. EmissionTypes'
    BY <1>1, <1>3 DEF IInv, TypeOK, EmissionTypes, emission
  <1>6. StatisticsTypes'  BY <1>1, TypeParts, UnchangedTypes DEF IInv
  <1>7. TypeOK' /\ RecordInv'  BY <1>1, <1>4, <1>5, <1>6, PipelineFrame
  <1>8. UNCHANGED <<made, derived, gathered, counted, read, left, at, taken, log,
                    recorded, pc, message, torn, settled>>
    BY <1>1 DEF registry, instances, setters, recording, emission, statistics
  <1>9. CountedInv'  BY <1>8, CountedFrame DEF IInv
  <1>10. StatisticsInv'
    BY <1>3, <1>8 DEF IInv, StatisticsInv, FromDerived
  <1>11. QED  BY <1>7, <1>9, <1>10 DEF IInv, RecordInv

LEMMA EmitStep ==
    ASSUME IInv, NEW w \in Workers, EmitDerivedMetrics(w)
    PROVE  IInv'
  <1>1. /\ UNCHANGED <<modes, registry, setters, underway, batch, snapshot, sent,
                       shed, changes, globalTags>>
    BY DEF EmitDerivedMetrics, EmitLocks, EmitMetrics, ResetDerived, EmitUnlocks
  <1>2. UNCHANGED <<made, derived, tags, writer, read, log, recorded, pc, message,
                    torn, settled>>
    BY <1>1 DEF registry, instances, setters, recording
  <1>3. /\ worker \in [Workers -> {"idle", "emits", "emitting", "resets", "sends"}]
        /\ mtx \in Workers \cup {None} /\ left \in [Workers -> SUBSET Metrics]
        /\ at \in [Workers -> Metrics] /\ taken \in [Workers -> SUBSET Values]
        /\ gathered \in [Metrics -> SUBSET Values] /\ overlapped \subseteq Values
        /\ derived \in [Metrics -> Metrics] /\ 1 \in Metrics
    BY RegistryAssumption DEF IInv, TypeOK, Metrics
  <1>4. FlushTypes'  BY <1>1 DEF IInv, TypeOK, FlushTypes
  <1>5. CASE EmitLocks(w)
    <2>1. /\ left' = [left EXCEPT ![w] = Registered] /\ mtx' = w
          /\ worker' = [worker EXCEPT ![w] = "emitting"]
          /\ UNCHANGED <<at, taken, gathered, counted, overlapped>>
      BY <1>5 DEF EmitLocks, statistics
    <2>2. Registered \in SUBSET Metrics  BY RegisteredAreMade
    <2>3. EmissionTypes'  BY <1>3, <2>1, <2>2 DEF EmissionTypes
    <2>4. StatisticsTypes'  BY <1>3, <2>1 DEF StatisticsTypes
    <2>5. CountedInv'  BY <1>2, <2>1, CountedFrame DEF IInv
    <2>6. \A v \in Workers : \A i \in left'[v] : i <= made
      BY <1>3, <2>1, RegisteredAreMade DEF IInv, StatisticsInv
    <2>7. \A v \in Workers : worker'[v] = "resets" => worker[v] = "resets"
      BY <1>3, <2>1
    <2>8. StatisticsInv'
      BY <1>2, <2>1, <2>6, <2>7 DEF IInv, StatisticsInv, FromDerived
    <2>9. QED
      BY <1>1, <1>4, <2>3, <2>4, <2>5, <2>8, PipelineFrame DEF IInv, RecordInv
  <1>6. CASE EmitMetrics(w)
    <2>1. PICK i \in left[w] :
            /\ at' = [at EXCEPT ![w] = i]
            /\ taken' = [taken EXCEPT ![w] = gathered[derived[i]]]
            /\ overlapped' = overlapped \cup ValuesOf(Handling(derived[i]))
      BY <1>6 DEF EmitMetrics
    <2>2. /\ worker' = [worker EXCEPT ![w] = "resets"]
          /\ UNCHANGED <<mtx, left, gathered, counted>>
      BY <1>6 DEF EmitMetrics
    <2>3. /\ i \in Metrics /\ i <= made /\ derived[i] \in Metrics
          /\ gathered[derived[i]] \in SUBSET Values
      BY <1>3 DEF IInv, StatisticsInv
    <2>4. ValuesOf(Handling(derived[i])) \subseteq Values
      BY BusyValues DEF ValuesOf, Handling
    <2>5. EmissionTypes'  BY <1>3, <2>1, <2>2, <2>3 DEF EmissionTypes
    <2>6. StatisticsTypes'  BY <1>3, <2>1, <2>2, <2>4 DEF StatisticsTypes
    <2>7. CountedInv'  BY <1>2, <2>2, CountedFrame DEF IInv
    <2>8. ASSUME NEW v \in Workers, worker'[v] = "resets"
          PROVE  FromDerived(taken'[v], derived[at'[v]]) /\ at'[v] <= made
      <3>1. CASE v = w
        <4>1. taken'[v] = gathered[derived[i]] /\ at'[v] = i
          BY <1>3, <2>1, <3>1
        <4>2. FromDerived(gathered[derived[i]], derived[i])
          BY <2>3 DEF IInv, StatisticsInv
        <4>3. QED  BY <2>3, <4>1, <4>2
      <3>2. CASE v # w
        <4>1. taken'[v] = taken[v] /\ at'[v] = at[v] /\ worker[v] = "resets"
          BY <1>3, <2>1, <2>2, <2>8, <3>2
        <4>2. QED  BY <4>1 DEF IInv, StatisticsInv
      <3>3. QED  BY <3>1, <3>2
    <2>9. StatisticsInv'
      BY <1>2, <2>2, <2>8 DEF IInv, StatisticsInv, FromDerived
    <2>10. QED
      BY <1>1, <1>4, <2>5, <2>6, <2>7, <2>9, PipelineFrame DEF IInv, RecordInv
  <1>7. CASE ResetDerived(w)
    <2> DEFINE i == at[w]
               e == [metric |-> i, values |-> taken[w], tags |-> tags[i]]
    <2>1. /\ worker[w] = "resets" /\ writer[i] = None
          /\ counted' \in {counted, counted \cup {e}}
          /\ gathered' = [gathered EXCEPT ![derived[i]] = {}]
          /\ left' = [left EXCEPT ![w] = left[w] \ {i}]
          /\ at' = [at EXCEPT ![w] = 1] /\ taken' = [taken EXCEPT ![w] = {}]
          /\ worker' = [worker EXCEPT ![w] = "emitting"]
          /\ UNCHANGED <<mtx, overlapped>>
      BY <1>7 DEF ResetDerived
    <2>2. i \in Metrics /\ i <= made /\ derived[i] \in Metrics
      BY <1>3, <2>1 DEF IInv, StatisticsInv
    <2>3. EmissionTypes'  BY <1>3, <2>1 DEF EmissionTypes
    <2>4. StatisticsTypes'  BY <1>3, <2>1 DEF StatisticsTypes
    <2>5. /\ e.metric = i /\ e.values = taken[w] /\ e.tags = tags[i]
      OBVIOUS
    <2> HIDE DEF e
    <2>6. CountedInv'
      <3>1. i \notin torn => tags[i] \in settled[i]
        BY <2>1, <2>2 DEF IInv, SettledInv
      <3>2. QED  BY <1>2, <2>1, <2>2, <2>5, <3>1 DEF IInv, CountedInv
    <2>7. \A x \in counted' : FromDerived(x.values, derived[x.metric])
      <3>1. FromDerived(e.values, derived[e.metric])
        BY <2>1, <2>5 DEF IInv, StatisticsInv
      <3>2. QED  BY <2>1, <3>1 DEF IInv, StatisticsInv
    <2>8. \A v \in Workers : worker'[v] = "resets" =>
            /\ worker[v] = "resets" /\ taken'[v] = taken[v] /\ at'[v] = at[v]
      BY <1>3, <2>1
    <2>9. \A v \in Workers : left'[v] \subseteq left[v]  BY <1>3, <2>1
    <2>10. \A x \in Metrics : gathered'[x] \subseteq gathered[x]
      BY <1>3, <2>1
    <2>11. StatisticsInv'
      BY <1>2, <2>7, <2>8, <2>9, <2>10 DEF IInv, StatisticsInv, FromDerived
    <2>12. QED
      BY <1>1, <1>4, <2>3, <2>4, <2>6, <2>11, PipelineFrame DEF IInv, RecordInv
  <1>8. CASE EmitUnlocks(w)
    <2>1. /\ mtx' = None /\ worker' = [worker EXCEPT ![w] = "sends"]
          /\ UNCHANGED <<left, at, taken, gathered, counted, overlapped>>
      BY <1>8 DEF EmitUnlocks, statistics
    <2>2. EmissionTypes'  BY <1>3, <2>1 DEF EmissionTypes
    <2>3. StatisticsTypes'  BY <1>3, <2>1 DEF StatisticsTypes
    <2>4. CountedInv'  BY <1>2, <2>1, CountedFrame DEF IInv
    <2>5. \A v \in Workers : worker'[v] = "resets" => worker[v] = "resets"
      BY <1>3, <2>1
    <2>6. StatisticsInv'
      BY <1>2, <2>1, <2>5 DEF IInv, StatisticsInv, FromDerived
    <2>7. QED
      BY <1>1, <1>4, <2>2, <2>3, <2>4, <2>6, PipelineFrame DEF IInv, RecordInv
  <1>9. QED  BY <1>5, <1>6, <1>7, <1>8 DEF EmitDerivedMetrics

LEMMA PipelineStep ==
    ASSUME IInv, Shed \/ \E w \in Workers : Flush(w)
    PROVE  IInv'
  BY FlushStep, EmitStep DEF Flush

-----------------------------------------------------------------------------
(* What is recorded is counted.  A value is accounted for once a statistic  *)
(* has it or it was handled in a race; up to those, what a HandleMessage    *)
(* has read and what an emission has taken is what derived metrics hold.    *)

Accounted(n) == n \in overlapped \/ Counted(n)

\* Messages that derived metrics have handled and that are not sent yet.
Handled == {message[a] : a \in {b \in App : pc[b] = "enqueues"}} \cup underway
             \cup UNION {batch[w] : w \in Workers}

\* A message is of an instance that exists.
HandledInv == \A m \in Handled \cup sent : m.metric \in Metrics /\ m.metric <= made

\* Who meets another in HandleMessage, or a worker before its Reset, has raced.
RivalInv ==
    \A a \in App : pc[a] = "writes" =>
        LET d == derived[message[a].metric] IN
        /\ \A b \in Handling(d) \ {a} : Accounted(message[a].value)
        /\ Resetting(d) => Accounted(message[a].value)

\* What is not accounted for is in what a goroutine has read if it is in what it
\* will write back to, and in what a worker has taken if it will reset it.
AgreeInv ==
    /\ \A a \in App : pc[a] = "writes" =>
         \A n \in Values : ~Accounted(n) =>
             (n \in read[a] <=> n \in gathered[derived[message[a].metric]])
    /\ \A w \in Workers : worker[w] = "resets" =>
         \A n \in gathered[derived[at[w]]] : n \in taken[w] \/ Accounted(n)

\* Derived metrics hold what they have handled until it is accounted for.
HeldInv ==
    \A m \in Handled :
        m.value \in gathered[derived[m.metric]] \/ Accounted(m.value)

\* Before a worker sends, it has emitted what its messages were handled by.
EmittedInv ==
    \A w \in Workers : \A m \in batch[w] : m.metric \in Registered =>
        /\ worker[w] \in {"emitting", "resets"} =>
             m.metric \in left[w] \/ Accounted(m.value)
        /\ worker[w] = "sends" => Accounted(m.value)

CountingInv == HandledInv /\ RivalInv /\ AgreeInv /\ HeldInv /\ EmittedInv
                 /\ SentIsCounted

LEMMA BusyMade ==
    ASSUME IInv, NEW a \in App, pc[a] \in {"handles", "writes", "enqueues"}
    PROVE  /\ message[a].value \in Values /\ message[a].metric \in Metrics
           /\ message[a].metric <= made
  <1>1. message[a] \in Message /\ message[a].value \in 1..recorded
          /\ message[a] = log[message[a].value]
    BY DEF IInv, BusyOK, MessageInv
  <1>2. log[message[a].value].metric <= made  BY <1>1 DEF IInv, LogInv
  <1>3. QED  BY <1>1, <1>2 DEF Message

\* Steps that change neither the statistics nor what a worker does: a new instance
\* disturbs nobody, and the registry takes no other one in.
LEMMA CountingFrame ==
    ASSUME IInv, CountingInv,
           UNCHANGED <<batch, sent, worker, left, at, taken, gathered, counted,
                       overlapped, read>>,
           Handled' \subseteq Handled,
           \A i \in Metrics : i <= made =>
               /\ i <= made' /\ derived'[i] = derived[i]
               /\ i \in Registered' => i \in Registered,
           \A a \in App : pc'[a] = "writes" =>
               pc[a] = "writes" /\ message'[a] = message[a]
    PROVE  CountingInv'
  <1>1. \A n : Accounted(n)' <=> Accounted(n)
    BY DEF Accounted, Counted
  <1>2. \A w \in Workers : batch[w] \subseteq Handled
    BY DEF Handled
  <1>3. \A m \in Handled \cup sent :
          /\ m.metric \in Metrics /\ m.metric <= made
          /\ m.metric <= made' /\ derived'[m.metric] = derived[m.metric]
          /\ m.metric \in Registered' => m.metric \in Registered
    BY DEF CountingInv, HandledInv
  <1>4. \A a \in App : pc'[a] = "writes" =>
          /\ pc[a] = "writes" /\ message'[a] = message[a]
          /\ derived'[message'[a].metric] = derived[message[a].metric]
    BY BusyMade
  <1>5. \A w \in Workers : worker[w] = "resets" => derived'[at[w]] = derived[at[w]]
    BY DEF IInv, TypeOK, StatisticsInv
  <1>6. HandledInv'  BY <1>3 DEF HandledInv
  <1>7. RivalInv'
    <2>1. SUFFICES ASSUME NEW a \in App, pc'[a] = "writes"
                   PROVE  /\ \A b \in App \ {a} :
                               pc'[b] = "writes" /\ derived'[message'[b].metric]
                                   = derived'[message'[a].metric] =>
                                 Accounted(message[a].value)
                          /\ \A w \in Workers :
                               worker[w] = "resets" /\ derived'[at[w]]
                                   = derived'[message'[a].metric] =>
                                 Accounted(message[a].value)
      BY <1>1, <1>4 DEF RivalInv, Handling, Resetting
    <2>2. QED
      BY <1>4, <1>5, <2>1 DEF CountingInv, RivalInv, Handling, Resetting
  <1>8. AgreeInv'
    BY <1>1, <1>4, <1>5 DEF CountingInv, AgreeInv
  <1>9. HeldInv'  BY <1>1, <1>3 DEF CountingInv, HeldInv
  <1>10. EmittedInv'  BY <1>1, <1>2, <1>3 DEF CountingInv, EmittedInv
  <1>11. SentIsCounted'
    BY <1>1, <1>3 DEF CountingInv, SentIsCounted, Accounted
  <1>12. QED
    BY <1>6, <1>7, <1>8, <1>9, <1>10, <1>11 DEF CountingInv

LEMMA SameHandled ==
    ASSUME UNCHANGED <<underway, batch>>,
           \A a \in App : pc'[a] = "enqueues" =>
               pc[a] = "enqueues" /\ message'[a] = message[a]
    PROVE  Handled' \subseteq Handled
  BY DEF Handled

\* Instances, the registry, tags, and a message that is made.
LEMMA CallsCount ==
    ASSUME IInv, CountingInv, NEW a \in App, Calls(a) \/ SetOne(a) \/ TagHere(a)
    PROVE  CountingInv'
  <1>1. UNCHANGED <<pipeline, statistics, read>>
    BY DEF Calls, SetOne, TagHere, Build, WithTags, WithDimensionalTags,
           UnregisterMetric, SetTags, RemoveTag, WithTagsHere, SetGlobalTag,
           MakeMessage, setters, recording
  <1>2. UNCHANGED <<underway, batch, sent, worker, left, at, taken, gathered,
                    counted, overlapped, read>>
    BY <1>1 DEF pipeline, emission, statistics
  <1>3. /\ pc \in [App -> {"idle", "sets", "tags", "handles", "writes", "enqueues"}]
        /\ message = [b \in App |-> message[b]]
        /\ made \in 0..MaxMetrics
        /\ derived \in [Metrics -> Metrics]
    BY DEF IInv, TypeOK, BusyOK
  <1>4. \A b \in App : pc'[b] \in {"writes", "enqueues"} =>
                         pc'[b] = pc[b] /\ message'[b] = message[b]
    <2>1. CASE UNCHANGED setters  BY <2>1 DEF setters, recording
    <2>2. CASE MakeMessage(a, target[a]) \/ \E i \in Metrics : MakeMessage(a, i)
      BY <1>3, <2>2 DEF MakeMessage
    <2>3. CASE \E i \in Metrics : SetTags(a, i) \/ RemoveTag(a, i) \/ WithTagsHere(a, i)
      BY <1>3, <2>3 DEF SetTags, RemoveTag, WithTagsHere, recording
    <2>4. CASE SetOne(a) \/ TagHere(a)
      BY <1>3, <2>4 DEF SetOne, TagHere, recording
    <2>5. QED
      BY <2>1, <2>2, <2>3, <2>4 DEF Calls, Build, WithTags, WithDimensionalTags,
         UnregisterMetric, SetGlobalTag
  <1>5. \A i \in Metrics : i <= made =>
          /\ i <= made' /\ derived'[i] = derived[i]
          /\ i \in Registered' => i \in Registered
    <2>1. CASE Build(a) \/ \E i \in Metrics : WithTags(a, i) \/ WithDimensionalTags(a, i)
      <3>1. /\ made' = made + 1
            /\ \E x : derived' = [derived EXCEPT ![made + 1] = x]
            /\ UNCHANGED MetricMap \/ \E t : MetricMap' = MapWith(made + 1, t)
        BY <2>1 DEF Build, WithTags, WithDimensionalTags, MakeVariant, Make,
                    CloneDerived
      <3>2. SUFFICES ASSUME NEW i \in Metrics, i <= made
                     PROVE  /\ i <= made' /\ derived'[i] = derived[i]
                            /\ i \in Registered' => i \in Registered
        OBVIOUS
      <3>3. i <= made + 1 /\ i # made + 1  BY <1>3, <3>2 DEF Metrics
      <3>4. \A k \in Tags : MetricMap'[k] = MetricMap[k] \/ MetricMap'[k] = made + 1
        BY <3>1 DEF IInv, TypeOK, MapWith
      <3>5. QED  BY <1>3, <3>1, <3>3, <3>4 DEF Registered
    <2>2. CASE UnregisterMetric(a)
      <3>1. \A k \in Tags : MetricMap'[k] = MetricMap[k] \/ MetricMap'[k] = 0
        BY <2>2 DEF UnregisterMetric, IInv, TypeOK
      <3>2. QED  BY <2>2, <3>1 DEF UnregisterMetric, Registered
    <2>3. CASE UNCHANGED instances
      BY <2>3 DEF instances, Registered
    <2>4. QED
      BY <2>1, <2>2, <2>3 DEF Calls, SetOne, TagHere, SetTags, RemoveTag,
         WithTagsHere, SetGlobalTag, MakeMessage, registry
  <1>6. Handled' \subseteq Handled  BY <1>2, <1>4, SameHandled
  <1>7. QED  BY <1>2, <1>4, <1>5, <1>6, CountingFrame

\* A goroutine reads the derived metrics: it agrees with them, and notes rivals.
LEMMA ReadsCount ==
    ASSUME IInv, CountingInv, NEW a \in App, HandleReads(a)
    PROVE  CountingInv'
  <1> DEFINE d == derived[message[a].metric]
             rivals == Handling(d) \cup (IF Resetting(d) THEN {a} ELSE {})
  <1>1. /\ pc[a] = "handles" /\ pc' = [pc EXCEPT ![a] = "writes"]
        /\ read' = [read EXCEPT ![a] = gathered[d]]
        /\ overlapped' = IF rivals = {} THEN overlapped
                         ELSE overlapped \cup ValuesOf(rivals \cup {a})
        /\ UNCHANGED <<message, pipeline, gathered, counted, derived, made,
                       MetricMap>>
    BY DEF HandleReads, registry, instances
  <1>2. UNCHANGED <<underway, batch, sent, worker, left, at, taken>>
    BY <1>1 DEF pipeline, emission
  <1>3. /\ pc'[a] = "writes" /\ read'[a] = gathered[d]
        /\ \A b \in App : b # a => pc'[b] = pc[b] /\ read'[b] = read[b]
    BY <1>1 DEF IInv, TypeOK
  <1>4. \A n : Accounted(n) => Accounted(n)'
    BY <1>1 DEF Accounted, Counted
  <1>5. \A b \in rivals \cup {a} : rivals # {} => Accounted(message[b].value)'
    BY <1>1 DEF Accounted, ValuesOf
  <1> HIDE DEF rivals
  <1>6. /\ Handled' \subseteq Handled /\ Registered' = Registered
        /\ \A x : Resetting(x)' <=> Resetting(x)
    BY <1>1, <1>2, <1>3 DEF Handled, Registered, Resetting
  <1>7. HandledInv'
    BY <1>1, <1>2, <1>6 DEF CountingInv, HandledInv
  <1>8. RivalInv'
    <2>1. SUFFICES ASSUME NEW x \in App, pc'[x] = "writes",
                          \/ \E b \in App \ {x} : /\ pc'[b] = "writes"
                               /\ derived[message[b].metric]
                                    = derived[message[x].metric]
                          \/ Resetting(derived[message[x].metric])
                   PROVE  Accounted(message[x].value)'
      BY <1>1, <1>6 DEF RivalInv, Handling
    <2>2. CASE x = a
      <3>1. rivals # {}
        BY <1>1, <1>3, <2>1, <2>2 DEF rivals, Handling
      <3>2. QED  BY <1>5, <2>2, <3>1
    <2>3. CASE x # a
      <3>1. pc[x] = "writes"  BY <1>3, <2>1, <2>3
      <3>2. CASE Accounted(message[x].value)
        <4>1. Accounted(message[x].value) => Accounted(message[x].value)'
          BY <1>1 DEF Accounted, Counted
        <4>2. QED  BY <3>2, <4>1
      <3>3. CASE ~Accounted(message[x].value)
        <4>1. derived[message[x].metric] = d
          BY <1>3, <2>1, <3>1, <3>3 DEF CountingInv, RivalInv, Handling
        <4>2. x \in rivals  BY <3>1, <4>1 DEF rivals, Handling
        <4>3. QED  BY <1>5, <4>2
      <3>4. QED  BY <3>2, <3>3
    <2>4. QED  BY <2>2, <2>3
  <1>9. AgreeInv'
    BY <1>1, <1>2, <1>3, <1>4 DEF CountingInv, AgreeInv
  <1>10. HeldInv'  BY <1>1, <1>4, <1>6 DEF CountingInv, HeldInv
  <1>11. EmittedInv'  BY <1>2, <1>4, <1>6 DEF CountingInv, EmittedInv
  <1>12. SentIsCounted'
    BY <1>2, <1>4, <1>6 DEF CountingInv, SentIsCounted, Accounted
  <1>13. QED
    BY <1>7, <1>8, <1>9, <1>10, <1>11, <1>12 DEF CountingInv

\* It writes them back: what it had not read was accounted for.
LEMMA WritesCount ==
    ASSUME IInv, CountingInv, NEW a \in App, HandleWrites(a)
    PROVE  CountingInv'
  <1> DEFINE d == derived[message[a].metric]
             v == message[a].value
  <1>1. /\ pc[a] = "writes" /\ pc' = [pc EXCEPT ![a] = "enqueues"]
        /\ read' = [read EXCEPT ![a] = {}]
        /\ gathered' = [gathered EXCEPT ![d] = read[a] \cup {v}]
        /\ UNCHANGED <<message, pipeline, counted, overlapped, derived, made,
                       MetricMap>>
    BY DEF HandleWrites, registry, instances
  <1>2. UNCHANGED <<underway, batch, sent, worker, left, at, taken>>
    BY <1>1 DEF pipeline, emission
  <1>3. /\ pc'[a] = "enqueues"
        /\ \A b \in App : b # a => pc'[b] = pc[b] /\ read'[b] = read[b]
        /\ v \in Values /\ message[a].metric \in Metrics
        /\ message[a].metric <= made /\ d \in Metrics
        /\ read[a] \subseteq Values
    BY <1>1, BusyMade DEF IInv, TypeOK
  <1>4. /\ gathered'[d] = read[a] \cup {v}
        /\ \A x \in Metrics : x # d => gathered'[x] = gathered[x]
        /\ gathered \in [Metrics -> SUBSET Values]
        /\ derived \in [Metrics -> Metrics]
    BY <1>1, <1>3 DEF IInv, TypeOK
  <1>5. \A n : Accounted(n)' <=> Accounted(n)
    BY <1>1 DEF Accounted, Counted
  <1>6. /\ Handled' \subseteq Handled \cup {message[a]}
        /\ Registered' = Registered
    BY <1>1, <1>2, <1>3 DEF Handled, Registered
  <1>7. \A n \in Values : ~Accounted(n) => (n \in read[a] <=> n \in gathered[d])
    BY <1>1 DEF CountingInv, AgreeInv
  <1>8. HandledInv'
    BY <1>1, <1>2, <1>3, <1>6 DEF CountingInv, HandledInv
  <1>9. RivalInv'
    BY <1>1, <1>2, <1>3, <1>5 DEF CountingInv, RivalInv, Handling, Resetting
  <1>10. AgreeInv'
    <2>1. ASSUME NEW x \in App, pc'[x] = "writes", NEW n \in Values, ~Accounted(n)
          PROVE  n \in read'[x] <=> n \in gathered'[derived[message[x].metric]]
      <3>1. x # a /\ pc[x] = "writes" /\ read'[x] = read[x]
              /\ message[x].metric \in Metrics
        BY <1>3, <2>1, BusyMade
      <3>2. n \in read[x] <=> n \in gathered[derived[message[x].metric]]
        BY <2>1, <3>1 DEF CountingInv, AgreeInv
      <3>3. CASE derived[message[x].metric] = d
        <4>1. Accounted(v)
          BY <1>1, <3>1, <3>3 DEF CountingInv, RivalInv, Handling
        <4>2. QED  BY <1>4, <1>7, <2>1, <3>1, <3>2, <3>3, <4>1
      <3>4. CASE derived[message[x].metric] # d
        BY <1>4, <3>1, <3>2, <3>4
      <3>5. QED  BY <3>3, <3>4
    <2>2. ASSUME NEW w \in Workers, worker[w] = "resets",
                 NEW n \in gathered'[derived[at[w]]]
          PROVE  n \in taken[w] \/ Accounted(n)
      <3>1. derived[at[w]] \in Metrics  BY <1>4 DEF IInv, TypeOK
      <3>2. CASE derived[at[w]] = d
        <4>1. Accounted(v)
          BY <1>1, <2>2, <3>2 DEF CountingInv, RivalInv, Resetting
        <4>2. n = v \/ n \in gathered[d] \/ Accounted(n)
          BY <1>3, <1>4, <1>7, <2>2, <3>2
        <4>3. QED  BY <2>2, <3>2, <4>1, <4>2 DEF CountingInv, AgreeInv
      <3>3. CASE derived[at[w]] # d
        BY <1>4, <2>2, <3>1, <3>3 DEF CountingInv, AgreeInv
      <3>4. QED  BY <3>2, <3>3
    <2>3. QED  BY <1>1, <1>2, <1>5, <2>1, <2>2 DEF AgreeInv
  <1>11. HeldInv'
    <2>1. SUFFICES ASSUME NEW m \in Handled \cup {message[a]}
                   PROVE  m.value \in gathered'[derived[m.metric]]
                            \/ Accounted(m.value)
      BY <1>1, <1>5, <1>6 DEF HeldInv
    <2>2. CASE m = message[a]  BY <1>4, <2>2
    <2>3. CASE m \in Handled
      <3>1. m.metric \in Metrics  BY <2>3 DEF CountingInv, HandledInv
      <3>2. m.value \in gathered[derived[m.metric]] \/ Accounted(m.value)
        BY <2>3 DEF CountingInv, HeldInv
      <3>3. derived[m.metric] \in Metrics  BY <1>4, <3>1
      <3>4. QED  BY <1>4, <1>7, <3>2, <3>3
    <2>4. QED  BY <2>1, <2>2, <2>3
  <1>12. EmittedInv'  BY <1>2, <1>5, <1>6 DEF CountingInv, EmittedInv
  <1>13. SentIsCounted'
    BY <1>2, <1>5, <1>6 DEF CountingInv, SentIsCounted, Accounted
  <1>14. QED
    BY <1>8, <1>9, <1>10, <1>11, <1>12, <1>13 DEF CountingInv

LEMMA EnqueueCounts ==
    ASSUME IInv, CountingInv, NEW a \in App, EnqueueMetric(a)
    PROVE  CountingInv'
  <1>1. /\ pc[a] = "enqueues" /\ pc' = [pc EXCEPT ![a] = "idle"]
        /\ underway' = underway \cup {message[a]}
        /\ message' = [message EXCEPT ![a] = None]
        /\ UNCHANGED <<batch, sent, worker, left, at, taken, gathered, counted,
                       overlapped, read, made, derived, MetricMap>>
    BY DEF EnqueueMetric, registry, instances, emission, statistics
  <1>2. /\ pc'[a] = "idle"
        /\ \A b \in App : b # a => pc'[b] = pc[b] /\ message'[b] = message[b]
    BY <1>1 DEF IInv, TypeOK, BusyOK
  <1>3. Handled' \subseteq Handled  BY <1>1, <1>2 DEF Handled
  <1>4. Registered' = Registered  BY <1>1 DEF Registered
  <1>5. QED  BY <1>1, <1>2, <1>3, <1>4, CountingFrame

\* Steps of the pipeline that neither feed nor empty derived metrics.
LEMMA PipelineCounts ==
    ASSUME IInv, CountingInv,
           UNCHANGED <<made, derived, MetricMap, pc, message, read, gathered,
                       counted, overlapped>>,
           Handled' \subseteq Handled,
           \A w \in Workers : worker'[w] = "resets" =>
               worker[w] = "resets" /\ at'[w] = at[w] /\ taken'[w] = taken[w],
           \A w \in Workers : \A m \in batch'[w] : m.metric \in Registered =>
               /\ worker'[w] \in {"emitting", "resets"} =>
                    m.metric \in left'[w] \/ Accounted(m.value)
               /\ worker'[w] = "sends" => Accounted(m.value),
           \A m \in sent' :
               /\ m.metric \in Metrics /\ m.metric <= made
               /\ m.metric \in Registered => Accounted(m.value)
    PROVE  CountingInv'
  <1>1. /\ \A n : Accounted(n)' <=> Accounted(n)
        /\ Registered' = Registered
    BY DEF Accounted, Counted, Registered
  <1>2. HandledInv'  BY DEF CountingInv, HandledInv
  <1>3. RivalInv'
    BY <1>1 DEF CountingInv, RivalInv, Handling, Resetting
  <1>4. AgreeInv'  BY <1>1 DEF CountingInv, AgreeInv
  <1>5. HeldInv'  BY <1>1 DEF CountingInv, HeldInv
  <1>6. EmittedInv'  BY <1>1 DEF EmittedInv
  <1>7. SentIsCounted'  BY <1>1 DEF SentIsCounted, Accounted
  <1>8. QED
    BY <1>2, <1>3, <1>4, <1>5, <1>6, <1>7 DEF CountingInv

LEMMA FlushCounts ==
    ASSUME IInv, CountingInv,
           Shed \/ \E w \in Workers : \/ Take(w) \/ FlushReads(w) \/ EmitLocks(w)
                                      \/ EmitUnlocks(w) \/ Send(w)
    PROVE  CountingInv'
  <1>1. /\ UNCHANGED <<modes, registry, setters, statistics>>
        /\ UNCHANGED <<at, taken>>
    BY DEF Shed, Take, FlushReads, EmitLocks, EmitUnlocks, Send, emission
  <1>2. UNCHANGED <<made, derived, MetricMap, pc, message, read, gathered, counted,
                    overlapped>>
    BY <1>1 DEF registry, instances, setters, recording, statistics
  <1>3. /\ worker \in [Workers -> {"idle", "emits", "emitting", "resets", "sends"}]
        /\ batch \in [Workers -> SUBSET Message]
        /\ left \in [Workers -> SUBSET Metrics]
    BY DEF IInv, TypeOK
  <1>4. /\ \A w \in Workers : batch[w] \subseteq Handled
        /\ \A m \in sent : /\ m.metric \in Metrics /\ m.metric <= made
                           /\ m.metric \in Registered => Accounted(m.value)
    BY DEF Handled, CountingInv, HandledInv, SentIsCounted, Accounted
  <1>5. CASE Shed
    <2>1. underway' \subseteq underway /\ UNCHANGED <<batch, sent, worker, left>>
      BY <1>5 DEF Shed, emission
    <2>2. Handled' \subseteq Handled  BY <1>2, <2>1 DEF Handled
    <2>3. QED
      BY <1>2, <2>1, <2>2, <1>1, <1>4, PipelineCounts DEF CountingInv, EmittedInv
  <1>6. ASSUME NEW w \in Workers, Take(w)  PROVE CountingInv'
    <2>1. PICK m \in underway : /\ underway' = underway \ {m}
                                /\ batch' = [batch EXCEPT ![w] = @ \cup {m}]
      BY <1>6 DEF Take
    <2>2. worker[w] = "idle" /\ UNCHANGED <<worker, left, sent>>
      BY <1>6 DEF Take, emission
    <2>3. /\ batch'[w] = batch[w] \cup {m}
          /\ \A v \in Workers : v # w => batch'[v] = batch[v]
      BY <1>3, <2>1
    <2>4. Handled' \subseteq Handled  BY <1>2, <2>1, <2>3 DEF Handled
    <2>5. \A v \in Workers : \A x \in batch'[v] : x.metric \in Registered =>
               /\ worker'[v] \in {"emitting", "resets"} =>
                    x.metric \in left'[v] \/ Accounted(x.value)
               /\ worker'[v] = "sends" => Accounted(x.value)
      BY <2>2, <2>3 DEF CountingInv, EmittedInv
    <2>6. QED  BY <1>1, <1>2, <1>4, <2>2, <2>4, <2>5, PipelineCounts
  <1>7. ASSUME NEW w \in Workers, FlushReads(w) \/ EmitLocks(w) \/ EmitUnlocks(w)
        PROVE  CountingInv'
    <2>1. /\ UNCHANGED <<underway, batch, sent>>
          /\ \/ worker' = [worker EXCEPT ![w] = "emits"] /\ UNCHANGED left
             \/ /\ worker' = [worker EXCEPT ![w] = "emitting"]
                /\ left' = [left EXCEPT ![w] = Registered]
             \/ /\ worker' = [worker EXCEPT ![w] = "sends"] /\ UNCHANGED left
                /\ worker[w] = "emitting" /\ left[w] = {}
      BY <1>7 DEF FlushReads, EmitLocks, EmitUnlocks, emission
    <2>2. Handled' \subseteq Handled  BY <1>2, <2>1 DEF Handled
    <2>3. \A v \in Workers : v # w => worker'[v] = worker[v] /\ left'[v] = left[v]
      BY <1>3, <2>1
    <2>4. ASSUME NEW v \in Workers, NEW m \in batch[v], m.metric \in Registered
          PROVE  /\ worker'[v] \in {"emitting", "resets"} =>
                      m.metric \in left'[v] \/ Accounted(m.value)
                 /\ worker'[v] = "sends" => Accounted(m.value)
      <3>1. /\ worker[v] \in {"emitting", "resets"} =>
                 m.metric \in left[v] \/ Accounted(m.value)
            /\ worker[v] = "sends" => Accounted(m.value)
        BY <2>4 DEF CountingInv, EmittedInv
      <3>2. CASE v # w  BY <2>3, <3>1, <3>2
      <3>3. CASE v = w  BY <1>3, <2>1, <2>4, <3>1, <3>3
      <3>4. QED  BY <3>2, <3>3
    <2>5. \A v \in Workers : worker'[v] = "resets" => worker[v] = "resets"
      BY <1>3, <2>1
    <2>6. QED  BY <1>1, <1>2, <1>4, <2>1, <2>2, <2>4, <2>5, PipelineCounts
  <1>8. ASSUME NEW w \in Workers, Send(w)  PROVE CountingInv'
    <2>1. /\ worker[w] = "sends" /\ worker' = [worker EXCEPT ![w] = "idle"]
          /\ batch' = [batch EXCEPT ![w] = {}] /\ UNCHANGED <<underway, left>>
          /\ sent' \subseteq sent \cup {Delivery(m, snapshot[w]) : m \in batch[w]}
      BY <1>8 DEF Send, emission
    <2>2. /\ worker'[w] = "idle" /\ batch'[w] = {}
          /\ \A v \in Workers : v # w => worker'[v] = worker[v] /\ batch'[v] = batch[v]
      BY <1>3, <2>1
    <2>3. Handled' \subseteq Handled  BY <1>2, <2>1, <2>2 DEF Handled
    <2>4. \A m \in batch[w] :
            /\ Delivery(m, snapshot[w]).metric = m.metric
            /\ Delivery(m, snapshot[w]).value = m.value
            /\ m.metric \in Metrics /\ m.metric <= made
            /\ m.metric \in Registered => Accounted(m.value)
      BY <1>4, <2>1 DEF Delivery, CountingInv, HandledInv, EmittedInv
    <2>5. \A m \in sent' : /\ m.metric \in Metrics /\ m.metric <= made
                           /\ m.metric \in Registered => Accounted(m.value)
      BY <1>4, <2>1, <2>4
    <2>6. \A v \in Workers : \A x \in batch'[v] : x.metric \in Registered =>
               /\ worker'[v] \in {"emitting", "resets"} =>
                    x.metric \in left'[v] \/ Accounted(x.value)
               /\ worker'[v] = "sends" => Accounted(x.value)
      BY <2>1, <2>2 DEF CountingInv, EmittedInv
    <2>7. QED  BY <1>1, <1>2, <2>2, <2>3, <2>5, <2>6, PipelineCounts
  <1>9. QED  BY <1>5, <1>6, <1>7, <1>8

\* A worker takes what derived metrics hold, and notes whom it has overtaken.
LEMMA EmitCounts ==
    ASSUME IInv, CountingInv, NEW w \in Workers, EmitMetrics(w)
    PROVE  CountingInv'
  <1>1. PICK i \in left[w] :
          /\ at' = [at EXCEPT ![w] = i]
          /\ taken' = [taken EXCEPT ![w] = gathered[derived[i]]]
          /\ overlapped' = overlapped \cup ValuesOf(Handling(derived[i]))
    BY DEF EmitMetrics
  <1>2. /\ worker[w] = "emitting" /\ worker' = [worker EXCEPT ![w] = "resets"]
        /\ UNCHANGED <<made, derived, MetricMap, pc, message, read, underway, batch,
                       sent, left, gathered, counted>>
    BY DEF EmitMetrics, registry, instances, setters, recording
  <1>3. /\ worker'[w] = "resets" /\ at'[w] = i /\ taken'[w] = gathered[derived[i]]
        /\ \A v \in Workers : v # w =>
             worker'[v] = worker[v] /\ at'[v] = at[v] /\ taken'[v] = taken[v]
    BY <1>1, <1>2 DEF IInv, TypeOK
  <1>4. /\ \A n : Accounted(n) => Accounted(n)'
        /\ \A a \in Handling(derived[i]) : Accounted(message[a].value)'
    BY <1>1, <1>2 DEF Accounted, Counted, ValuesOf
  <1>5. /\ Handled' = Handled /\ Registered' = Registered
        /\ \A x : Handling(x)' = Handling(x)
    BY <1>2 DEF Handled, Registered, Handling
  <1>6. HandledInv'  BY <1>2, <1>5 DEF CountingInv, HandledInv
  <1>7. RivalInv'
    <2>1. SUFFICES ASSUME NEW a \in App, pc[a] = "writes",
                          \/ Handling(derived[message[a].metric]) \ {a} # {}
                          \/ \E v \in Workers : worker'[v] = "resets"
                               /\ derived[at'[v]] = derived[message[a].metric]
                   PROVE  Accounted(message[a].value)'
      BY <1>2, <1>5 DEF RivalInv, Resetting
    <2>2. CASE Accounted(message[a].value)
      <3>1. Accounted(message[a].value) => Accounted(message[a].value)'
        BY <1>1, <1>2 DEF Accounted, Counted
      <3>2. QED  BY <2>2, <3>1
    <2>3. CASE ~Accounted(message[a].value)
      <3>1. derived[i] = derived[message[a].metric]
        BY <1>3, <2>1, <2>3 DEF CountingInv, RivalInv, Resetting
      <3>2. a \in Handling(derived[i])  BY <2>1, <3>1 DEF Handling
      <3>3. QED  BY <1>4, <3>2
    <2>4. QED  BY <2>2, <2>3
  <1>8. AgreeInv'
    BY <1>2, <1>3, <1>4 DEF CountingInv, AgreeInv
  <1>9. HeldInv'  BY <1>2, <1>4, <1>5 DEF CountingInv, HeldInv
  <1>10. EmittedInv'
    BY <1>2, <1>3, <1>4, <1>5 DEF CountingInv, EmittedInv
  <1>11. SentIsCounted'
    BY <1>2, <1>4, <1>5 DEF CountingInv, SentIsCounted, Accounted
  <1>12. QED
    BY <1>6, <1>7, <1>8, <1>9, <1>10, <1>11 DEF CountingInv

\* It resets them: what they held was taken, or accounted for.
LEMMA ResetCounts ==
    ASSUME IInv, CountingInv, NEW w \in Workers, ResetDerived(w)
    PROVE  CountingInv'
  <1> DEFINE i == at[w]
             d == derived[i]
             e == [metric |-> i, values |-> taken[w], tags |-> tags[i]]
  <1>1. /\ worker[w] = "resets" /\ worker' = [worker EXCEPT ![w] = "emitting"]
        /\ counted' = IF taken[w] = {} THEN counted ELSE counted \cup {e}
        /\ gathered' = [gathered EXCEPT ![d] = {}]
        /\ left' = [left EXCEPT ![w] = left[w] \ {i}]
        /\ at' = [at EXCEPT ![w] = 1] /\ taken' = [taken EXCEPT ![w] = {}]
        /\ UNCHANGED <<made, derived, MetricMap, pc, message, read, underway, batch,
                       sent, overlapped>>
    BY DEF ResetDerived, registry, instances, setters, recording
  <1>2. /\ worker'[w] = "emitting" /\ left'[w] = left[w] \ {i}
        /\ \A v \in Workers : v # w =>
             /\ worker'[v] = worker[v] /\ left'[v] = left[v]
             /\ at'[v] = at[v] /\ taken'[v] = taken[v]
    BY <1>1 DEF IInv, TypeOK
  <1>3. /\ derived \in [Metrics -> Metrics] /\ i \in Metrics /\ d \in Metrics
        /\ gathered'[d] = {}
        /\ \A x \in Metrics : x # d => gathered'[x] = gathered[x]
    BY <1>1 DEF IInv, TypeOK
  <1>4. e.values = taken[w]  OBVIOUS
  <1> HIDE DEF e
  <1>5. /\ \A n : Accounted(n) => Accounted(n)'
        /\ \A n \in taken[w] : Accounted(n)'
    BY <1>1, <1>4 DEF Accounted, Counted
  <1>6. \A n \in gathered[d] : Accounted(n)'
    BY <1>1, <1>5 DEF CountingInv, AgreeInv
  <1>7. /\ Handled' = Handled /\ Registered' = Registered
        /\ \A x : Handling(x)' = Handling(x)
        /\ \A x : Resetting(x)' => Resetting(x)
    BY <1>1, <1>2 DEF Handled, Registered, Handling, Resetting
  <1>8. HandledInv'  BY <1>1, <1>7 DEF CountingInv, HandledInv
  <1>9. RivalInv'  BY <1>1, <1>5, <1>7 DEF CountingInv, RivalInv
  <1>10. AgreeInv'
    <2>1. ASSUME NEW a \in App, pc[a] = "writes", NEW n \in Values, ~Accounted(n)'
          PROVE  n \in read[a] <=> n \in gathered'[derived[message[a].metric]]
      <3>1. n \in read[a] <=> n \in gathered[derived[message[a].metric]]
        BY <1>5, <2>1 DEF CountingInv, AgreeInv
      <3>2. derived[message[a].metric] \in Metrics
        BY <1>3, <2>1, BusyMade
      <3>3. QED  BY <1>3, <1>6, <2>1, <3>1, <3>2
    <2>2. ASSUME NEW v \in Workers, worker'[v] = "resets",
                 NEW n \in gathered'[derived[at'[v]]]
          PROVE  n \in taken'[v] \/ Accounted(n)'
      <3>1. v # w /\ worker[v] = "resets" /\ at'[v] = at[v] /\ taken'[v] = taken[v]
              /\ derived[at[v]] \in Metrics
        BY <1>2, <1>3, <2>2 DEF IInv, TypeOK
      <3>2. n \in gathered[derived[at[v]]]  BY <1>3, <2>2, <3>1
      <3>3. QED  BY <1>5, <3>1, <3>2 DEF CountingInv, AgreeInv
    <2>3. QED  BY <1>1, <2>1, <2>2 DEF AgreeInv
  <1>11. HeldInv'
    <2>1. SUFFICES ASSUME NEW m \in Handled
                   PROVE  m.value \in gathered'[derived[m.metric]]
                            \/ Accounted(m.value)'
      BY <1>1, <1>7 DEF HeldInv
    <2>2. derived[m.metric] \in Metrics
      BY <1>3 DEF CountingInv, HandledInv
    <2>3. QED  BY <1>3, <1>5, <1>6, <2>2 DEF CountingInv, HeldInv
  <1>12. EmittedInv'
    <2>1. SUFFICES ASSUME NEW v \in Workers, NEW m \in batch[v],
                          m.metric \in Registered
                   PROVE  /\ worker'[v] \in {"emitting", "resets"} =>
                               m.metric \in left'[v] \/ Accounted(m.value)'
                          /\ worker'[v] = "sends" => Accounted(m.value)'
      BY <1>1, <1>7 DEF EmittedInv
    <2>2. CASE v = w
      <3>1. m.metric \in left[w] \/ Accounted(m.value)
        BY <1>1, <2>1, <2>2 DEF CountingInv, EmittedInv
      <3>2. m.metric = i => Accounted(m.value)'
        <4>1. m \in Handled  BY <2>2 DEF Handled
        <4>2. QED  BY <1>5, <1>6, <4>1 DEF CountingInv, HeldInv
      <3>3. QED  BY <1>2, <1>5, <2>2, <3>1, <3>2
    <2>3. CASE v # w
      BY <1>2, <1>5, <2>1, <2>3 DEF CountingInv, EmittedInv
    <2>4. QED  BY <2>2, <2>3
  <1>13. SentIsCounted'
    BY <1>1, <1>5, <1>7 DEF CountingInv, SentIsCounted, Accounted
  <1>14. QED
    BY <1>8, <1>9, <1>10, <1>11, <1>12, <1>13 DEF CountingInv

LEMMA CountingStep ==
    ASSUME IInv, CountingInv, [Next]_vars  PROVE CountingInv'
  <1>1. CASE UNCHANGED vars
    <2>1. UNCHANGED <<underway, batch, sent, worker, left, at, taken, gathered,
                      counted, overlapped, read, made, derived, MetricMap, pc,
                      message>>
      BY <1>1 DEF vars, registry, instances, setters, recording, pipeline, emission,
                  statistics
    <2>2. Handled' \subseteq Handled /\ Registered' = Registered
      BY <2>1 DEF Handled, Registered
    <2>3. QED  BY <2>1, <2>2, CountingFrame
  <1>2. CASE Next
    <2>1. ASSUME NEW a \in App, Calls(a) \/ SetOne(a) \/ TagHere(a) \/ Record(a)
          PROVE  CountingInv'
      BY <2>1, CallsCount, ReadsCount, WritesCount, EnqueueCounts DEF Record
    <2>2. ASSUME NEW w \in Workers, Flush(w)  PROVE CountingInv'
      BY <2>2, FlushCounts, EmitCounts, ResetCounts DEF Flush, EmitDerivedMetrics
    <2>3. QED  BY <1>2, <2>1, <2>2, FlushCounts DEF Next
  <1>3. QED  BY <1>1, <1>2

LEMMA CountingInit == ASSUME Init PROVE CountingInv
  <1>1. /\ Handled = {} /\ sent = {} /\ \A w \in Workers : batch[w] = {}
        /\ \A a \in App : pc[a] = "idle"
        /\ \A w \in Workers : worker[w] = "idle"
    BY DEF Init, Handled
  <1>2. QED
    BY <1>1 DEF CountingInv, HandledInv, RivalInv, AgreeInv, HeldInv, EmittedInv,
                SentIsCounted

-----------------------------------------------------------------------------
(* The theorems. *)

LEMMA Inductive == Spec => []IInv
  <1>1. IInv /\ [Next]_vars => IInv'
    <2>1. SUFFICES ASSUME IInv, [Next]_vars  PROVE IInv'
      OBVIOUS
    <2>2. CASE UNCHANGED vars
      <3>1. UNCHANGED <<modes, registry, setters, pipeline, statistics,
                        globalTags, changes>>
        BY <2>2 DEF vars
      <3>2. UNCHANGED <<made, derived, torn, settled, recorded, log, pc, message,
                        read, gathered, counted, worker, left, at, taken>>
        BY <3>1 DEF registry, instances, setters, recording, pipeline, emission,
                    statistics
      <3>3. TypeOK'
        BY <2>1, <3>1, <3>2, TypeParts, UnchangedTypes DEF IInv
      <3>4. RecordInv'  BY <2>1, <3>1, RecordFrame DEF IInv, RecordInv
      <3>5. StatisticsInv' /\ CountedInv'
        BY <2>1, <3>2, StatisticsFrame, CountedFrame DEF IInv
      <3>6. QED  BY <3>3, <3>4, <3>5 DEF IInv, RecordInv
    <2>3. CASE Next
      <3>1. ASSUME NEW a \in App, Calls(a) \/ SetOne(a) \/ TagHere(a) \/ Record(a)
            PROVE  IInv'
        BY <2>1, <3>1, BuildStep, UnregisterStep, BeginTagsStep, SetOneStep,
           MakeMessageStep, HandleStep, EnqueueStep DEF Calls, Record
      <3>2. QED  BY <2>1, <2>3, <3>1, PipelineStep DEF Next
    <2>4. QED  BY <2>1, <2>2, <2>3
  <1>2. QED  BY <1>1, InitIInv, PTL DEF Spec

\* Every variable keeps its type; the global tags, which are merged into the
\* tags of a message on its way out, never get into the tags of a metric.
THEOREM RegistryTypeCorrect == Spec => []TypeOK
  <1>1. IInv => TypeOK  BY DEF IInv
  <1>2. QED  BY <1>1, Inductive, PTL

\* The tags of a message, and those of a statistic, are tags that its metric had
\* while no call was changing them, never half of what a call of SetTags sets.
THEOREM ReportsAreSettled == Spec => []ReportedTagsAreSettled
  <1>1. IInv => ReportedTagsAreSettled
    BY DEF IInv, LogInv, CountedInv, ReportedTagsAreSettled
  <1>2. QED  BY <1>1, Inductive, PTL

\* The statistics of an instance are computed from its own values, or from those of
\* others that the same builder built, however many variants were made from them;
\* but variants share them if they cannot be cloned.
THEOREM StatisticsAreApart == Spec => []StatisticsKeepApart
  <1>1. ASSUME IInv  PROVE StatisticsKeepApart
    <2>1. SUFFICES ASSUME NEW e \in counted, NEW n \in e.values,
                          log[n].metric # e.metric
                   PROVE  /\ builder[log[n].metric] = builder[e.metric]
                          /\ cloneable =>
                               {log[n].metric, e.metric} \cap variants = {}
      BY DEF StatisticsKeepApart
    <2> DEFINE i == log[n].metric
               j == e.metric
    <2>2. /\ n \in 1..recorded /\ derived[i] = derived[j]
          /\ j \in Metrics /\ j <= made
      BY <1>1 DEF IInv, StatisticsInv, FromDerived, CountedInv
    <2>3. i \in Metrics /\ i <= made
      BY <1>1, <2>2 DEF IInv, LogInv, BusyOK, Message
    <2>4. /\ derived[i] = IF cloneable /\ i \in variants THEN i ELSE builder[i]
          /\ derived[j] = IF cloneable /\ j \in variants THEN j ELSE builder[j]
          /\ builder[i] \notin variants /\ builder[j] \notin variants
      BY <1>1, <2>2, <2>3 DEF IInv, DerivedInv
    <2>5. i # j  BY <2>1
    <2> HIDE DEF i, j
    <2>6. builder[i] = builder[j] /\ (cloneable => {i, j} \cap variants = {})
      BY <2>2, <2>4, <2>5
    <2>7. QED  BY <2>6 DEF i, j
  <1>2. QED  BY <1>1, Inductive, PTL

\* A value whose message is sent is in a statistic by then, if its metric is
\* registered: enqueueMessage feeds the derived metrics before it enqueues, and a
\* flush emits before it sends.  Only a race of HandleMessage wipes a value.
THEOREM SentValuesAreCounted == Spec => []SentIsCounted
  <1>1. CountingInv => SentIsCounted  BY DEF CountingInv
  <1>2. Init => CountingInv  BY CountingInit
  <1>3. IInv /\ CountingInv /\ [Next]_vars => CountingInv'  BY CountingStep
  <1>4. QED  BY <1>1, <1>2, <1>3, Inductive, PTL DEF Spec

=============================================================================
