---------------------------- MODULE MetricRegistry ----------------------------
(***************************************************************************)
(* Who a metric is, and whose statistics are reported: base_metric.go (its *)
(* tags, variants and the message of a value) and the registry of          *)
(* processor.go (MetricMap, the global tags, emitDerivedMetrics and the    *)
(* merging of tags in flushMessages), for the metrics of one key.          *)
(*                                                                         *)
(* A metric feeds the derived metrics that it was built with, which are    *)
(* those of its builder; a variant has clones of them, or shares them if   *)
(* they cannot be cloned.  HandleMessage, EmitMetrics and Reset of derived *)
(* metrics have no lock in common.  What is computed from the values is    *)
(* the business of DerivedMetrics, and what becomes of a message between   *)
(* enqueueMetric and the transport that of MetricsProcessor: here a        *)
(* message is underway, in a worker's batch, shed, or sent.                *)
(***************************************************************************)
EXTENDS Naturals

CONSTANTS
    App,            \* goroutines of the game server
    Workers,        \* processWorker goroutines
    TagKeys,
    MetricValues,   \* values of tags that the application gives to metrics,
    Invalid,        \*   one that ValidateTagValue refuses,
    GlobalValues,   \*   and those that it gives to global tags
    None,           \* no such tag; nobody
    NewTags,        \* bound: the maps of tags given to builders and variants,
    TagArgs,        \*   and those that change a metric
    MaxMetrics,     \* bound: instances of the metric
    MaxValues,      \* bound: values recorded
    MaxChanges      \* bound: changes of tags and of the registry

Values == 1..MaxValues
Metrics == 1..MaxMetrics
Tags == [TagKeys -> MetricValues \cup {Invalid, None}]
GlobalTags == [TagKeys -> GlobalValues \cup {None}]
NoTags == [k \in TagKeys |-> None]
Message == [value : Values, metric : Metrics, tags : Tags]

ASSUME RegistryAssumption ==
    /\ MaxMetrics \in Nat \ {0} /\ MaxValues \in Nat /\ MaxChanges \in Nat
    /\ None \notin App \cup Workers
    /\ None \notin MetricValues \cup GlobalValues \cup {Invalid}
    /\ \A T \in NewTags \cup TagArgs :
         /\ DOMAIN T \subseteq TagKeys /\ DOMAIN T # {}
         /\ \A k \in DOMAIN T : T[k] \in MetricValues \cup {Invalid}
ASSUME ValuesAssumption == MetricValues \cap GlobalValues = {}

VARIABLES
    dimensional,    \* enableDimensionalMetrics, read from the environment once
    cloneable,      \* the application's derived metrics can be cloned; of no
                    \*   interest without dimensional metrics
    made,           \* how many instances there are
    tags,           \* the tags of each
    writer,         \* who holds its tagsMutex for writing
    builder,        \* the builder that made it, or what it is a variant of
    builderTags,    \* the tags that each builder holds
    derived,        \* the derived metrics that it feeds
    MetricMap,      \* the registry: composite key -> instance, 0 for none
    gathered,       \* the values that derived metrics hold
    mtx,            \* who emits derived metrics, with the processor's mutex
    globalTags,     \* the processor's global tags
    pc, target,     \* where each goroutine of the game server is, and with what
    todo,           \* the tags that it still has to set
    message,        \* the message that it is making
    read,           \* what its HandleMessage found
    recorded,       \* how many values were recorded
    underway,       \* messages between enqueueMetric and a worker
    worker, batch,  \* where each worker is, and its messages
    snapshot,       \* the global tags that its flush read
    left,           \* the instances whose derived metrics it still has to emit,
    at, taken,      \*   the one whose it is emitting, and what they held
    changes,        \* how much of MaxChanges is used
    crashed,        \* the runtime found a map that is read and written at once
    log,            \* history: the message of each value, as it was made
    variants,       \* history: the instances that were made from another
    settled,        \* history: the tags each had with no call changing them
    torn,           \* history: those whose tags were copied during such a call,
                    \*   or are variants of them
    overlapped,     \* history: values handled while their derived metrics were
                    \*   handling another, or emitted and not yet reset
    counted,        \* history: emissions, by instance
    sent,           \* history: messages with the tags the transport saw
    shed            \* history: values whose message was dropped or not sent

modes == <<dimensional, cloneable>>
instances == <<made, builder, builderTags, derived, MetricMap, variants, torn,
               crashed>>
registry == <<instances, tags, writer, settled>>
recording == <<message, read, recorded, log>>
setters == <<pc, target, todo, recording>>
emission == <<mtx, left, at, taken>>
pipeline == <<underway, worker, batch, snapshot, emission, sent, shed>>
statistics == <<gathered, counted, overlapped>>
vars == <<modes, registry, setters, pipeline, statistics, globalTags,
          changes>>

Registered == {MetricMap[k] : k \in Tags} \ {0}

\* createCompositeKey: tags are part of the identity only if enabled.
CompositeKey(t) == IF dimensional THEN t ELSE NoTags

\* A copy of t with T added, as every builder and variant makes it: nothing is
\* validated.
WithAll(t, T) == [k \in TagKeys |-> IF k \in DOMAIN T THEN T[k] ELSE t[k]]

Init ==
    /\ dimensional \in BOOLEAN
    /\ cloneable \in BOOLEAN /\ (dimensional \/ cloneable)
    /\ made = 0
    /\ tags = [i \in Metrics |-> NoTags] /\ writer = [i \in Metrics |-> None]
    /\ builder = [i \in Metrics |-> i] /\ derived = [i \in Metrics |-> i]
    /\ builderTags = [b \in Metrics |-> NoTags]
    /\ MetricMap = [k \in Tags |-> 0]
    /\ gathered = [i \in Metrics |-> {}]
    /\ globalTags = NoTags
    /\ pc = [a \in App |-> "idle"] /\ target = [a \in App |-> 1]
    /\ todo = [a \in App |-> <<>>] /\ message = [a \in App |-> None]
    /\ read = [a \in App |-> {}]
    /\ recorded = 0 /\ log = <<>>
    /\ underway = {} /\ worker = [w \in Workers |-> "idle"]
    /\ batch = [w \in Workers |-> {}] /\ snapshot = [w \in Workers |-> NoTags]
    /\ mtx = None /\ left = [w \in Workers |-> {}]
    /\ at = [w \in Workers |-> 1] /\ taken = [w \in Workers |-> {}]
    /\ changes = 0 /\ crashed = FALSE
    /\ variants = {} /\ settled = [i \in Metrics |-> {}] /\ torn = {}
    /\ counted = {} /\ overlapped = {} /\ sent = {} /\ shed = {}

-----------------------------------------------------------------------------
(* Instances: builders and variants. *)

Changes == changes < MaxChanges /\ changes' = changes + 1

\* registerMetric: the first instance with a composite key stays.
MapWith(i, t) ==
    IF MetricMap[CompositeKey(t)] = 0
    THEN [MetricMap EXCEPT ![CompositeKey(t)] = i] ELSE MetricMap

Make(i, t, S) ==
    /\ made' = i
    /\ tags' = [tags EXCEPT ![i] = t]
    /\ settled' = [settled EXCEPT ![i] = S]

\* Build: a new instance is registered.  It gets a copy of the builder's tags,
\* and the builder's derived metrics themselves: a builder may be new, or one
\* that has built before.  (The application gives each builder its own.)
Build(a) ==
    LET i == made + 1 IN
    /\ pc[a] = "idle" /\ made < MaxMetrics /\ mtx = None
    /\ \E b \in {i} \cup {builder[j] : j \in 1..made} :
       \E t \in {builderTags[b]} \cup {WithAll(builderTags[b], T) : T \in NewTags} :
         /\ Make(i, t, {t})
         /\ MetricMap' = MapWith(i, t)
         /\ builder' = [builder EXCEPT ![i] = b]
         /\ builderTags' = [builderTags EXCEPT ![b] = t]
         /\ derived' = [derived EXCEPT ![i] = b]
    /\ UNCHANGED <<modes, writer, variants, torn, crashed, setters, pipeline,
                   statistics, globalTags, changes>>

\* Copying b.tags takes no lock: the runtime may find that the map is being
\* written, and end the program; otherwise the copy may have half of a change.
ReadsUnlocked(i) ==
    /\ \/ crashed' = FALSE
       \/ writer[i] # None /\ crashed' = TRUE
    /\ torn' = IF writer[i] # None \/ i \in torn THEN torn \cup {made + 1}
               ELSE torn

(* Mutant: derived metrics are shared, as base_metric.go:152 has it. *)
CloneDerivedShares(i) ==
    derived' = [derived EXCEPT ![made + 1] = derived[i]]

\* cloneDerivedMetrics: a clone is empty.  A derived metric that is not a
\* DerivedMetricCloner, or whose Clone is nil, is shared.
CloneDerived(i) ==
    derived' = [derived EXCEPT ![made + 1] =
                  IF cloneable THEN made + 1 ELSE derived[i]]

\* A variant of i: its tags with some added.
MakeVariant(i, T) ==
    /\ Make(made + 1, WithAll(tags[i], T), {WithAll(t, T) : t \in settled[i]})
    /\ CloneDerived(i) /\ ReadsUnlocked(i)
    /\ builder' = [builder EXCEPT ![made + 1] = builder[i]]
    /\ variants' = variants \cup {made + 1}

\* withTags, when dimensional metrics are enabled: a registered variant.
WithTags(a, i) ==
    /\ dimensional /\ pc[a] = "idle" /\ i <= made /\ made < MaxMetrics
    /\ mtx = None
    /\ \E T \in NewTags :
         /\ MakeVariant(i, T)
         /\ MetricMap' = MapWith(made + 1, WithAll(tags[i], T))
    /\ UNCHANGED <<modes, writer, builderTags, setters, pipeline, statistics,
                   globalTags, changes>>

\* createDimensionalMetric: a variant that is not registered.  (If dimensional
\* metrics are disabled, WithDimensionalTags changes nothing.)
WithDimensionalTags(a, i) ==
    /\ dimensional /\ pc[a] = "idle" /\ i <= made /\ made < MaxMetrics
    /\ \E T \in NewTags : MakeVariant(i, T)
    /\ UNCHANGED <<modes, writer, MetricMap, builderTags, setters, pipeline,
                   statistics, globalTags, changes>>

\* UnregisterMetric takes the bare key, whatever the tags.
UnregisterMetric(a) ==
    /\ pc[a] = "idle" /\ MetricMap[NoTags] # 0 /\ mtx = None /\ Changes
    /\ MetricMap' = [MetricMap EXCEPT ![NoTags] = 0]
    /\ UNCHANGED <<modes, made, tags, writer, builder, builderTags, derived,
                   variants, settled, torn, crashed, setters, pipeline,
                   statistics, globalTags>>

-----------------------------------------------------------------------------
(* Tags. *)

\* SetTags locks the tags and sets them one by one ...
SetTags(a, i) ==
    /\ pc[a] = "idle" /\ i <= made /\ writer[i] = None /\ Changes
    /\ writer' = [writer EXCEPT ![i] = a]
    /\ pc' = [pc EXCEPT ![a] = "sets"] /\ target' = [target EXCEPT ![a] = i]
    /\ \E T \in TagArgs : todo' = [todo EXCEPT ![a] = T]
    /\ UNCHANGED <<modes, instances, tags, settled, recording, pipeline,
                   statistics, globalTags>>

\* ... and RemoveTag locks them and removes one.
RemoveTag(a, i) ==
    /\ pc[a] = "idle" /\ i <= made /\ writer[i] = None /\ Changes
    /\ writer' = [writer EXCEPT ![i] = a]
    /\ pc' = [pc EXCEPT ![a] = "sets"] /\ target' = [target EXCEPT ![a] = i]
    /\ \E k \in TagKeys : todo' = [todo EXCEPT ![a] = [x \in {k} |-> None]]
    /\ UNCHANGED <<modes, instances, tags, settled, recording, pipeline,
                   statistics, globalTags>>

Rest(T, k) == [x \in DOMAIN T \ {k} |-> T[x]]

(* Mutant: SetTags calls SetTag, which locks the tags for one of them. *)
SetOneReleasing(a) ==
    LET i == target[a] IN
    /\ pc[a] = "sets"
    /\ IF DOMAIN todo[a] = {}
       THEN /\ pc' = [pc EXCEPT ![a] = "idle"]
            /\ target' = [target EXCEPT ![a] = 1]
            /\ settled' = [settled EXCEPT ![i] = @ \cup {tags[i]}]
            /\ UNCHANGED <<tags, todo, writer>>
       ELSE \E k \in DOMAIN todo[a] :
            /\ todo' = [todo EXCEPT ![a] = Rest(todo[a], k)]
            /\ tags' = [tags EXCEPT ![i][k] =
                          IF todo[a][k] = Invalid THEN @ ELSE todo[a][k]]
            /\ writer' = [writer EXCEPT ![i] = None]
            /\ UNCHANGED <<pc, target, settled>>
    /\ UNCHANGED <<modes, instances, recording, pipeline, statistics,
                   globalTags, changes>>

\* One tag of those that are left, in the order of a Go map: none.  An invalid
\* one ends the call, and what was set stays.
SetOne(a) ==
    LET i == target[a]
        Returns == /\ writer' = [writer EXCEPT ![i] = None]
                   /\ pc' = [pc EXCEPT ![a] = "idle"]
                   /\ target' = [target EXCEPT ![a] = 1]
                   /\ todo' = [todo EXCEPT ![a] = <<>>]
                   /\ settled' = [settled EXCEPT ![i] = @ \cup {tags[i]}]
                   /\ UNCHANGED tags
    IN
    /\ pc[a] = "sets"
    /\ \/ DOMAIN todo[a] = {} /\ Returns
       \/ \E k \in DOMAIN todo[a] :
            \/ todo[a][k] = Invalid /\ Returns
            \/ /\ todo[a][k] # Invalid
               /\ tags' = [tags EXCEPT ![i][k] = todo[a][k]]
               /\ todo' = [todo EXCEPT ![a] = Rest(todo[a], k)]
               /\ UNCHANGED <<pc, target, writer, settled>>
    /\ UNCHANGED <<modes, instances, recording, pipeline, statistics,
                   globalTags, changes>>

\* withTags, when dimensional metrics are disabled, changes the instance: one
\* SetTag for each tag.  (Nothing reads tags without the lock in this mode.)
WithTagsHere(a, i) ==
    /\ ~dimensional /\ pc[a] = "idle" /\ i <= made /\ Changes
    /\ pc' = [pc EXCEPT ![a] = "tags"] /\ target' = [target EXCEPT ![a] = i]
    /\ \E T \in TagArgs : todo' = [todo EXCEPT ![a] = T]
    /\ UNCHANGED <<modes, registry, recording, pipeline, statistics,
                   globalTags>>

\* One of them: an invalid tag is logged and left out.
TagHere(a) ==
    LET i == target[a] IN
    /\ pc[a] = "tags" /\ writer[i] = None
    /\ \E k \in DOMAIN todo[a] :
         LET t == IF todo[a][k] = Invalid THEN tags[i]
                  ELSE [tags[i] EXCEPT ![k] = todo[a][k]]
             remaining == Rest(todo[a], k)
         IN /\ tags' = [tags EXCEPT ![i] = t]
            /\ settled' = [settled EXCEPT ![i] = @ \cup {t}]
            /\ todo' = [todo EXCEPT ![a] = remaining]
            /\ IF DOMAIN remaining = {}
               THEN /\ pc' = [pc EXCEPT ![a] = "idle"]
                    /\ target' = [target EXCEPT ![a] = 1]
               ELSE UNCHANGED <<pc, target>>
    /\ UNCHANGED <<modes, instances, writer, recording, pipeline, statistics,
                   globalTags, changes>>

\* SetGlobalTag and RemoveGlobalTag of the processor.
SetGlobalTag(a) ==
    /\ pc[a] = "idle" /\ mtx = None /\ Changes
    /\ \E k \in TagKeys, v \in GlobalValues \cup {None} :
         globalTags' = [globalTags EXCEPT ![k] = v]
    /\ UNCHANGED <<modes, registry, setters, pipeline, statistics>>

-----------------------------------------------------------------------------
(* A value: enqueueMessage. *)

\* The message gets a copy of the tags, read under the lock.
MakeMessage(a, i) ==
    LET m == [value |-> recorded + 1, metric |-> i, tags |-> tags[i]] IN
    /\ pc[a] = "idle" /\ i <= made /\ writer[i] = None /\ recorded < MaxValues
    /\ recorded' = recorded + 1
    /\ message' = [message EXCEPT ![a] = m]
    /\ log' = [n \in 1..recorded + 1 |-> IF n = recorded + 1 THEN m ELSE log[n]]
    /\ pc' = [pc EXCEPT ![a] = "handles"]
    /\ UNCHANGED <<modes, registry, target, todo, read, pipeline, statistics,
                   globalTags, changes>>

\* Who is in the HandleMessage of some derived metrics, and whether a worker is
\* between their EmitMetrics and their Reset: no lock keeps them apart.
Handling(d) == {a \in App : pc[a] = "writes" /\ derived[message[a].metric] = d}
Resetting(d) == \E w \in Workers : worker[w] = "resets" /\ derived[at[w]] = d

ValuesOf(A) == {message[a].value : a \in A}

\* The derived metrics of the instance handle it: they are read ...
HandleReads(a) ==
    LET d == derived[message[a].metric]
        rivals == Handling(d) \cup (IF Resetting(d) THEN {a} ELSE {})
    IN
    /\ pc[a] = "handles"
    /\ pc' = [pc EXCEPT ![a] = "writes"]
    /\ read' = [read EXCEPT ![a] = gathered[d]]
    /\ overlapped' = IF rivals = {} THEN overlapped
                     ELSE overlapped \cup ValuesOf(rivals \cup {a})
    /\ UNCHANGED <<modes, registry, target, todo, message, recorded, log,
                   pipeline, gathered, counted, globalTags, changes>>

\* ... and what was read is written back with the value; what has happened to
\* them since then is lost.
HandleWrites(a) ==
    /\ pc[a] = "writes"
    /\ gathered' = [gathered EXCEPT ![derived[message[a].metric]] =
                      read[a] \cup {message[a].value}]
    /\ read' = [read EXCEPT ![a] = {}]
    /\ pc' = [pc EXCEPT ![a] = "enqueues"]
    /\ UNCHANGED <<modes, registry, target, todo, message, recorded, log,
                   pipeline, counted, overlapped, globalTags, changes>>

\* ... and then it is enqueued.
EnqueueMetric(a) ==
    /\ pc[a] = "enqueues"
    /\ underway' = underway \cup {message[a]}
    /\ message' = [message EXCEPT ![a] = None]
    /\ pc' = [pc EXCEPT ![a] = "idle"]
    /\ UNCHANGED <<modes, registry, target, todo, read, recorded, log, worker,
                   batch, snapshot, emission, sent, shed, statistics,
                   globalTags, changes>>

Record(a) == HandleReads(a) \/ HandleWrites(a) \/ EnqueueMetric(a)

-----------------------------------------------------------------------------
(* The pipeline, and a worker's flushMessages. *)

\* The dispatcher drops a message when the queue is full.
Shed ==
    \E m \in underway :
        /\ underway' = underway \ {m} /\ shed' = shed \cup {m.value}
        /\ UNCHANGED <<modes, registry, setters, worker, batch, snapshot,
                       emission, sent, statistics, globalTags, changes>>

Take(w) ==
    /\ worker[w] = "idle"
    /\ \E m \in underway :
         /\ underway' = underway \ {m}
         /\ batch' = [batch EXCEPT ![w] = @ \cup {m}]
    /\ UNCHANGED <<modes, registry, setters, worker, snapshot, emission, sent,
                   shed, statistics, globalTags, changes>>

\* A flush of a batch that is not empty: first a copy of the global tags ...
FlushReads(w) ==
    /\ worker[w] = "idle" /\ batch[w] # {} /\ mtx = None
    /\ snapshot' = [snapshot EXCEPT ![w] = globalTags]
    /\ worker' = [worker EXCEPT ![w] = "emits"]
    /\ UNCHANGED <<modes, registry, setters, underway, batch, emission, sent,
                   shed, statistics, globalTags, changes>>

\* ... then emitDerivedMetrics: under the processor's mutex ...
EmitLocks(w) ==
    /\ worker[w] = "emits" /\ mtx = None
    /\ mtx' = w /\ left' = [left EXCEPT ![w] = Registered]
    /\ worker' = [worker EXCEPT ![w] = "emitting"]
    /\ UNCHANGED <<modes, registry, setters, underway, batch, snapshot, sent,
                   shed, at, taken, statistics, globalTags, changes>>

\* ... the derived metrics of each registered instance, in the order of a Go map,
\* emit what they have gathered ...
EmitMetrics(w) ==
    /\ worker[w] = "emitting"
    /\ \E i \in left[w] :
         /\ at' = [at EXCEPT ![w] = i]
         /\ taken' = [taken EXCEPT ![w] = gathered[derived[i]]]
         /\ overlapped' = overlapped \cup ValuesOf(Handling(derived[i]))
    /\ worker' = [worker EXCEPT ![w] = "resets"]
    /\ UNCHANGED <<modes, registry, setters, underway, batch, snapshot, sent,
                   shed, mtx, left, gathered, counted, globalTags, changes>>

(* Mutant: everything is reset as soon as one instance was emitted. *)
ResetDerivedOfAll(w) ==
    LET i == at[w]
        statistic == [metric |-> i, values |-> taken[w], tags |-> tags[i]]
        sources == {derived[j] : j \in Registered}
    IN
    /\ worker[w] = "resets" /\ writer[i] = None
    /\ counted' = IF taken[w] = {} THEN counted ELSE counted \cup {statistic}
    /\ gathered' = [d \in Metrics |-> IF d \in sources THEN {} ELSE gathered[d]]
    /\ left' = [left EXCEPT ![w] = @ \ {i}]
    /\ at' = [at EXCEPT ![w] = 1] /\ taken' = [taken EXCEPT ![w] = {}]
    /\ worker' = [worker EXCEPT ![w] = "emitting"]
    /\ UNCHANGED <<modes, registry, setters, underway, batch, snapshot, sent,
                   shed, mtx, overlapped, globalTags, changes>>

\* ... get the tags of the instance, read under their lock, and are reset ...
ResetDerived(w) ==
    LET i == at[w]
        statistic == [metric |-> i, values |-> taken[w], tags |-> tags[i]]
    IN
    /\ worker[w] = "resets" /\ writer[i] = None
    /\ counted' = IF taken[w] = {} THEN counted ELSE counted \cup {statistic}
    /\ gathered' = [gathered EXCEPT ![derived[i]] = {}]
    /\ left' = [left EXCEPT ![w] = @ \ {i}]
    /\ at' = [at EXCEPT ![w] = 1] /\ taken' = [taken EXCEPT ![w] = {}]
    /\ worker' = [worker EXCEPT ![w] = "emitting"]
    /\ UNCHANGED <<modes, registry, setters, underway, batch, snapshot, sent,
                   shed, mtx, overlapped, globalTags, changes>>

\* ... until all are.
EmitUnlocks(w) ==
    /\ worker[w] = "emitting" /\ left[w] = {}
    /\ mtx' = None
    /\ worker' = [worker EXCEPT ![w] = "sends"]
    /\ UNCHANGED <<modes, registry, setters, underway, batch, snapshot, sent,
                   shed, left, at, taken, statistics, globalTags, changes>>

EmitDerivedMetrics(w) ==
    EmitLocks(w) \/ EmitMetrics(w) \/ ResetDerived(w) \/ EmitUnlocks(w)

\* mergeTags: a global tag wins.
Merged(t, g) == [k \in TagKeys |-> IF g[k] # None THEN g[k] ELSE t[k]]

Delivery(m, g) == [value |-> m.value, metric |-> m.metric,
                   tags |-> Merged(m.tags, g)]

(* Mutant: a message has the map of its metric, not a copy, and mergeTags
   writes into it. *)
SendAliased(w) ==
    /\ worker[w] = "sends"
    /\ worker' = [worker EXCEPT ![w] = "idle"]
    /\ batch' = [batch EXCEPT ![w] = {}]
    /\ sent' = sent \cup {Delivery(m, snapshot[w]) : m \in batch[w]}
    /\ tags' = [i \in Metrics |->
                  IF \E m \in batch[w] : m.metric = i
                  THEN Merged(tags[i], snapshot[w]) ELSE tags[i]]
    /\ UNCHANGED <<modes, instances, writer, settled, setters, underway,
                   snapshot, emission, shed, statistics, globalTags, changes>>

\* ... and the messages are sent, with the global tags, or Send fails.
Send(w) ==
    /\ worker[w] = "sends"
    /\ worker' = [worker EXCEPT ![w] = "idle"]
    /\ batch' = [batch EXCEPT ![w] = {}]
    /\ snapshot' = [snapshot EXCEPT ![w] = NoTags]
    /\ \/ /\ sent' = sent \cup {Delivery(m, snapshot[w]) : m \in batch[w]}
          /\ UNCHANGED shed
       \/ /\ shed' = shed \cup {m.value : m \in batch[w]}
          /\ UNCHANGED sent
    /\ UNCHANGED <<modes, registry, setters, underway, emission, statistics,
                   globalTags, changes>>

Flush(w) == Take(w) \/ FlushReads(w) \/ EmitDerivedMetrics(w) \/ Send(w)

-----------------------------------------------------------------------------
Calls(a) ==
    \/ Build(a) \/ UnregisterMetric(a) \/ SetGlobalTag(a)
    \/ \E i \in Metrics : \/ WithTags(a, i) \/ WithDimensionalTags(a, i)
                          \/ SetTags(a, i) \/ RemoveTag(a, i)
                          \/ WithTagsHere(a, i) \/ MakeMessage(a, i)

Next ==
    /\ ~crashed
    /\ \/ \E a \in App : Calls(a) \/ SetOne(a) \/ TagHere(a) \/ Record(a)
       \/ Shed
       \/ \E w \in Workers : Flush(w)

Spec == Init /\ [][Next]_vars

-----------------------------------------------------------------------------
(* Properties. *)

\* Types of all variables.  That of tags says that global tags stay out of the
\* tags of a metric, although they are merged into those of its messages.
TypeOK ==
    /\ dimensional \in BOOLEAN /\ cloneable \in BOOLEAN /\ crashed \in BOOLEAN
    /\ made \in 0..MaxMetrics /\ changes \in 0..MaxChanges
    /\ tags \in [Metrics -> Tags] /\ builderTags \in [Metrics -> Tags]
    /\ writer \in [Metrics -> App \cup {None}]
    /\ builder \in [Metrics -> Metrics] /\ derived \in [Metrics -> Metrics]
    /\ MetricMap \in [Tags -> 0..made]
    /\ variants \subseteq Metrics /\ torn \subseteq Metrics
    /\ gathered \in [Metrics -> SUBSET Values] /\ overlapped \subseteq Values
    /\ globalTags \in GlobalTags
    /\ pc \in [App -> {"idle", "sets", "tags", "handles", "writes", "enqueues"}]
    /\ target \in [App -> Metrics] /\ read \in [App -> SUBSET Values]
    /\ \A a \in App : message[a] = None \/ message[a] \in Message
    /\ recorded \in 0..MaxValues
    /\ underway \subseteq Message
    /\ worker \in [Workers -> {"idle", "emits", "emitting", "resets", "sends"}]
    /\ batch \in [Workers -> SUBSET Message]
    /\ snapshot \in [Workers -> GlobalTags]
    /\ mtx \in Workers \cup {None} /\ left \in [Workers -> SUBSET Metrics]
    /\ at \in [Workers -> Metrics] /\ taken \in [Workers -> SUBSET Values]
    /\ shed \subseteq Values

Counted(n) == \E e \in counted : n \in e.values

\* A message and a statistic carry tags that their metric had while no call was
\* changing them, never half of what a call of SetTags sets under the lock: the
\* setters' copy of Tags, and that of emitDerivedMetrics, take it.  What a refused
\* call has set stays, and is such a tag; a variant whose tags were copied without
\* the lock, during such a call, is left out.
ReportedTagsAreSettled ==
    /\ \A n \in 1..recorded :
         log[n].metric \notin torn => log[n].tags \in settled[log[n].metric]
    /\ \A e \in counted : e.metric \notin torn => e.tags \in settled[e.metric]

\* What is reported as a statistic of one instance was recorded with it, or with
\* one that was built by the same builder; and a variant's values get into the
\* statistics of what it was made from, or the other way round, only if derived
\* metrics cannot be cloned.
StatisticsKeepApart ==
    \A e \in counted : \A n \in e.values :
        LET i == log[n].metric IN
        i # e.metric => /\ builder[i] = builder[e.metric]
                        /\ cloneable => {i, e.metric} \cap variants = {}

\* A value whose message is sent is in a statistic by then, if its metric is
\* registered, unless its derived metrics were busy when it came: enqueueMessage
\* feeds them before the queue, and a flush emits those of all instances before it
\* sends, so that nothing but a race wipes the value.
SentIsCounted ==
    \A m \in sent : m.metric \in Registered =>
        Counted(m.value) \/ m.value \in overlapped

-----------------------------------------------------------------------------
(* What the code does not keep. *)

\* counter_test.go:568, of two counters built by one builder: "Both should be
\* independent".  They share the builder's derived metrics, so that the values of
\* one are reported under the tags of the other.
StatisticsAreOfOne ==
    \A e \in counted : \A n \in e.values : log[n].metric = e.metric

\* base_metric.go:152 says of the feeding of derived metrics: "This works for
\* both base metrics and WithTags variants since they share derivedMetrics".  They
\* do not if they can be cloned: nobody ever emits what was recorded with a variant
\* that is not registered, which a second one with the same tags is not either.
VariantStatisticsAreCounted ==
    \A m \in sent : m.metric \in variants => Counted(m.value)

\* CUSTOM_METRICS.md:539: "metric-level tags overriding global tags".  mergeTags
\* lets the global tag win.
MetricTagsOverrideGlobal ==
    \A m \in sent : \A k \in TagKeys :
        log[m.value].tags[k] # None => m.tags[k] = log[m.value].tags[k]

\* base_metric_test.go:172, of concurrent changes of tags: "Should not panic and
\* should be consistent".  Making a variant reads the tags without their lock.
TagsAreNotRaced == ~crashed

\* A value handled between EmitMetrics and Reset (processor.go:657-663) is wiped,
\* though its message is sent: it is neither in a statistic nor waiting for one.
RecordedIsCounted ==
    \A m \in sent : m.metric \in Registered =>
        Counted(m.value) \/ \E d \in Metrics : m.value \in gathered[d]

\* TestWithTags_InvalidTagNotSet (processor_test.go:1614): an invalid tag is not
\* set.  It is when dimensional metrics are enabled, and by every builder.  (A run
\* shows it whose NewTags have one.)
TagsAreValid == \A i \in Metrics, k \in TagKeys : tags[i][k] # Invalid

=============================================================================
