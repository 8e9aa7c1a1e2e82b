--------------------------- MODULE DerivedMetrics ---------------------------
(***************************************************************************)
(* One registered metric of the SDK (gauge, counter or timer) with its     *)
(* sampler and its derived metrics.  The goroutines that set the metric    *)
(* feed the derived metrics; the workers of the processor emit and reset   *)
(* them under the processor's mutex, which the setters do not take.        *)
(*                                                                         *)
(* A HandleMessage is a read of the derived metric's fields and a write of *)
(* them; an EmitMetrics with its Reset is a read and a write as well.  An  *)
(* emission that overlaps a HandleMessage may copy any values for the      *)
(* percentiles (Copies).  Other tearing of the race is left out (a mean's  *)
(* sum without its count, a pointer that is reset before it is read): no   *)
(* property speaks of the statistics of an emission after a race.  Numbers *)
(* are exact here; the rounding of float64 is left out.                    *)
(* The path from enqueueMetric to a worker is that of MetricsProcessor;    *)
(* here a message is in it, or has been shed.                              *)
(***************************************************************************)
EXTENDS Integers, Sequences, FiniteSets, SequencesExt

CONSTANTS Setters,      \* goroutines of the application that set the metric
          Workers,      \* goroutines of processWorker
          Nobody,       \* no holder of the mutex
          Nil,          \* a nil pointer of Go
          Type,         \* metricType: "gauge", "counter" or "timer"
          Values,       \* the arguments they pass
          Sampler,      \* "all", "none" or "fraction"
          Lists,        \* lists of derived metrics a metric may be built with
          Percentiles,  \* the percentiles asked for, in tenths: 999 is P999
          MaxSets       \* bound: calls of the setters

percentileBase == 1000   \* 100.0, in tenths

ASSUME DerivedAssumption ==
    /\ Lists \subseteq Seq({"latest", "max", "min", "mean", "percentile"})
    /\ Type \in {"gauge", "counter", "timer"}
    /\ Percentiles \subseteq 0 .. percentileBase
    /\ MaxSets \in Nat
    /\ Values \subseteq Int /\ Nobody \notin Workers

(* The fields of a derived metric, by its kind; a nil pointer is none of   *)
(* the values that the code keeps.                                         *)
FieldsOf(kind) == CASE kind = "mean"       -> [sum : Int \cup {Nil}, count : Nat]
                    [] kind = "percentile" -> Seq(Int)
                    [] OTHER               -> Int \cup {Nil}
Entry(kind) == [fields : FieldsOf(kind), ids : Seq(1 .. MaxSets)]

ASSUME NilAssumption ==
    /\ Nil \notin Int
    /\ \A kind \in {"latest", "max", "min", "mean", "percentile"} : Nil \notin Entry(kind)

VARIABLES
    list,          \* the kinds of the metric's derived metrics, in their order
    calls,         \* history: argument and message (Nil if not sampled) of each call
    currentValue,  \* baseMetric.currentValue
    setter,        \* [pc, id, op, at, read] of each setter
    derived,       \* the fields of each derived metric, and the calls they account for
    mtx,           \* Processor.mtx as far as emitDerivedMetrics needs it
    worker,        \* [pc, at, out] of each worker
    queued,        \* messages on their way to a worker's flush
    emission,      \* the messages of the last complete emission
    counted,       \* history: how often an emission has accounted for each call
    raced          \* history: a HandleMessage has overlapped an emission or another

vars == <<list, calls, currentValue, setter, derived, mtx, worker, queued,
          emission, counted, raced>>

Kinds == 1 .. Len(list)

(***************************************************************************)
(* The derived metrics: what HandleMessage makes of their fields.          *)
(***************************************************************************)
LatestHandles(old, v) == v

MaxHandles(old, v) == IF old = Nil \/ v > old THEN v ELSE old

MinHandles(old, v) == IF old = Nil \/ v < old THEN v ELSE old

MeanHandles(old, v) == [sum   |-> IF old.sum = Nil THEN v ELSE old.sum + v,
                        count |-> old.count + 1]

PercentileHandles(old, v) == Append(old, v)

HandleMessage(kind, old, v) == CASE kind = "latest"     -> LatestHandles(old, v)
                                 [] kind = "max"        -> MaxHandles(old, v)
                                 [] kind = "min"        -> MinHandles(old, v)
                                 [] kind = "mean"       -> MeanHandles(old, v)
                                 [] kind = "percentile" -> PercentileHandles(old, v)

(* The fields after Reset, as after NewLatest and the others. *)
Reset(kind) == CASE kind = "mean"       -> [sum |-> Nil, count |-> 0]
                 [] kind = "percentile" -> <<>>
                 [] OTHER               -> Nil

(* percentileBase times the percentile p, by linear interpolation.         *)
CalculatePercentile(sorted, p) ==
    LET n      == Len(sorted)
        index  == p * (n - 1)     \* times percentileBase
        lower  == index \div percentileBase
        weight == index % percentileBase
    IN  IF lower + 1 >= n
        THEN percentileBase * sorted[n]
        ELSE sorted[lower + 1] * (percentileBase - weight) + sorted[lower + 2] * weight

(* Mutant: the values in their order of arrival. *)
SortedNot(values) == values

(* The values as sort.Float64s leaves them: in another order, not decreasing. *)
Sorted(values) ==
    LET order == CHOOSE p \in Bijection(DOMAIN values, DOMAIN values) :
                    \A j, k \in DOMAIN values : j < k => values[p[j]] <= values[p[k]]
    IN  [k \in DOMAIN values |-> values[order[k]]]

MeanEmits(f) == IF f.sum = Nil \/ f.count = 0 THEN Nil ELSE f   \* a fraction

PercentileEmits(f) == IF f = <<>> THEN Nil
                      ELSE LET sorted == Sorted(f)
                           IN  [p \in Percentiles |-> CalculatePercentile(sorted, p)]

(* The value, or values, of the messages of EmitMetrics; Nil for no message. *)
EmitMetrics(kind, f) == CASE kind = "mean"       -> MeanEmits(f)
                          [] kind = "percentile" -> PercentileEmits(f)
                          [] OTHER               -> f

(***************************************************************************)
(* Initial state: a metric that has been built, and its idle goroutines.   *)
(***************************************************************************)
Fresh(i) == [fields |-> Reset(list[i]), ids |-> <<>>]
NoCall == [pc |-> "idle", id |-> 0, op |-> "none", at |-> 0, read |-> Nil]
NoWork == [pc |-> "idle", at |-> 0, out |-> <<>>]

Init == /\ list \in Lists
        /\ calls = <<>>
        /\ currentValue = 0
        /\ setter = [s \in Setters |-> NoCall]
        /\ derived = [i \in Kinds |-> Fresh(i)]
        /\ mtx = Nobody
        /\ worker = [w \in Workers |-> NoWork]
        /\ queued = 0
        /\ emission = Nil
        /\ counted = [i \in Kinds |-> [n \in 1 .. MaxSets |-> 0]]
        /\ raced = FALSE

(***************************************************************************)
(* A call of Set, Add or SetDuration.                                      *)
(***************************************************************************)
(* What ShouldSample may answer. *)
Draws == CASE Sampler = "all"  -> {TRUE}
           [] Sampler = "none" -> {FALSE}
           [] OTHER            -> BOOLEAN

(* The calls that change a gauge: Set, Reset; Add, Increment and the like. *)
GaugeCalls == {"Set", "Add"}

(* Those of a counter: Add, Increment, Count. *)
CounterCalls == {"Add"}

(* Those of a timer: SetDuration, directly or when a measurement ends. *)
TimerCalls == {"SetDuration"}

Ops == CASE Type = "gauge"   -> GaugeCalls
         [] Type = "counter" -> CounterCalls
         [] Type = "timer"   -> TimerCalls

Updated(op, v) == IF op = "Add" THEN currentValue + v ELSE v

(* updateCurrentValue: the first draw decides about the current value. *)
UpdateCurrentValue(s, op, v) ==
    /\ setter[s].pc = "idle"
    /\ Len(calls) < MaxSets
    /\ calls' = Append(calls, [arg |-> v, msg |-> Nil])
    /\ \E sampled \in Draws :
          currentValue' = IF sampled THEN Updated(op, v) ELSE currentValue
    /\ setter' = [setter EXCEPT ![s] = [NoCall EXCEPT !.pc = "message",
                                                      !.id = Len(calls) + 1,
                                                      !.op = op]]
    /\ UNCHANGED <<list, derived, mtx, worker, queued, emission, counted, raced>>

(* A timer sends what CurrentValue returns, the others their argument. *)
MessageValue(s) == IF setter[s].op = "SetDuration" THEN currentValue
                                                   ELSE calls[setter[s].id].arg

(* enqueueMessage up to its second draw, which decides about the message. *)
MakeMessage(s) ==
    /\ setter[s].pc = "message"
    /\ \/ /\ TRUE \in Draws
          /\ calls' = [calls EXCEPT ![setter[s].id].msg = MessageValue(s)]
          /\ setter' = [setter EXCEPT ![s].pc = "read", ![s].at = 1]
       \/ /\ FALSE \in Draws
          /\ setter' = [setter EXCEPT ![s] = NoCall]
          /\ UNCHANGED calls
    /\ UNCHANGED <<list, currentValue, derived, mtx, worker, queued, emission,
                   counted, raced>>

(* Another access is under way: what "raced" notes when a read begins. *)
Inside(i, s) == setter[s].pc = "write" /\ setter[s].at = i
Emitting(w) == worker[w].pc \in {"emit", "reset"}

HandleReads(s) ==
    LET i == setter[s].at
    IN  /\ setter[s].pc = "read"
        /\ i \in Kinds
        /\ setter' = [setter EXCEPT ![s].pc = "write", ![s].read = derived[i]]
        /\ raced' = (raced \/ (\E w \in Workers : Emitting(w))
                           \/ (\E t \in Setters \ {s} : Inside(i, t)))
        /\ UNCHANGED <<list, calls, currentValue, derived, mtx, worker, queued,
                       emission, counted>>

HandleWrites(s) ==
    LET i == setter[s].at
    IN  /\ setter[s].pc = "write"
        /\ derived' = [derived EXCEPT ![i] =
                          [fields |-> HandleMessage(list[i], setter[s].read.fields,
                                                    calls[setter[s].id].msg),
                           ids    |-> Append(setter[s].read.ids, setter[s].id)]]
        /\ setter' = [setter EXCEPT ![s].pc = "read", ![s].at = i + 1, ![s].read = Nil]
        /\ UNCHANGED <<list, calls, currentValue, mtx, worker, queued, emission,
                       counted, raced>>

(* The derived metrics have the message; the pipeline takes it or sheds it. *)
Enqueue(s) ==
    /\ setter[s].pc = "read"
    /\ setter[s].at > Len(list)
    /\ queued' \in {queued, queued + 1}
    /\ setter' = [setter EXCEPT ![s] = NoCall]
    /\ UNCHANGED <<list, calls, currentValue, derived, mtx, worker, emission, counted,
                   raced>>

(***************************************************************************)
(* A worker that flushes a batch which is not empty: emitDerivedMetrics.   *)
(***************************************************************************)
Flush(w) ==
    /\ worker[w].pc = "idle"
    /\ \E taken \in 1 .. queued : queued' = queued - taken
    /\ worker' = [worker EXCEPT ![w].pc = "lock"]
    /\ UNCHANGED <<list, calls, currentValue, setter, derived, mtx, emission, counted,
                   raced>>

(* A call has given its message to some derived metrics, not yet to all.   *)
HalfHandled(s) == /\ setter[s].pc \in {"read", "write"}
                  /\ setter[s].at \in Kinds
                  /\ setter[s].pc = "write" \/ setter[s].at > 1

(* Mutant: the mutex is not waited for. *)
EmitLocksUnguarded(w) ==
    /\ worker[w].pc = "lock"
    /\ mtx' = w
    /\ worker' = [worker EXCEPT ![w] = [pc |-> "emit", at |-> 1, out |-> <<>>]]
    /\ raced' = (raced \/ \E s \in Setters : HalfHandled(s))
    /\ UNCHANGED <<list, calls, currentValue, setter, derived, queued, emission, counted>>

EmitLocks(w) ==
    /\ worker[w].pc = "lock"
    /\ mtx = Nobody
    /\ mtx' = w
    /\ worker' = [worker EXCEPT ![w] = [pc |-> "emit", at |-> 1, out |-> <<>>]]
    /\ raced' = (raced \/ \E s \in Setters : HalfHandled(s))
    /\ UNCHANGED <<list, calls, currentValue, setter, derived, queued, emission, counted>>

(* What EmitMetrics sees of the fields.  The values of percentiles are read *)
(* by their length, by make and by copy (percentile.go:56-62); meanwhile an *)
(* append (51) may move or lengthen them, and what a Reset has left (82) be *)
(* overwritten: the copy has some values that were sent, and zeros.         *)
Copies(i) ==
    LET sent == {c \in DOMAIN calls : calls[c].msg # Nil}
    IN  IF raced /\ list[i] = "percentile"
        THEN UNION {[1 .. n -> {calls[c].msg : c \in sent} \cup {0}] : n \in 0 .. Cardinality(sent)}
        ELSE {derived[i].fields}

EmitReads(w) ==
    LET i == worker[w].at
    IN  /\ worker[w].pc = "emit"
        /\ i \in Kinds
        /\ \E copy \in Copies(i) :
              worker' = [worker EXCEPT
                            ![w].pc = "reset",
                            ![w].out = Append(@, [result |-> EmitMetrics(list[i], copy),
                                                  ids |-> derived[i].ids])]
        /\ UNCHANGED <<list, calls, currentValue, setter, derived, mtx, queued, emission,
                       counted, raced>>

(* Mutant: the derived metric is emitted, not reset. *)
ResetDerivedForgotten(w) ==
    LET i   == worker[w].at
        ids == worker[w].out[i].ids
    IN  /\ worker[w].pc = "reset"
        /\ counted' = [counted EXCEPT ![i] =
                          [n \in 1 .. MaxSets |->
                              @[n] + Cardinality({k \in DOMAIN ids : ids[k] = n})]]
        /\ worker' = [worker EXCEPT ![w].pc = "emit", ![w].at = i + 1]
        /\ UNCHANGED <<list, calls, currentValue, setter, derived, mtx, queued, emission,
                       raced>>

(* Reset; "counted" notes what this emission of the metric has accounted for. *)
ResetDerived(w) ==
    LET i   == worker[w].at
        ids == worker[w].out[i].ids
    IN  /\ worker[w].pc = "reset"
        /\ derived' = [derived EXCEPT ![i] = Fresh(i)]
        /\ counted' = [counted EXCEPT ![i] =
                          [n \in 1 .. MaxSets |->
                              @[n] + Cardinality({k \in DOMAIN ids : ids[k] = n})]]
        /\ worker' = [worker EXCEPT ![w].pc = "emit", ![w].at = i + 1]
        /\ UNCHANGED <<list, calls, currentValue, setter, mtx, queued, emission, raced>>

EmitUnlocks(w) ==
    /\ worker[w].pc = "emit"
    /\ worker[w].at > Len(list)
    /\ mtx' = Nobody
    /\ emission' = worker[w].out
    /\ worker' = [worker EXCEPT ![w] = NoWork]
    /\ UNCHANGED <<list, calls, currentValue, setter, derived, queued, counted, raced>>

Next == \/ \E s \in Setters : \/ \E op \in Ops, v \in Values : UpdateCurrentValue(s, op, v)
                              \/ MakeMessage(s)
                              \/ HandleReads(s)
                              \/ HandleWrites(s)
                              \/ Enqueue(s)
        \/ \E w \in Workers : \/ Flush(w)
                              \/ EmitLocks(w)
                              \/ EmitReads(w)
                              \/ ResetDerived(w)
                              \/ EmitUnlocks(w)

Spec == Init /\ [][Next]_vars

-----------------------------------------------------------------------------
(***************************************************************************)
(* Properties.                                                             *)
(***************************************************************************)
Calls == 1 .. Len(calls)
Messages == {calls[n].msg : n \in Calls} \ {Nil}

CallType == [pc : {"idle", "message", "read", "write"}, id : 0 .. MaxSets,
             op : Ops \cup {"none"}, at : 0 .. Len(list) + 1]
WorkType == [pc : {"idle", "lock", "emit", "reset"}, at : 0 .. Len(list) + 1]

(* Type invariant: every goroutine is where its code can be, and only the  *)
(* holder of the mutex emits (processor.go:644-645).                       *)
TypeOK ==
    /\ Len(calls) <= MaxSets
    /\ currentValue \in Int
    /\ \A s \in Setters :
          /\ [pc |-> setter[s].pc, id |-> setter[s].id, op |-> setter[s].op,
              at |-> setter[s].at] \in CallType
          /\ setter[s].pc = "write" <=> setter[s].read # Nil
          /\ setter[s].pc \in {"read", "write"} => calls[setter[s].id].msg # Nil
    /\ \A w \in Workers :
          /\ [pc |-> worker[w].pc, at |-> worker[w].at] \in WorkType
          /\ Emitting(w) <=> mtx = w
    /\ mtx \in Workers \cup {Nobody}
    /\ queued \in 0 .. MaxSets
    /\ raced \in BOOLEAN

(* How often the fields of derived metric i account for call n. *)
Held(i, n) == Cardinality({k \in DOMAIN derived[i].ids : derived[i].ids[k] = n})

(* Call n has a message, and has given it to derived metric i. *)
Handled(i, n) == /\ calls[n].msg # Nil
                 /\ \A s \in Setters : setter[s].id = n => setter[s].at > i

(* A sampled value is neither lost nor counted twice: as long as no        *)
(* HandleMessage overlaps an emission or another HandleMessage, a derived  *)
(* metric has accounted for it in one emission, or holds it for the next,  *)
(* also when the pipeline sheds the message itself (base_metric.go:153-155 *)
(* against processor.go:657-663 and the default of :522).                  *)
CountedOnce ==
    ~raced => \A i \in Kinds, n \in Calls :
                 counted[i][n] + Held(i, n) = IF Handled(i, n) THEN 1 ELSE 0

(* The values an emission accounts for with derived metric i. *)
Accounted(i) == [k \in DOMAIN emission[i].ids |-> calls[emission[i].ids[k]].msg]

(* What the rank p / percentileBase * (n - 1) of a percentile means, in any *)
(* order of arrival: so many values are not above it, and so many not below. *)
Splits(vals, p, x) ==
    LET n     == Len(vals)
        lower == (p * (n - 1)) \div percentileBase
        upper == (p * (n - 1) + percentileBase - 1) \div percentileBase
    IN  /\ Cardinality({k \in 1 .. n : percentileBase * vals[k] <= x}) >= lower + 1
        /\ Cardinality({k \in 1 .. n : percentileBase * vals[k] >= x}) >= n - upper

Exact(i, result) ==
    LET vals == Accounted(i)
    IN  IF vals = <<>> THEN result = Nil
        ELSE CASE list[i] = "latest" -> result = Last(vals)
               [] list[i] = "max" -> /\ result \in ToSet(vals)
                                        /\ \A v \in ToSet(vals) : v <= result
               [] list[i] = "min" -> /\ result \in ToSet(vals)
                                        /\ \A v \in ToSet(vals) : v >= result
               [] list[i] = "mean" -> /\ result.count = Len(vals)
                                         /\ result.sum = FoldLeft(+, 0, vals)
               [] list[i] = "percentile" ->
                      /\ \A p \in Percentiles : Splits(vals, p, result[p])
                      /\ \A p, q \in Percentiles : p <= q => result[p] <= result[q]

(* The statistics of one emission speak of the same calls, and are the     *)
(* latest, greatest, least, mean and percentiles of exactly their values,  *)
(* a greater percentile being no less than a smaller one, as long as       *)
(* nothing overlaps (derived/*.go, processor.go:651-669).                  *)
EmissionIsExact ==
    ~raced /\ emission # Nil =>
        \A i \in Kinds : /\ ToSet(emission[i].ids) = ToSet(emission[1].ids)
                         /\ Exact(i, emission[i].result)

-----------------------------------------------------------------------------
(* Statements of the docs that the code does not keep. *)

(* The message of a timer carries the duration the call was given: "sets   *)
(* the timer to a specific duration" (timer.go:87), and samplers control   *)
(* "which metric samples are recorded" (CUSTOM_METRICS.md:495).            *)
MessageIsItsArgument == \A n \in Calls : calls[n].msg \in {Nil, calls[n].arg}

(* The message of a gauge carries the gauge's value when no other call is  *)
(* under way: "Add adds to the current gauge value" (gauge.go:87).         *)
GaugeSendsItsValue ==
    \A s \in Setters : setter[s].pc = "read" => calls[setter[s].id].msg = currentValue

(* A value is counted in one capture period: derived metrics are computed  *)
(* "from base metrics automatically during each capture period"            *)
(* (CUSTOM_METRICS.md:408), also when an emission comes in between.        *)
CountedInOnePeriod == \A i \in Kinds, n \in Calls : counted[i][n] <= 1
=============================================================================
