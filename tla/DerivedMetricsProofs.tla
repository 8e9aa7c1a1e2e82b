------------------------ MODULE DerivedMetricsProofs ------------------------
(***************************************************************************)
(* That no sampled value is lost to, or counted twice by, a derived metric *)
(* as long as nothing overlaps an emission, and that its statistics are    *)
(* then exact (base_metric.go, processor.go, derived/), for any number of  *)
(* setters and workers, any values, any sampler and any list of derived    *)
(* metrics.                                                                *)
(*                                                                         *)
(* What the sort, the fold and the percentiles make of a sequence of any   *)
(* length is proved by induction on a set of numbers (Induction), since an *)
(* induction theorem over an operator cannot be instantiated.              *)
(***************************************************************************)
EXTENDS DerivedMetrics, SequenceTheorems, FiniteSetTheorems, WellFoundedInduction, TLAPS

-----------------------------------------------------------------------------
(* The parts of the inductive invariant that speak of calls and counts. *)

DataTypes ==
    /\ list \in Lists
    /\ calls \in Seq([arg : Values, msg : Int \cup {Nil}])
    /\ Len(calls) <= MaxSets
    /\ currentValue \in Int /\ queued \in Nat /\ raced \in BOOLEAN

DerivedTypes ==
    /\ derived = [i \in Kinds |-> derived[i]]
    /\ \A i \in Kinds : derived[i] \in Entry(list[i])
    /\ counted \in [Kinds -> [1 .. MaxSets -> Nat]]

\* Where a call is, and what it has there: of the calls cs and the list ls.
CallAt(c, cs, ls) ==
    /\ c = [pc |-> c.pc, id |-> c.id, op |-> c.op, at |-> c.at, read |-> c.read]
    /\ c.pc \in {"idle", "message", "read", "write"} /\ c.op \in Ops \cup {"none"}
    /\ c.id \in 0 .. MaxSets /\ c.at \in 0 .. Len(ls) + 1
    /\ c.pc = "idle" => c.id = 0 /\ c.at = 0
    /\ c.pc # "idle" => c.id \in 1 .. Len(cs)
    /\ c.pc = "message" => c.at = 0 /\ cs[c.id].msg = Nil
    /\ c.pc \in {"read", "write"} => c.at >= 1 /\ cs[c.id].msg \in Int
    /\ c.pc = "write" => c.at \in 1 .. Len(ls) /\ c.read \in Entry(ls[c.at])
    /\ c.pc # "write" => c.read = Nil

SetterTypes == /\ setter = [s \in Setters |-> setter[s]]
               /\ \A s \in Setters : CallAt(setter[s], calls, list)

\* A worker has an entry of its emission for each derived metric that it is done
\* with, and one for the metric that it is about to reset.
WorkAt(j, ls) ==
    /\ j = [pc |-> j.pc, at |-> j.at, out |-> j.out]
    /\ j.pc \in {"idle", "lock", "emit", "reset"} /\ j.at \in 0 .. Len(ls) + 1
    /\ j.pc = "emit" => j.at >= 1 /\ Len(j.out) = j.at - 1
    /\ j.pc = "reset" => j.at \in 1 .. Len(ls) /\ Len(j.out) = j.at
    /\ j.out = [k \in 1 .. Len(j.out) |-> j.out[k]] /\ Len(j.out) \in Nat
    /\ \A k \in 1 .. Len(j.out) : j.out[k].ids \in Seq(1 .. MaxSets)

WorkerTypes ==
    /\ mtx \in Workers \cup {Nobody}
    /\ worker = [w \in Workers |-> worker[w]]
    /\ \A w \in Workers : WorkAt(worker[w], list) /\ (Emitting(w) <=> mtx = w)

Types == DataTypes /\ DerivedTypes /\ SetterTypes /\ WorkerTypes

\* No two goroutines are in the same call.
IdsInv == \A s, t \in Setters : s # t /\ setter[s].id = setter[t].id =>
                                    setter[s].id = 0

\* Only a call that is over has put its message into the pipeline.
Over == {n \in Calls : \A s \in Setters : setter[s].id # n}
QueuedInv == queued <= Cardinality(Over)

\* Without a race nothing changes a derived metric between the read and the
\* write of a HandleMessage, or of an emission.
RaceInv ==
    ~raced =>
        /\ \A w \in Workers, s \in Setters : Emitting(w) => setter[s].pc # "write"
        /\ \A s, t \in Setters :
             setter[s].pc = "write" /\ setter[t].pc = "write"
                /\ setter[s].at = setter[t].at => s = t
        /\ \A s \in Setters : setter[s].pc = "write" =>
                                  setter[s].read = derived[setter[s].at]
        /\ \A w \in Workers : worker[w].pc = "reset" =>
             worker[w].out[worker[w].at].ids = derived[worker[w].at].ids

\* CountedOnce, and that nothing was counted for calls that were not made yet.
CountInv ==
    ~raced => \A i \in Kinds, n \in 1 .. MaxSets :
                 counted[i][n] + Held(i, n)
                   = IF n \in Calls /\ Handled(i, n) THEN 1 ELSE 0

-----------------------------------------------------------------------------
(* What the operators of the model return. *)

FiveKinds == {"latest", "max", "min", "mean", "percentile"}

LEMMA ListFacts ==
    ASSUME list \in Lists
    PROVE  /\ Len(list) \in Nat /\ DOMAIN list = Kinds
           /\ \A i \in Kinds : list[i] \in FiveKinds
  BY DerivedAssumption, LenProperties, ElementOfSeq DEF Kinds, FiveKinds

LEMMA CallFacts ==
    ASSUME DataTypes
    PROVE  /\ Len(calls) \in Nat /\ DOMAIN calls = Calls /\ Calls \subseteq 1 .. MaxSets
           /\ \A n \in Calls : calls[n] \in [arg : Values, msg : Int \cup {Nil}]
  <1>1. calls \in Seq([arg : Values, msg : Int \cup {Nil}])
    BY DEF DataTypes
  <1>2. Len(calls) \in Nat /\ DOMAIN calls = 1 .. Len(calls)
    BY <1>1, LenProperties
  <1>3. \A n \in 1 .. Len(calls) : calls[n] \in [arg : Values, msg : Int \cup {Nil}]
    BY <1>1, ElementOfSeq
  <1> QED
    BY <1>2, <1>3, DerivedAssumption DEF DataTypes, Calls

\* A HandleMessage leaves fields of the metric's kind, and so does a Reset.
LEMMA HandleMessageKeepsKind ==
    ASSUME NEW kind \in FiveKinds, NEW old \in FieldsOf(kind), NEW v \in Int
    PROVE  HandleMessage(kind, old, v) \in FieldsOf(kind)
  <1>1. CASE kind = "percentile"
    <2>1. old \in Seq(Int)
      BY <1>1 DEF FieldsOf
    <2>2. Append(old, v) \in Seq(Int)
      BY <2>1, AppendProperties
    <2> QED
      BY <1>1, <2>2 DEF FieldsOf, HandleMessage, PercentileHandles
  <1>2. CASE kind = "mean"
    <2>1. old \in [sum : Int \cup {Nil}, count : Nat]
      BY <1>2 DEF FieldsOf
    <2>2. MeanHandles(old, v) \in [sum : Int \cup {Nil}, count : Nat]
      BY <2>1 DEF MeanHandles
    <2> QED
      BY <1>2, <2>2 DEF FieldsOf, HandleMessage
  <1>3. CASE kind \in {"latest", "max", "min"}
    <2>1. old \in Int \cup {Nil} /\ FieldsOf(kind) = Int \cup {Nil}
      BY <1>3 DEF FieldsOf
    <2>2. HandleMessage(kind, old, v) \in {old, v}
      BY <1>3 DEF HandleMessage, LatestHandles, MaxHandles, MinHandles
    <2> QED
      BY <2>1, <2>2
  <1> QED
    BY <1>1, <1>2, <1>3 DEF FiveKinds

LEMMA ResetKeepsKind ==
    ASSUME NEW kind \in FiveKinds
    PROVE  Reset(kind) \in FieldsOf(kind)
  <1>1. <<>> \in Seq(Int)
    BY EmptySeq
  <1> QED
    BY <1>1 DEF FiveKinds, Reset, FieldsOf

LEMMA FreshType ==
    ASSUME NEW i, list[i] \in FiveKinds
    PROVE  Fresh(i) \in Entry(list[i]) /\ Fresh(i).ids = <<>>
  <1>1. <<>> \in Seq(1 .. MaxSets)
    BY EmptySeq
  <1> QED
    BY <1>1, ResetKeepsKind DEF Fresh, Entry

\* How often a call stands among the identifiers of a derived metric.
Times(ids, n) == Cardinality({k \in DOMAIN ids : ids[k] = n})

LEMMA TimesType ==
    ASSUME NEW ids \in Seq(1 .. MaxSets), NEW n
    PROVE  /\ IsFiniteSet({k \in DOMAIN ids : ids[k] = n})
           /\ Times(ids, n) \in Nat
  <1>1. Len(ids) \in Nat /\ DOMAIN ids = 1 .. Len(ids)
    BY LenProperties
  <1>2. IsFiniteSet(1 .. Len(ids))
    BY <1>1, FS_Interval
  <1>3. {k \in DOMAIN ids : ids[k] = n} \in SUBSET (1 .. Len(ids))
    BY <1>1
  <1>4. IsFiniteSet({k \in DOMAIN ids : ids[k] = n})
    BY <1>2, <1>3, FS_Subset
  <1> QED
    BY <1>4, FS_CardinalityType DEF Times

LEMMA TimesEmpty ==
    ASSUME NEW n
    PROVE  Times(<<>>, n) = 0
  <1>1. {k \in DOMAIN <<>> : <<>>[k] = n} = {}
    OBVIOUS
  <1> QED
    BY <1>1, FS_EmptySet DEF Times

LEMMA TimesAppend ==
    ASSUME NEW ids \in Seq(1 .. MaxSets), NEW m \in 1 .. MaxSets, NEW n
    PROVE  /\ Append(ids, m) \in Seq(1 .. MaxSets)
           /\ Times(Append(ids, m), n) = Times(ids, n) + (IF m = n THEN 1 ELSE 0)
  <1> DEFINE more == Append(ids, m)
             Old  == {k \in DOMAIN ids : ids[k] = n}
             New  == {k \in DOMAIN more : more[k] = n}
  <1>1. Len(ids) \in Nat /\ DOMAIN ids = 1 .. Len(ids)
    BY LenProperties
  <1>2. /\ more \in Seq(1 .. MaxSets) /\ Len(more) = Len(ids) + 1
        /\ \A k \in 1 .. Len(ids) : more[k] = ids[k]
        /\ more[Len(ids) + 1] = m
    BY AppendProperties
  <1>3. DOMAIN more = 1 .. Len(ids) + 1
    BY <1>2, LenProperties
  <1>4. IsFiniteSet(Old) /\ Times(ids, n) \in Nat
    BY TimesType
  <1>5. Len(ids) + 1 \notin Old
    BY <1>1
  <1> HIDE DEF more
  <1>6. CASE m = n
    <2>1. New = Old \cup {Len(ids) + 1}
      BY <1>1, <1>2, <1>3, <1>6
    <2>2. Cardinality(New) = Cardinality(Old) + 1
      BY <2>1, <1>4, <1>5, FS_AddElement
    <2> QED
      BY <2>2, <1>2, <1>6 DEF Times, more
  <1>7. CASE m # n
    <2>1. New = Old
      BY <1>1, <1>2, <1>3, <1>7
    <2>2. Times(more, n) = Times(ids, n)
      BY <2>1 DEF Times
    <2> QED
      BY <2>2, <1>2, <1>4, <1>7 DEF more
  <1> QED
    BY <1>6, <1>7

\* A sequence of whatever elements.
LEMMA AppendTo ==
    ASSUME NEW out, NEW e, Len(out) \in Nat,
           out = [k \in 1 .. Len(out) |-> out[k]]
    PROVE  /\ Len(Append(out, e)) = Len(out) + 1
           /\ \A k \in 1 .. Len(out) : Append(out, e)[k] = out[k]
           /\ Append(out, e)[Len(out) + 1] = e
           /\ Append(out, e) = [k \in 1 .. Len(out) + 1 |-> Append(out, e)[k]]
  <1> DEFINE S == {out[k] : k \in 1 .. Len(out)} \cup {e}
  <1>1. out \in [1 .. Len(out) -> S]
    OBVIOUS
  <1>2. out \in Seq(S)
    BY <1>1, SeqDef
  <1>3. Append(out, e) \in Seq(S) /\ Len(Append(out, e)) = Len(out) + 1
    BY <1>2, AppendProperties
  <1>4. Append(out, e) \in [1 .. Len(out) + 1 -> S]
    BY <1>3, LenProperties
  <1>5. /\ \A k \in 1 .. Len(out) : Append(out, e)[k] = out[k]
        /\ Append(out, e)[Len(out) + 1] = e
    BY <1>2, AppendProperties
  <1> QED
    BY <1>3, <1>4, <1>5

-----------------------------------------------------------------------------
(* Every action keeps the types. *)

LEMMA UnchangedTypes ==
    /\ DataTypes /\ UNCHANGED <<list, calls, currentValue, queued, raced>> => DataTypes'
    /\ DerivedTypes /\ UNCHANGED <<list, derived, counted>> => DerivedTypes'
    /\ SetterTypes /\ UNCHANGED <<list, calls, setter>> => SetterTypes'
    /\ WorkerTypes /\ UNCHANGED <<list, mtx, worker>> => WorkerTypes'
  BY DEF DataTypes, DerivedTypes, SetterTypes, WorkerTypes, Emitting, Kinds

\* One setter moves to c; what the others have must still be there.
LEMMA SetterStep ==
    ASSUME SetterTypes, NEW s \in Setters, NEW c,
           setter' = [setter EXCEPT ![s] = c],
           CallAt(c, calls', list'),
           \A t \in Setters \ {s} : CallAt(setter[t], calls', list')
    PROVE  SetterTypes'
  <1>1. \A t \in Setters : setter'[t] = IF t = s THEN c ELSE setter[t]
    BY DEF SetterTypes
  <1>2. setter' = [t \in Setters |-> setter'[t]]
    BY DEF SetterTypes
  <1>3. \A t \in Setters : CallAt(setter'[t], calls', list')
    BY <1>1
  <1> QED
    BY <1>2, <1>3 DEF SetterTypes

LEMMA WorkerStep ==
    ASSUME WorkerTypes, NEW w \in Workers, NEW j, UNCHANGED list,
           worker' = [worker EXCEPT ![w] = j],
           WorkAt(j, list), mtx' \in Workers \cup {Nobody},
           j.pc \in {"emit", "reset"} <=> mtx' = w,
           \A v \in Workers \ {w} : Emitting(v) <=> mtx' = v
    PROVE  WorkerTypes'
  <1>1. \A v \in Workers : worker'[v] = IF v = w THEN j ELSE worker[v]
    BY DEF WorkerTypes
  <1>2. worker' = [v \in Workers |-> worker'[v]]
    BY DEF WorkerTypes
  <1>3. \A v \in Workers : WorkAt(worker'[v], list') /\ (Emitting(v)' <=> mtx' = v)
    BY <1>1 DEF WorkerTypes, Emitting
  <1> QED
    BY <1>2, <1>3 DEF WorkerTypes

LEMMA InitTypes ==
    ASSUME Init
    PROVE  Types
  <1>1. Len(list) \in Nat /\ \A i \in Kinds : list[i] \in FiveKinds
    BY ListFacts DEF Init
  <1>2. /\ <<>> \in Seq([arg : Values, msg : Int \cup {Nil}]) /\ Len(<<>>) = 0
        /\ MaxSets \in Nat
    BY EmptySeq, DerivedAssumption
  <1>3. DataTypes
    <2>1. list \in Lists /\ calls = <<>> /\ currentValue = 0 /\ queued = 0 /\ raced = FALSE
      BY DEF Init
    <2>2. calls \in Seq([arg : Values, msg : Int \cup {Nil}]) /\ Len(calls) <= MaxSets
      BY <1>2, <2>1
    <2>3. currentValue \in Int /\ queued \in Nat
      BY <2>1
    <2>4. raced \in BOOLEAN
      BY <2>1, Zenon
    <2> QED
      BY <2>1, <2>2, <2>3, <2>4, Zenon DEF DataTypes
  <1>4. DerivedTypes
    <2>1. \A i \in Kinds : derived[i] = Fresh(i)
      BY DEF Init
    <2>2. \A i \in Kinds : derived[i] \in Entry(list[i])
      BY <1>1, <2>1, FreshType
    <2> QED
      BY <2>2 DEF Init, DerivedTypes
  <1>5. SetterTypes
    BY <1>1, <1>2 DEF Init, SetterTypes, CallAt, NoCall
  <1>6. WorkerTypes
    <2>1. WorkAt(NoWork, list)
      BY <1>1, <1>2 DEF WorkAt, NoWork
    <2> QED
      BY <2>1, DerivedAssumption DEF Init, WorkerTypes, Emitting, NoWork
  <1> QED
    BY <1>3, <1>4, <1>5, <1>6 DEF Types

\* What EXCEPT makes of the record of a setter.
IsCall(c) == c = [pc |-> c.pc, id |-> c.id, op |-> c.op, at |-> c.at, read |-> c.read]

LEMMA MovedCall ==
    ASSUME NEW c, IsCall(c), NEW x
    PROVE  /\ [c EXCEPT !.pc = x]
                = [pc |-> x, id |-> c.id, op |-> c.op, at |-> c.at, read |-> c.read]
           /\ [c EXCEPT !.id = x]
                = [pc |-> c.pc, id |-> x, op |-> c.op, at |-> c.at, read |-> c.read]
           /\ [c EXCEPT !.op = x]
                = [pc |-> c.pc, id |-> c.id, op |-> x, at |-> c.at, read |-> c.read]
           /\ [c EXCEPT !.at = x]
                = [pc |-> c.pc, id |-> c.id, op |-> c.op, at |-> x, read |-> c.read]
           /\ [c EXCEPT !.read = x]
                = [pc |-> c.pc, id |-> c.id, op |-> c.op, at |-> c.at, read |-> x]
  BY DEF IsCall

LEMMA NewCall ==
    ASSUME NEW p, NEW n, NEW o
    PROVE  [NoCall EXCEPT !.pc = p, !.id = n, !.op = o]
             = [pc |-> p, id |-> n, op |-> o, at |-> 0, read |-> Nil]
  <1> DEFINE c == [NoCall EXCEPT !.pc = p]
             d == [c EXCEPT !.id = n]
             e == [d EXCEPT !.op = o]
  <1>1. c = [pc |-> p, id |-> 0, op |-> "none", at |-> 0, read |-> Nil]
    <2>1. IsCall(NoCall) /\ NoCall.id = 0 /\ NoCall.op = "none" /\ NoCall.at = 0
            /\ NoCall.read = Nil
      BY DEF NoCall, IsCall
    <2> QED
      BY <2>1, MovedCall DEF IsCall
  <1> HIDE DEF c
  <1>2. d = [pc |-> p, id |-> n, op |-> "none", at |-> 0, read |-> Nil]
    BY <1>1, MovedCall DEF IsCall
  <1> HIDE DEF d
  <1>3. e = [pc |-> p, id |-> n, op |-> o, at |-> 0, read |-> Nil]
    BY <1>2, MovedCall DEF IsCall
  <1> QED
    BY <1>3 DEF c, d, e

\* What a step adds to the calls leaves the earlier ones where they are.
LEMMA UpdateTypes ==
    ASSUME Types, NEW s \in Setters, NEW op \in Ops, NEW v \in Values,
           UpdateCurrentValue(s, op, v)
    PROVE  Types'
  <1> DEFINE Call == [arg : Values, msg : Int \cup {Nil}]
             new  == [arg |-> v, msg |-> Nil]
             c    == [NoCall EXCEPT !.pc = "message", !.id = Len(calls) + 1, !.op = op]
  <1>1. /\ calls' = Append(calls, new) /\ Len(calls) < MaxSets
        /\ setter' = [setter EXCEPT ![s] = c]
        /\ UNCHANGED <<list, derived, mtx, worker, queued, raced, counted>>
    BY DEF UpdateCurrentValue
  <1>2. calls \in Seq(Call) /\ new \in Call
    BY DEF Types, DataTypes
  <1>3. /\ calls' \in Seq(Call) /\ Len(calls') = Len(calls) + 1
        /\ \A n \in 1 .. Len(calls) : calls'[n] = calls[n]
        /\ calls'[Len(calls) + 1] = new
    BY <1>1, <1>2, AppendProperties
  <1>4. Len(calls) \in Nat /\ MaxSets \in Nat /\ Len(list) \in Nat
    BY CallFacts, ListFacts, DerivedAssumption DEF Types, DataTypes
  <1>5. currentValue' \in Int
    BY DerivedAssumption DEF Types, DataTypes, UpdateCurrentValue, Updated
  <1>6. DataTypes'
    BY <1>1, <1>3, <1>4, <1>5 DEF Types, DataTypes
  <1>7. CallAt(c, calls', list')
    <2>1. c = [pc |-> "message", id |-> Len(calls) + 1, op |-> op, at |-> 0, read |-> Nil]
      BY NewCall
    <2> HIDE DEF c
    <2> QED
      BY <1>1, <1>3, <1>4, <2>1 DEF CallAt
  <1>8. \A t \in Setters : CallAt(setter[t], calls', list')
    <2> SUFFICES ASSUME NEW t \in Setters
                 PROVE  CallAt(setter[t], calls', list)
      BY <1>1
    <2>1. CallAt(setter[t], calls, list)
      BY DEF Types, SetterTypes
    <2> QED
      BY <1>3, <1>4, <2>1 DEF CallAt
  <1>9. SetterTypes'
    <2> HIDE DEF c
    <2> QED
      BY <1>1, <1>7, <1>8, SetterStep DEF Types
  <1> QED
    BY <1>1, <1>6, <1>9, UnchangedTypes DEF Types

LEMMA MessageTypes ==
    ASSUME Types, IdsInv, NEW s \in Setters, MakeMessage(s)
    PROVE  Types'
  <1> DEFINE id == setter[s].id
  <1>1. /\ setter[s].pc = "message" /\ CallAt(setter[s], calls, list)
        /\ UNCHANGED <<list, currentValue, derived, mtx, worker, queued, raced, counted>>
    BY DEF MakeMessage, Types, SetterTypes
  <1>2. id \in Calls /\ setter[s].at = 0 /\ setter[s].read = Nil
    BY <1>1 DEF CallAt, Calls
  <1>3. Len(calls) \in Nat /\ Len(list) \in Nat /\ MaxSets \in Nat
    BY CallFacts, ListFacts, DerivedAssumption DEF Types, DataTypes
  <1>4. CASE /\ calls' = [calls EXCEPT ![id].msg = MessageValue(s)]
             /\ setter' = [setter EXCEPT ![s].pc = "read", ![s].at = 1]
    <2> DEFINE new == [calls[id] EXCEPT !.msg = MessageValue(s)]
               c   == [setter[s] EXCEPT !.pc = "read", !.at = 1]
    <2>1. calls[id] \in [arg : Values, msg : Int \cup {Nil}]
      BY <1>2, CallFacts DEF Types
    <2>2. MessageValue(s) \in Int
      BY <2>1, DerivedAssumption DEF MessageValue, Types, DataTypes
    <2>3. new \in [arg : Values, msg : Int \cup {Nil}] /\ new.msg \in Int
      BY <2>1, <2>2
    <2>4. calls' = [calls EXCEPT ![id] = new]
      BY <1>4
    <2> HIDE DEF new
    <2>5. /\ calls' \in Seq([arg : Values, msg : Int \cup {Nil}])
          /\ Len(calls') = Len(calls)
          /\ \A n \in 1 .. Len(calls) : calls'[n] = IF n = id THEN new ELSE calls[n]
      BY <1>2, <2>3, <2>4, ExceptSeq DEF Types, DataTypes, Calls
    <2>6. DataTypes'
      BY <1>1, <2>5 DEF Types, DataTypes
    <2>7. CallAt(c, calls', list')
      <3>1. c = [pc |-> "read", id |-> id, op |-> setter[s].op, at |-> 1, read |-> Nil]
        <4> DEFINE d == [setter[s] EXCEPT !.pc = "read"]
        <4>1. IsCall(setter[s])
          BY <1>1 DEF CallAt, IsCall
        <4>2. d = [pc |-> "read", id |-> id, op |-> setter[s].op, at |-> setter[s].at,
                   read |-> Nil]
          BY <1>2, <4>1, MovedCall
        <4> HIDE DEF d
        <4>3. [d EXCEPT !.at = 1] = [pc |-> "read", id |-> id, op |-> setter[s].op,
                                     at |-> 1, read |-> Nil]
          BY <4>2
        <4> QED
          BY <4>3 DEF d
      <3>2. calls'[id].msg \in Int /\ id \in 1 .. Len(calls')
        BY <1>2, <2>3, <2>5 DEF Calls
      <3>3. id \in 0 .. MaxSets /\ setter[s].op \in Ops \cup {"none"}
        BY <1>1 DEF CallAt
      <3> HIDE DEF c, id
      <3> QED
        BY <1>1, <1>3, <3>1, <3>2, <3>3 DEF CallAt
    <2>8. \A t \in Setters \ {s} : CallAt(setter[t], calls', list')
      <3> SUFFICES ASSUME NEW t \in Setters \ {s}
                   PROVE  CallAt(setter[t], calls', list)
        BY <1>1
      <3>1. CallAt(setter[t], calls, list)
        BY DEF Types, SetterTypes
      <3>2. setter[t].pc # "idle" => setter[t].id # id
        BY <1>2, <3>1 DEF CallAt, IdsInv, Calls
      <3> QED
        BY <1>3, <2>5, <3>1, <3>2 DEF CallAt
    <2>9. setter' = [setter EXCEPT ![s] = c]
      BY <1>4
    <2>10. SetterTypes'
      <3> HIDE DEF c
      <3> QED
        BY <2>7, <2>8, <2>9, SetterStep DEF Types
    <2> QED
      BY <1>1, <2>6, <2>10, UnchangedTypes DEF Types
  <1>5. CASE setter' = [setter EXCEPT ![s] = NoCall] /\ UNCHANGED calls
    <2>1. CallAt(NoCall, calls', list')
      BY <1>1, <1>3, <1>5 DEF CallAt, NoCall
    <2>2. \A t \in Setters : CallAt(setter[t], calls', list')
      BY <1>1, <1>5 DEF Types, SetterTypes
    <2>3. SetterTypes'
      BY <1>5, <2>1, <2>2, SetterStep DEF Types
    <2> QED
      BY <1>1, <1>5, <2>3, UnchangedTypes DEF Types
  <1> QED
    BY <1>4, <1>5 DEF MakeMessage

LEMMA ReadFacts ==
    ASSUME Types, NEW s \in Setters, HandleReads(s)
    PROVE  LET i == setter[s].at
           IN  setter' = [setter EXCEPT ![s] =
                             [pc |-> "write", id |-> setter[s].id, op |-> setter[s].op,
                              at |-> i, read |-> derived[i]]]
  <1> DEFINE i == setter[s].at
  <1>1. CallAt(setter[s], calls, list) /\ setter[s].pc = "read"
    BY DEF HandleReads, Types, SetterTypes
  <1>2. setter' = [setter EXCEPT ![s] = [pc |-> "write", id |-> setter[s].id, op |-> setter[s].op,
                                  at |-> i, read |-> derived[i]]]
    <2> DEFINE d == [setter[s] EXCEPT !.pc = "write"]
    <2>1. setter' = [setter EXCEPT ![s] = [d EXCEPT !.read = derived[i]]]
      BY DEF HandleReads
    <2>2. IsCall(setter[s])
      BY <1>1 DEF CallAt, IsCall
    <2>3. d = [pc |-> "write", id |-> setter[s].id, op |-> setter[s].op,
               at |-> i, read |-> setter[s].read]
      BY <2>2, MovedCall
    <2> HIDE DEF d
    <2>4. [d EXCEPT !.read = derived[i]] = [pc |-> "write", id |-> setter[s].id,
                                            op |-> setter[s].op, at |-> i,
                                            read |-> derived[i]]
      BY <2>3
    <2> QED
      BY <2>1, <2>4
  <1> QED
    BY <1>2

LEMMA ReadTypes ==
    ASSUME Types, NEW s \in Setters, HandleReads(s)
    PROVE  Types'
  <1> DEFINE i == setter[s].at
             c == [pc |-> "write", id |-> setter[s].id, op |-> setter[s].op,
                   at |-> i, read |-> derived[i]]
  <1>1. /\ CallAt(setter[s], calls, list) /\ setter[s].pc = "read" /\ i \in Kinds
        /\ UNCHANGED <<list, calls, currentValue, derived, mtx, worker, queued, counted>>
    BY DEF HandleReads, Types, SetterTypes
  <1>2. setter' = [setter EXCEPT ![s] = c]
    BY ReadFacts
  <1>3. CallAt(c, calls, list)
    <2>1. derived[i] \in Entry(list[i])
      BY <1>1 DEF Types, DerivedTypes
    <2> QED
      BY <1>1, <2>1 DEF CallAt, Kinds
  <1>4. SetterTypes'
    <2> HIDE DEF c
    <2>1. \A t \in Setters : CallAt(setter[t], calls, list)
      BY DEF Types, SetterTypes
    <2> QED
      BY <1>1, <1>2, <1>3, <2>1, SetterStep DEF Types
  <1>5. DataTypes'
    <2>1. raced' \in BOOLEAN
      BY Zenon DEF HandleReads
    <2> QED
      BY <1>1, <2>1, Zenon DEF Types, DataTypes
  <1> QED
    BY <1>1, <1>4, <1>5, UnchangedTypes DEF Types

\* What a HandleMessage writes.
Written(s) ==
    LET i == setter[s].at
    IN  [fields |-> HandleMessage(list[i], setter[s].read.fields,
                                  calls[setter[s].id].msg),
         ids    |-> Append(setter[s].read.ids, setter[s].id)]

LEMMA WriteFacts ==
    ASSUME Types, NEW s \in Setters, HandleWrites(s)
    PROVE  LET i == setter[s].at
           IN  /\ i \in Kinds /\ setter[s].id \in Calls /\ setter[s].read \in Entry(list[i])
               /\ Written(s) \in Entry(list[i])
               /\ derived' = [derived EXCEPT ![i] = Written(s)]
               /\ setter' = [setter EXCEPT ![s] =
                                [pc |-> "read", id |-> setter[s].id, op |-> setter[s].op,
                                 at |-> i + 1, read |-> Nil]]
  <1> DEFINE i == setter[s].at
  <1>1. CallAt(setter[s], calls, list) /\ setter[s].pc = "write"
    BY DEF HandleWrites, Types, SetterTypes
  <1>2. /\ i \in Kinds /\ setter[s].id \in Calls /\ setter[s].read \in Entry(list[i])
        /\ calls[setter[s].id].msg \in Int /\ setter[s].id \in 1 .. MaxSets
    BY <1>1, CallFacts DEF CallAt, Kinds, Calls, Types
  <1>3. list[i] \in FiveKinds
    BY <1>2, ListFacts DEF Types, DataTypes
  <1>4. Written(s) \in Entry(list[i])
    <2>1. /\ setter[s].read.fields \in FieldsOf(list[i])
          /\ setter[s].read.ids \in Seq(1 .. MaxSets)
      BY <1>2 DEF Entry
    <2>2. HandleMessage(list[i], setter[s].read.fields, calls[setter[s].id].msg)
            \in FieldsOf(list[i])
      BY <1>2, <1>3, <2>1, HandleMessageKeepsKind
    <2>3. Append(setter[s].read.ids, setter[s].id) \in Seq(1 .. MaxSets)
      BY <1>2, <2>1, AppendProperties
    <2> QED
      BY <2>2, <2>3 DEF Written, Entry
  <1>5. derived' = [derived EXCEPT ![i] = Written(s)]
    BY DEF HandleWrites, Written
  <1>6. setter' = [setter EXCEPT ![s] =
                      [pc |-> "read", id |-> setter[s].id, op |-> setter[s].op,
                       at |-> i + 1, read |-> Nil]]
    <2> DEFINE d == [setter[s] EXCEPT !.pc = "read"]
               e == [d EXCEPT !.at = i + 1]
    <2>1. setter' = [setter EXCEPT ![s] = [e EXCEPT !.read = Nil]]
      BY DEF HandleWrites
    <2>2. IsCall(setter[s])
      BY <1>1 DEF CallAt, IsCall
    <2>3. d = [pc |-> "read", id |-> setter[s].id, op |-> setter[s].op,
               at |-> i, read |-> setter[s].read]
      BY <2>2, MovedCall
    <2> HIDE DEF d
    <2>4. e = [pc |-> "read", id |-> setter[s].id, op |-> setter[s].op,
               at |-> i + 1, read |-> setter[s].read]
      BY <2>3
    <2> HIDE DEF e
    <2>5. [e EXCEPT !.read = Nil] = [pc |-> "read", id |-> setter[s].id,
                                     op |-> setter[s].op, at |-> i + 1, read |-> Nil]
      BY <2>4
    <2> QED
      BY <2>1, <2>5
  <1> QED
    BY <1>2, <1>4, <1>5, <1>6

LEMMA WriteTypes ==
    ASSUME Types, NEW s \in Setters, HandleWrites(s)
    PROVE  Types'
  <1> DEFINE i == setter[s].at
             c == [pc |-> "read", id |-> setter[s].id, op |-> setter[s].op,
                   at |-> i + 1, read |-> Nil]
  <1>1. /\ CallAt(setter[s], calls, list) /\ setter[s].pc = "write"
        /\ UNCHANGED <<list, calls, currentValue, mtx, worker, queued, counted, raced>>
    BY DEF HandleWrites, Types, SetterTypes
  <1>2. /\ i \in Kinds /\ Written(s) \in Entry(list[i])
        /\ derived' = [derived EXCEPT ![i] = Written(s)]
        /\ setter' = [setter EXCEPT ![s] = c]
    BY WriteFacts
  <1>3. Len(list) \in Nat
    BY ListFacts DEF Types, DataTypes
  <1>4. CallAt(c, calls, list)
    BY <1>1, <1>2, <1>3 DEF CallAt, Kinds
  <1>5. SetterTypes'
    <2> HIDE DEF c
    <2>1. \A t \in Setters : CallAt(setter[t], calls, list)
      BY DEF Types, SetterTypes
    <2> QED
      BY <1>1, <1>2, <1>4, <2>1, SetterStep DEF Types
  <1>6. DerivedTypes'
    BY <1>1, <1>2 DEF Types, DerivedTypes, Kinds
  <1> QED
    BY <1>1, <1>5, <1>6, UnchangedTypes DEF Types

LEMMA EnqueueTypes ==
    ASSUME Types, NEW s \in Setters, Enqueue(s)
    PROVE  Types'
  <1>1. /\ setter' = [setter EXCEPT ![s] = NoCall] /\ queued' \in {queued, queued + 1}
        /\ UNCHANGED <<list, calls, currentValue, derived, mtx, worker, counted, raced>>
    BY DEF Enqueue
  <1>2. Len(list) \in Nat /\ MaxSets \in Nat
    BY ListFacts, DerivedAssumption DEF Types, DataTypes
  <1>3. CallAt(NoCall, calls, list)
    BY <1>2 DEF CallAt, NoCall
  <1>4. \A t \in Setters : CallAt(setter[t], calls, list)
    BY DEF Types, SetterTypes
  <1>5. SetterTypes'
    BY <1>1, <1>3, <1>4, SetterStep DEF Types
  <1>6. DataTypes'
    BY <1>1 DEF Types, DataTypes
  <1> QED
    BY <1>1, <1>5, <1>6, UnchangedTypes DEF Types

\* A setter's step and a worker's step leave each other's records alone.
IsJob(j) == j = [pc |-> j.pc, at |-> j.at, out |-> j.out]

LEMMA FlushTypes ==
    ASSUME Types, NEW w \in Workers, Flush(w)
    PROVE  Types'
  <1> DEFINE j == [pc |-> "lock", at |-> worker[w].at, out |-> worker[w].out]
  <1>1. /\ worker[w].pc = "idle" /\ WorkAt(worker[w], list)
        /\ \A v \in Workers : Emitting(v) <=> mtx = v
        /\ UNCHANGED <<list, calls, currentValue, setter, derived, mtx, counted, raced>>
    BY DEF Flush, Types, WorkerTypes
  <1>2. queued' \in Nat
    <2>1. PICK taken \in 1 .. queued : queued' = queued - taken
      BY DEF Flush
    <2> QED
      BY <2>1 DEF Types, DataTypes
  <1>3. worker' = [worker EXCEPT ![w] = j]
    <2>1. worker' = [worker EXCEPT ![w] = [worker[w] EXCEPT !.pc = "lock"]]
      BY DEF Flush
    <2>2. [worker[w] EXCEPT !.pc = "lock"] = j
      BY <1>1 DEF WorkAt
    <2> QED
      BY <2>1, <2>2
  <1>4. WorkAt(j, list) /\ j.pc = "lock"
    BY <1>1 DEF WorkAt
  <1>5. WorkerTypes'
    <2> HIDE DEF j
    <2>1. mtx # w
      BY <1>1 DEF Emitting
    <2>2. mtx \in Workers \cup {Nobody}
      BY DEF Types, WorkerTypes
    <2> QED
      BY <1>1, <1>3, <1>4, <2>1, <2>2, WorkerStep DEF Types
  <1>6. DataTypes'
    BY <1>1, <1>2 DEF Types, DataTypes
  <1> QED
    BY <1>1, <1>5, <1>6, UnchangedTypes DEF Types

LEMMA LockTypes ==
    ASSUME Types, NEW w \in Workers, EmitLocks(w)
    PROVE  Types'
  <1> DEFINE j == [pc |-> "emit", at |-> 1, out |-> <<>>]
  <1>1. /\ worker' = [worker EXCEPT ![w] = j] /\ mtx = Nobody /\ mtx' = w
        /\ \A v \in Workers : Emitting(v) <=> mtx = v
        /\ UNCHANGED <<list, calls, currentValue, setter, derived, queued, counted>>
    BY DEF EmitLocks, Types, WorkerTypes
  <1>2. WorkAt(j, list) /\ j.pc = "emit"
    <2>1. Len(list) \in Nat
      BY ListFacts DEF Types, DataTypes
    <2>2. Len(<<>>) = 0 /\ 1 .. 0 = {} /\ <<>> = [k \in 1 .. 0 |-> <<>>[k]]
      BY EmptySeq
    <2> QED
      BY <2>1, <2>2 DEF WorkAt
  <1>3. WorkerTypes'
    <2> HIDE DEF j
    <2>1. \A v \in Workers \ {w} : Emitting(v) <=> mtx' = v
      BY <1>1, DerivedAssumption
    <2> QED
      BY <1>1, <1>2, <2>1, WorkerStep DEF Types
  <1>4. DataTypes'
    <2>1. raced' \in BOOLEAN
      BY Zenon DEF EmitLocks
    <2> QED
      BY <1>1, <2>1, Zenon DEF Types, DataTypes
  <1> QED
    BY <1>1, <1>3, <1>4, UnchangedTypes DEF Types

\* What an emission that sees these fields notes of derived metric i.
Emitted(i, copy) == [result |-> EmitMetrics(list[i], copy), ids |-> derived[i].ids]

\* EmitReads, as it sees these fields.
EmitsCopy(w, copy) ==
    LET i == worker[w].at
    IN  /\ worker[w].pc = "emit"
        /\ i \in Kinds /\ copy \in Copies(i)
        /\ worker' = [worker EXCEPT ![w].pc = "reset", ![w].out = Append(@, Emitted(i, copy))]
        /\ UNCHANGED <<list, calls, currentValue, setter, derived, mtx, queued, emission,
                       counted, raced>>

LEMMA SomeCopy ==
    ASSUME NEW w \in Workers, EmitReads(w)
    PROVE  \E copy : EmitsCopy(w, copy)
  BY DEF EmitReads, EmitsCopy, Emitted

LEMMA EmitFacts ==
    ASSUME Types, NEW w \in Workers, NEW copy, EmitsCopy(w, copy)
    PROVE  LET i == worker[w].at
           IN  /\ i \in Kinds /\ Len(worker[w].out) = i - 1
               /\ worker' = [worker EXCEPT ![w] =
                                [pc |-> "reset", at |-> i,
                                 out |-> Append(worker[w].out, Emitted(i, copy))]]
               /\ Append(worker[w].out, Emitted(i, copy))[i] = Emitted(i, copy)
  <1> DEFINE i == worker[w].at
             more == Append(worker[w].out, Emitted(i, copy))
  <1>1. worker[w].pc = "emit" /\ i \in Kinds /\ WorkAt(worker[w], list)
    BY DEF EmitsCopy, Types, WorkerTypes
  <1>2. Len(worker[w].out) = i - 1
    BY <1>1 DEF WorkAt
  <1>3. worker' = [worker EXCEPT ![w] = [pc |-> "reset", at |-> i, out |-> more]]
    <2> DEFINE d == [worker[w] EXCEPT !.pc = "reset"]
    <2>1. worker' = [worker EXCEPT ![w] = [d EXCEPT !.out = more]]
      BY DEF EmitsCopy, Emitted
    <2>2. d = [pc |-> "reset", at |-> i, out |-> worker[w].out]
      BY <1>1 DEF WorkAt
    <2> HIDE DEF d, more
    <2>3. [d EXCEPT !.out = more] = [pc |-> "reset", at |-> i, out |-> more]
      BY <2>2
    <2> QED
      BY <2>1, <2>3
  <1>4. more[i] = Emitted(i, copy)
    <2>1. /\ worker[w].out = [k \in 1 .. Len(worker[w].out) |-> worker[w].out[k]]
          /\ Len(worker[w].out) \in Nat
      BY <1>1 DEF WorkAt
    <2>2. more[Len(worker[w].out) + 1] = Emitted(i, copy)
      BY <2>1, AppendTo
    <2>3. Len(worker[w].out) + 1 = i
      BY <1>1, <1>2, <2>1 DEF Kinds
    <2> QED
      BY <2>2, <2>3
  <1> QED
    BY <1>1, <1>2, <1>3, <1>4

LEMMA EmitTypes ==
    ASSUME Types, NEW w \in Workers, NEW copy, EmitsCopy(w, copy)
    PROVE  Types'
  <1> DEFINE i   == worker[w].at
             out == worker[w].out
             more == Append(out, Emitted(i, copy))
             j   == [pc |-> "reset", at |-> i, out |-> more]
  <1>1. /\ worker[w].pc = "emit" /\ WorkAt(worker[w], list)
        /\ \A v \in Workers : Emitting(v) <=> mtx = v
        /\ UNCHANGED <<list, calls, currentValue, setter, derived, mtx, queued, counted,
                       raced>>
    BY DEF EmitsCopy, Types, WorkerTypes
  <1>2. i \in Kinds /\ Len(out) = i - 1 /\ worker' = [worker EXCEPT ![w] = j]
    BY EmitFacts
  <1>3. /\ out = [k \in 1 .. Len(out) |-> out[k]] /\ Len(out) \in Nat
        /\ \A k \in 1 .. Len(out) : out[k].ids \in Seq(1 .. MaxSets)
        /\ i \in 0 .. Len(list) + 1
    BY <1>1 DEF WorkAt
  <1>4. WorkAt(j, list) /\ j.pc = "reset"
    <2>1. /\ Len(more) = Len(out) + 1
          /\ \A k \in 1 .. Len(out) : more[k] = out[k]
          /\ more[Len(out) + 1] = Emitted(i, copy)
          /\ more = [k \in 1 .. Len(out) + 1 |-> more[k]]
      BY <1>3, AppendTo
    <2>2. Emitted(i, copy).ids \in Seq(1 .. MaxSets)
      BY <1>2 DEF Emitted, Types, DerivedTypes, Entry
    <2> HIDE DEF more, i, out
    <2>3. \A k \in 1 .. Len(more) : more[k].ids \in Seq(1 .. MaxSets)
      <3> SUFFICES ASSUME NEW k \in 1 .. Len(more)
                   PROVE  more[k].ids \in Seq(1 .. MaxSets)
        OBVIOUS
      <3>1. k \in 1 .. Len(out) \/ k = Len(out) + 1
        BY <1>3, <2>1
      <3>2. CASE k \in 1 .. Len(out)
        <4>1. more[k] = out[k]
          BY <2>1, <3>2
        <4> QED
          BY <1>3, <3>2, <4>1
      <3>3. CASE k = Len(out) + 1
        <4>1. more[k] = Emitted(i, copy)
          BY <2>1, <3>3
        <4> QED
          BY <2>2, <4>1
      <3> QED
        BY <3>1, <3>2, <3>3
    <2>4. Len(more) = i /\ Len(more) \in Nat /\ more = [k \in 1 .. Len(more) |-> more[k]]
      BY <1>2, <1>3, <2>1 DEF Kinds
    <2> QED
      BY <1>2, <1>3, <2>3, <2>4 DEF WorkAt, Kinds
  <1>5. mtx = w /\ mtx \in Workers \cup {Nobody}
    BY <1>1 DEF Emitting, Types, WorkerTypes
  <1>6. WorkerTypes'
    <2> HIDE DEF j
    <2> QED
      BY <1>1, <1>2, <1>4, <1>5, WorkerStep DEF Types
  <1> QED
    BY <1>1, <1>6, UnchangedTypes DEF Types

\* How often an emission has accounted for each call, after a Reset.
CountedAfter(i, ids) ==
    [n \in 1 .. MaxSets |-> counted[i][n] + Times(ids, n)]

LEMMA ResetFacts ==
    ASSUME Types, NEW w \in Workers, ResetDerived(w)
    PROVE  LET i   == worker[w].at
               ids == worker[w].out[i].ids
           IN  /\ i \in Kinds /\ ids \in Seq(1 .. MaxSets)
               /\ derived' = [derived EXCEPT ![i] = Fresh(i)]
               /\ counted' = [counted EXCEPT ![i] = CountedAfter(i, ids)]
               /\ worker' = [worker EXCEPT ![w] =
                                [pc |-> "emit", at |-> i + 1, out |-> worker[w].out]]
  <1> DEFINE i   == worker[w].at
             ids == worker[w].out[i].ids
  <1>1. worker[w].pc = "reset" /\ WorkAt(worker[w], list)
    BY DEF ResetDerived, Types, WorkerTypes
  <1>2. i \in Kinds /\ Len(worker[w].out) = i
    BY <1>1 DEF WorkAt, Kinds
  <1>3. ids \in Seq(1 .. MaxSets)
    <2>1. i \in 1 .. Len(worker[w].out)
      BY <1>2 DEF Kinds
    <2> QED
      BY <1>1, <2>1 DEF WorkAt
  <1>4. counted' = [counted EXCEPT ![i] = CountedAfter(i, ids)]
    BY DEF ResetDerived, CountedAfter, Times
  <1>5. worker' = [worker EXCEPT ![w] = [pc |-> "emit", at |-> i + 1,
                                         out |-> worker[w].out]]
    <2> DEFINE d == [worker[w] EXCEPT !.pc = "emit"]
    <2>1. worker' = [worker EXCEPT ![w] = [d EXCEPT !.at = i + 1]]
      BY DEF ResetDerived
    <2>2. d = [pc |-> "emit", at |-> i, out |-> worker[w].out]
      BY <1>1 DEF WorkAt
    <2> HIDE DEF d
    <2>3. [d EXCEPT !.at = i + 1] = [pc |-> "emit", at |-> i + 1, out |-> worker[w].out]
      BY <2>2
    <2> QED
      BY <2>1, <2>3
  <1>6. derived' = [derived EXCEPT ![i] = Fresh(i)]
    BY DEF ResetDerived
  <1> QED
    BY <1>2, <1>3, <1>4, <1>5, <1>6

LEMMA ResetTypes ==
    ASSUME Types, NEW w \in Workers, ResetDerived(w)
    PROVE  Types'
  <1> DEFINE i   == worker[w].at
             ids == worker[w].out[i].ids
             j   == [pc |-> "emit", at |-> i + 1, out |-> worker[w].out]
  <1>1. /\ worker[w].pc = "reset" /\ WorkAt(worker[w], list)
        /\ \A v \in Workers : Emitting(v) <=> mtx = v
        /\ UNCHANGED <<list, calls, currentValue, setter, mtx, queued, raced>>
    BY DEF ResetDerived, Types, WorkerTypes
  <1>2. /\ i \in Kinds /\ ids \in Seq(1 .. MaxSets)
        /\ derived' = [derived EXCEPT ![i] = Fresh(i)]
        /\ counted' = [counted EXCEPT ![i] = CountedAfter(i, ids)]
        /\ worker' = [worker EXCEPT ![w] = j]
    BY ResetFacts
  <1>3. DerivedTypes'
    <2>1. Fresh(i) \in Entry(list[i])
      BY <1>2, ListFacts, FreshType DEF Types, DataTypes
    <2>2. CountedAfter(i, ids) \in [1 .. MaxSets -> Nat]
      <3>1. \A n \in 1 .. MaxSets : Times(ids, n) \in Nat /\ counted[i][n] \in Nat
        BY <1>2, TimesType DEF Types, DerivedTypes
      <3> QED
        BY <3>1 DEF CountedAfter
    <2> HIDE DEF i, ids
    <2>3. counted' \in [Kinds -> [1 .. MaxSets -> Nat]]
      BY <1>2, <2>2 DEF Types, DerivedTypes
    <2>4. /\ derived' = [k \in Kinds |-> derived'[k]]
          /\ \A k \in Kinds : derived'[k] \in Entry(list[k])
      BY <1>2, <2>1 DEF Types, DerivedTypes
    <2>5. Kinds' = Kinds /\ list' = list
      BY <1>1 DEF Kinds
    <2> QED
      BY <2>3, <2>4, <2>5 DEF DerivedTypes, Entry, FieldsOf
  <1>4. WorkAt(j, list) /\ j.pc = "emit"
    <2>1. Len(list) \in Nat
      BY ListFacts DEF Types, DataTypes
    <2> QED
      BY <1>1, <2>1 DEF WorkAt
  <1>5. mtx = w /\ mtx \in Workers \cup {Nobody}
    BY <1>1 DEF Emitting, Types, WorkerTypes
  <1>6. WorkerTypes'
    <2> HIDE DEF j
    <2> QED
      BY <1>1, <1>2, <1>4, <1>5, WorkerStep DEF Types
  <1> QED
    BY <1>1, <1>3, <1>6, UnchangedTypes DEF Types

LEMMA UnlockTypes ==
    ASSUME Types, NEW w \in Workers, EmitUnlocks(w)
    PROVE  Types'
  <1>1. /\ worker[w].pc = "emit" /\ worker' = [worker EXCEPT ![w] = NoWork]
        /\ mtx' = Nobody
        /\ \A v \in Workers : Emitting(v) <=> mtx = v
        /\ UNCHANGED <<list, calls, currentValue, setter, derived, queued, counted, raced>>
    BY DEF EmitUnlocks, Types, WorkerTypes
  <1>2. WorkAt(NoWork, list) /\ NoWork.pc = "idle"
    <2>1. Len(list) \in Nat
      BY ListFacts DEF Types, DataTypes
    <2>2. Len(<<>>) = 0 /\ 1 .. 0 = {} /\ <<>> = [k \in 1 .. 0 |-> <<>>[k]]
      BY EmptySeq
    <2> QED
      BY <2>1, <2>2 DEF WorkAt, NoWork
  <1>3. mtx = w
    BY <1>1 DEF Emitting
  <1>4. WorkerTypes'
    <2>1. \A v \in Workers \ {w} : Emitting(v) <=> mtx' = v
      BY <1>1, <1>3, DerivedAssumption
    <2> QED
      BY <1>1, <1>2, <2>1, DerivedAssumption, WorkerStep DEF Types
  <1> QED
    BY <1>1, <1>4, UnchangedTypes DEF Types

LEMMA TypesStep ==
    ASSUME Types, IdsInv, [Next]_vars
    PROVE  Types'
  <1>1. CASE UNCHANGED vars
    BY <1>1, UnchangedTypes DEF vars, Types
  <1>2. ASSUME NEW s \in Setters, NEW op \in Ops, NEW v \in Values,
               UpdateCurrentValue(s, op, v)
        PROVE  Types'
    BY <1>2, UpdateTypes
  <1>3. ASSUME NEW s \in Setters,
               MakeMessage(s) \/ HandleReads(s) \/ HandleWrites(s) \/ Enqueue(s)
        PROVE  Types'
    BY <1>3, MessageTypes, ReadTypes, WriteTypes, EnqueueTypes
  <1>4. ASSUME NEW w \in Workers,
               Flush(w) \/ EmitLocks(w) \/ EmitReads(w) \/ ResetDerived(w) \/ EmitUnlocks(w)
        PROVE  Types'
    BY <1>4, FlushTypes, LockTypes, SomeCopy, EmitTypes, ResetTypes, UnlockTypes
  <1> QED
    BY <1>1, <1>2, <1>3, <1>4 DEF Next

-----------------------------------------------------------------------------
(* Calls do not meet, and only those that are over are in the pipeline. *)

\* What the steps of a setter do to the identifiers of the setters.
LEMMA SetterMoves ==
    ASSUME Types, NEW s \in Setters
    PROVE  /\ \A op \in Ops, v \in Values : UpdateCurrentValue(s, op, v) =>
                 /\ setter[s].pc = "idle" /\ setter[s].id = 0
                 /\ setter'[s].pc = "message" /\ setter'[s].id = Len(calls) + 1
           /\ MakeMessage(s) => /\ setter[s].pc = "message"
                                /\ setter'[s].pc \in {"read", "idle"}
                                /\ setter'[s].id \in {0, setter[s].id}
           /\ HandleReads(s) => /\ setter'[s].id = setter[s].id
                                /\ setter'[s].at = setter[s].at
           /\ HandleWrites(s) => /\ setter'[s].id = setter[s].id
                                 /\ setter'[s].at = setter[s].at + 1
                                 /\ setter'[s].pc = "read"
           /\ Enqueue(s) => setter'[s].id = 0 /\ setter'[s].pc = "idle"
  <1>1. setter = [t \in Setters |-> setter[t]] /\ CallAt(setter[s], calls, list)
    BY DEF Types, SetterTypes
  <1>2. ASSUME NEW op \in Ops, NEW v \in Values, UpdateCurrentValue(s, op, v)
        PROVE  /\ setter[s].pc = "idle" /\ setter[s].id = 0
               /\ setter'[s].pc = "message" /\ setter'[s].id = Len(calls) + 1
    <2> DEFINE c == [NoCall EXCEPT !.pc = "message", !.id = Len(calls) + 1, !.op = op]
    <2>1. setter' = [setter EXCEPT ![s] = c] /\ setter[s].pc = "idle"
      BY <1>2 DEF UpdateCurrentValue
    <2>2. c.pc = "message" /\ c.id = Len(calls) + 1
      BY NewCall
    <2> HIDE DEF c
    <2> QED
      BY <1>1, <2>1, <2>2 DEF CallAt
  <1>3. ASSUME MakeMessage(s)
        PROVE  /\ setter[s].pc = "message"
               /\ setter'[s].pc \in {"read", "idle"}
               /\ setter'[s].id \in {0, setter[s].id}
    <2>1. setter[s].pc = "message" /\ IsCall(setter[s])
      BY <1>1, <1>3 DEF MakeMessage, CallAt, IsCall
    <2>2. CASE setter' = [setter EXCEPT ![s].pc = "read", ![s].at = 1]
      <3> DEFINE d == [setter[s] EXCEPT !.pc = "read"]
                 e == [d EXCEPT !.at = 1]
      <3>1. setter'[s] = e
        BY <1>1, <2>2
      <3>2. d = [pc |-> "read", id |-> setter[s].id, op |-> setter[s].op,
                 at |-> setter[s].at, read |-> setter[s].read]
        BY <2>1, MovedCall
      <3> HIDE DEF d
      <3>3. e.pc = "read" /\ e.id = setter[s].id
        BY <3>2
      <3> QED
        BY <2>1, <3>1, <3>3
    <2>3. CASE setter' = [setter EXCEPT ![s] = NoCall]
      BY <1>1, <2>1, <2>3 DEF NoCall
    <2> QED
      BY <1>3, <2>2, <2>3 DEF MakeMessage
  <1>4. ASSUME HandleReads(s)
        PROVE  setter'[s].id = setter[s].id /\ setter'[s].at = setter[s].at
    BY <1>1, <1>4 DEF HandleReads, CallAt
  <1>5. ASSUME HandleWrites(s)
        PROVE  /\ setter'[s].id = setter[s].id /\ setter'[s].at = setter[s].at + 1
               /\ setter'[s].pc = "read"
    BY <1>1, <1>5, WriteFacts
  <1>6. ASSUME Enqueue(s)
        PROVE  setter'[s].id = 0 /\ setter'[s].pc = "idle"
    BY <1>1, <1>6 DEF Enqueue, NoCall
  <1> QED
    BY <1>2, <1>3, <1>4, <1>5, <1>6

\* They leave the other setters alone.
SetterAction(s) == \/ \E op \in Ops, v \in Values : UpdateCurrentValue(s, op, v)
                   \/ MakeMessage(s) \/ HandleReads(s) \/ HandleWrites(s) \/ Enqueue(s)
WorkerAction(w) == \/ Flush(w) \/ EmitLocks(w) \/ EmitReads(w) \/ ResetDerived(w)
                   \/ EmitUnlocks(w)

LEMMA Moving ==
    ASSUME Types
    PROVE  /\ \A s \in Setters : SetterAction(s) =>
                 /\ \A t \in Setters \ {s} : setter'[t] = setter[t]
                 /\ UNCHANGED <<list, worker, mtx, counted>>
           /\ \A w \in Workers : WorkerAction(w) =>
                 /\ \A v \in Workers \ {w} : worker'[v] = worker[v]
                 /\ UNCHANGED <<list, calls, setter>>
  <1>1. ASSUME NEW s \in Setters, SetterAction(s)
        PROVE  /\ \A t \in Setters \ {s} : setter'[t] = setter[t]
               /\ UNCHANGED <<list, worker, mtx, counted>>
    <2>1. /\ \E c : setter' = [setter EXCEPT ![s] = c]
          /\ UNCHANGED <<list, worker, mtx, counted>>
      BY <1>1 DEF SetterAction, UpdateCurrentValue, MakeMessage, HandleReads, HandleWrites,
                  Enqueue
    <2> QED
      BY <2>1 DEF Types, SetterTypes
  <1>2. ASSUME NEW w \in Workers, WorkerAction(w)
        PROVE  /\ \A v \in Workers \ {w} : worker'[v] = worker[v]
               /\ UNCHANGED <<list, calls, setter>>
    <2>1. /\ \E j : worker' = [worker EXCEPT ![w] = j]
          /\ UNCHANGED <<list, calls, setter>>
      BY <1>2 DEF WorkerAction, Flush, EmitLocks, EmitReads, ResetDerived, EmitUnlocks
    <2> QED
      BY <2>1 DEF Types, WorkerTypes
  <1> QED
    BY <1>1, <1>2

LEMMA IdsStep ==
    ASSUME Types, IdsInv, [Next]_vars
    PROVE  IdsInv'
  <1>1. CASE UNCHANGED setter
    BY <1>1 DEF IdsInv
  <1>2. ASSUME NEW s \in Setters, NEW op \in Ops, NEW v \in Values,
               UpdateCurrentValue(s, op, v)
        PROVE  IdsInv'
    <2>1. setter'[s].id = Len(calls) + 1
          /\ \A t \in Setters \ {s} : setter'[t] = setter[t]
      BY <1>2, SetterMoves, Moving DEF SetterAction
    <2>2. Len(calls) \in Nat
      BY CallFacts DEF Types
    <2>3. \A t \in Setters : setter[t].id # Len(calls) + 1
      BY <2>2 DEF Types, SetterTypes, CallAt
    <2> QED
      BY <2>1, <2>3 DEF IdsInv
  <1>3. ASSUME NEW s \in Setters,
               MakeMessage(s) \/ HandleReads(s) \/ HandleWrites(s) \/ Enqueue(s)
        PROVE  IdsInv'
    <2>1. /\ setter'[s].id \in {0, setter[s].id}
          /\ \A t \in Setters \ {s} : setter'[t] = setter[t]
      BY <1>3, SetterMoves, Moving DEF SetterAction
    <2> QED
      BY <2>1 DEF IdsInv
  <1>4. ASSUME NEW w \in Workers, WorkerAction(w)
        PROVE  IdsInv'
    BY <1>1, <1>4, Moving
  <1> QED
    BY <1>1, <1>2, <1>3, <1>4 DEF Next, vars, WorkerAction

LEMMA OverBound ==
    /\ DataTypes => Over \in SUBSET (1 .. MaxSets)
    /\ DataTypes' => Over' \in SUBSET (1 .. MaxSets)
  <1>1. ASSUME DataTypes'
        PROVE  Over' \in SUBSET (1 .. MaxSets)
    <2>1. calls' \in Seq([arg : Values, msg : Int \cup {Nil}]) /\ Len(calls') <= MaxSets
      BY <1>1 DEF DataTypes
    <2>2. Len(calls') \in Nat /\ MaxSets \in Nat
      BY <2>1, LenProperties, DerivedAssumption
    <2> QED
      BY <2>1, <2>2 DEF Over, Calls
  <1> QED
    BY <1>1, CallFacts DEF Over

LEMMA BoundedSet ==
    ASSUME NEW S \in SUBSET (1 .. MaxSets)
    PROVE  IsFiniteSet(S) /\ Cardinality(S) \in Nat /\ Cardinality(S) <= MaxSets
  <1>1. IsFiniteSet(1 .. MaxSets) /\ Cardinality(1 .. MaxSets) = MaxSets
    BY FS_Interval, DerivedAssumption
  <1> QED
    BY <1>1, FS_Subset, FS_CardinalityType

\* A message changes a call that was made, and makes none.
LEMMA SameLength ==
    ASSUME NEW S, NEW a \in Seq(S), NEW b \in Seq(S), DOMAIN a = DOMAIN b
    PROVE  Len(a) = Len(b)
  <1>1. /\ Len(a) \in Nat /\ Len(b) \in Nat /\ DOMAIN a = 1 .. Len(a)
        /\ DOMAIN b = 1 .. Len(b)
    BY LenProperties
  <1>2. \A m, n \in Nat : 1 .. m = 1 .. n => m = n
    <2> SUFFICES ASSUME NEW m \in Nat, NEW n \in Nat, 1 .. m = 1 .. n
                 PROVE  m = n
      BY Zenon
    <2>1. ~(m < n)
      <3>1. m < n => n \in 1 .. n /\ n \notin 1 .. m
        OBVIOUS
      <3> QED
        BY <3>1, Zenon
    <2>2. ~(n < m)
      <3>1. n < m => m \in 1 .. m /\ m \notin 1 .. n
        OBVIOUS
      <3> QED
        BY <3>1, Zenon
    <2> QED
      BY <2>1, <2>2
  <1>3. 1 .. Len(a) = 1 .. Len(b)
    BY <1>1, Zenon
  <1> QED
    BY <1>1, <1>2, <1>3, Zenon

LEMMA MessageCalls ==
    ASSUME Types, Types', NEW s \in Setters, MakeMessage(s)
    PROVE  /\ Len(calls') = Len(calls)
           /\ \A n \in Calls \ {setter[s].id} : calls'[n] = calls[n]
  <1>1. CASE calls' = [calls EXCEPT ![setter[s].id].msg = MessageValue(s)]
    <2>1. calls \in Seq([arg : Values, msg : Int \cup {Nil}])
          /\ calls' \in Seq([arg : Values, msg : Int \cup {Nil}])
      BY DEF Types, DataTypes
    <2>2. DOMAIN calls' = DOMAIN calls
      BY <1>1
    <2>3. Len(calls') = Len(calls)
      BY <2>1, <2>2, SameLength
    <2> QED
      BY <1>1, <2>3, CallFacts DEF Types
  <1>2. CASE UNCHANGED calls
    BY <1>2
  <1> QED
    BY <1>1, <1>2 DEF MakeMessage

LEMMA QueuedStep ==
    ASSUME Types, Types', IdsInv, QueuedInv, [Next]_vars
    PROVE  QueuedInv'
  <1> USE DEF Types
  <1>0. /\ Cardinality(Over) \in Nat /\ Cardinality(Over') \in Nat /\ queued \in Nat
        /\ queued' \in Nat /\ queued <= Cardinality(Over)
    <2>1. queued \in Nat /\ queued' \in Nat
      BY DEF DataTypes
    <2> QED
      BY <2>1, OverBound, BoundedSet DEF QueuedInv
  <1>1. ASSUME Over \subseteq Over', queued' <= queued
        PROVE  QueuedInv'
    <2>1. IsFiniteSet(Over')
      BY OverBound, BoundedSet
    <2>2. Cardinality(Over) <= Cardinality(Over')
      BY <1>1, <2>1, FS_Subset
    <2> QED
      BY <1>0, <1>1, <2>2 DEF QueuedInv
  <1>2. CASE UNCHANGED <<calls, setter>> /\ queued' <= queued
    BY <1>1, <1>2 DEF Over, Calls
  <1>3. ASSUME NEW s \in Setters, NEW op \in Ops, NEW v \in Values,
               UpdateCurrentValue(s, op, v)
        PROVE  QueuedInv'
    <2>1. /\ setter'[s].id = Len(calls) + 1 /\ setter[s].id = 0
          /\ \A t \in Setters \ {s} : setter'[t] = setter[t]
      BY <1>3, SetterMoves, Moving DEF SetterAction
    <2>2. Len(calls) \in Nat /\ Len(calls') = Len(calls) + 1 /\ queued' = queued
      BY <1>3, CallFacts, AppendProperties DEF UpdateCurrentValue, DataTypes
    <2>3. Over \subseteq Over'
      BY <2>1, <2>2 DEF Over, Calls
    <2> QED
      BY <1>0, <1>1, <2>2, <2>3
  <1>4. ASSUME NEW s \in Setters, MakeMessage(s) \/ HandleReads(s) \/ HandleWrites(s)
        PROVE  QueuedInv'
    <2>1. /\ setter'[s].id \in {0, setter[s].id} /\ queued' = queued
          /\ \A t \in Setters \ {s} : setter'[t] = setter[t]
      BY <1>4, SetterMoves, Moving
         DEF SetterAction, MakeMessage, HandleReads, HandleWrites
    <2>2. Len(calls') = Len(calls) /\ Len(calls) \in Nat
      BY <1>4, CallFacts, MessageCalls DEF HandleReads, HandleWrites
    <2>3. Over \subseteq Over'
      BY <2>1, <2>2 DEF Over, Calls
    <2> QED
      BY <1>0, <1>1, <2>1, <2>3
  <1>5. ASSUME NEW s \in Setters, Enqueue(s)
        PROVE  QueuedInv'
    <2> DEFINE id == setter[s].id
    <2>1. /\ setter'[s].id = 0 /\ \A t \in Setters \ {s} : setter'[t] = setter[t]
          /\ queued' \in {queued, queued + 1} /\ UNCHANGED calls
      BY <1>5, SetterMoves, Moving DEF SetterAction, Enqueue
    <2>2. id \in Calls /\ id # 0
      BY <1>5, CallFacts DEF Enqueue, SetterTypes, CallAt, Calls
    <2>3. Over \cup {id} \subseteq Over' /\ id \notin Over
      BY <2>1, <2>2 DEF Over, Calls, IdsInv
    <2>4. Cardinality(Over) + 1 <= Cardinality(Over')
      <3>1. Cardinality(Over \cup {id}) = Cardinality(Over) + 1
        BY <2>3, OverBound, BoundedSet, FS_AddElement
      <3>2. IsFiniteSet(Over')
        BY OverBound, BoundedSet
      <3> QED
        BY <2>3, <3>1, <3>2, FS_Subset
    <2> QED
      BY <1>0, <2>1, <2>4 DEF QueuedInv
  <1>6. ASSUME NEW w \in Workers, WorkerAction(w)
        PROVE  QueuedInv'
    <2>1. UNCHANGED <<calls, setter>>
      BY <1>6, Moving
    <2>2. queued' <= queued
      <3>1. CASE Flush(w)
        BY <1>0, <3>1 DEF Flush
      <3>2. CASE UNCHANGED queued
        BY <1>0, <3>2
      <3> QED
        BY <1>6, <3>1, <3>2
           DEF WorkerAction, EmitLocks, EmitReads, ResetDerived, EmitUnlocks
    <2> QED
      BY <1>2, <2>1, <2>2
  <1>7. CASE UNCHANGED vars
    BY <1>0, <1>2, <1>7 DEF vars
  <1> QED
    BY <1>3, <1>4, <1>5, <1>6, <1>7 DEF Next, WorkerAction

-----------------------------------------------------------------------------
(* Without a race, what was read is still there when it is written back. *)

LEMMA RaceFrame ==
    ASSUME RaceInv, UNCHANGED <<derived, worker, raced>>,
           \A t \in Setters : setter'[t].pc = "write" => setter'[t] = setter[t]
    PROVE  RaceInv'
  BY DEF RaceInv, Emitting

LEMMA RaceStep ==
    ASSUME Types, RaceInv, [Next]_vars
    PROVE  RaceInv'
  <1> USE DEF Types
  <1>1. CASE UNCHANGED vars
    BY <1>1, RaceFrame DEF vars
  <1>2. ASSUME NEW s \in Setters,
               \/ \E op \in Ops, v \in Values : UpdateCurrentValue(s, op, v)
               \/ MakeMessage(s)
               \/ Enqueue(s)
        PROVE  RaceInv'
    <2>1. \A t \in Setters : setter'[t].pc = "write" => setter'[t] = setter[t]
      BY <1>2, SetterMoves, Moving DEF SetterAction
    <2>2. UNCHANGED <<derived, worker, raced>>
      BY <1>2 DEF UpdateCurrentValue, MakeMessage, Enqueue
    <2> QED
      BY <2>1, <2>2, RaceFrame
  <1>3. ASSUME NEW s \in Setters, HandleReads(s)
        PROVE  RaceInv'
    <2> DEFINE i == setter[s].at
    <2> SUFFICES ASSUME ~raced'
                 PROVE  RaceInv'
      BY DEF RaceInv
    <2>1. /\ ~raced /\ UNCHANGED <<derived, worker>>
          /\ \A w \in Workers : ~Emitting(w)
          /\ \A t \in Setters \ {s} : ~(setter[t].pc = "write" /\ setter[t].at = i)
      BY <1>3, Zenon DEF HandleReads, Inside
    <2>2. \A t \in Setters \ {s} : setter'[t] = setter[t]
      BY <1>3, Moving DEF SetterAction
    <2>3. setter'[s].at = i /\ setter'[s].read = derived[i]
      BY <1>3, ReadFacts DEF SetterTypes
    <2>4. \A w \in Workers : ~Emitting(w)' /\ worker'[w].pc # "reset"
      BY <2>1 DEF Emitting
    <2> QED
      BY <2>1, <2>2, <2>3, <2>4 DEF RaceInv
  <1>4. ASSUME NEW s \in Setters, HandleWrites(s)
        PROVE  RaceInv'
    <2> DEFINE i == setter[s].at
    <2> SUFFICES ASSUME ~raced
                 PROVE  RaceInv'
      BY <1>4 DEF RaceInv, HandleWrites
    <2>1. setter[s].pc = "write" /\ UNCHANGED worker /\ raced' = raced
      BY <1>4 DEF HandleWrites
    <2>2. /\ \A w \in Workers : ~Emitting(w)
          /\ \A t \in Setters \ {s} : setter[t].pc = "write" =>
               setter[t].at # i /\ setter[t].read = derived[setter[t].at]
      BY <2>1 DEF RaceInv
    <2>3. /\ setter'[s].pc = "read"
          /\ \A t \in Setters \ {s} : setter'[t] = setter[t]
      BY <1>4, SetterMoves, Moving DEF SetterAction
    <2>4. \A k \in Kinds \ {i} : derived'[k] = derived[k]
      BY <1>4, WriteFacts DEF DerivedTypes
    <2>5. \A t \in Setters : setter[t].pc = "write" => setter[t].at \in Kinds
      BY DEF SetterTypes, CallAt, Kinds
    <2>6. \A t \in Setters : setter'[t].pc = "write" =>
            t # s /\ setter'[t].read = derived'[setter'[t].at]
      BY <2>2, <2>3, <2>4, <2>5
    <2>7. \A w \in Workers : ~Emitting(w)' /\ worker'[w].pc # "reset"
      BY <2>1, <2>2 DEF Emitting
    <2>8. \A t, u \in Setters :
             setter'[t].pc = "write" /\ setter'[u].pc = "write"
                /\ setter'[t].at = setter'[u].at => t = u
      BY <2>1, <2>3 DEF RaceInv
    <2> QED
      BY <2>6, <2>7, <2>8 DEF RaceInv
  <1>5. ASSUME NEW w \in Workers, Flush(w) \/ EmitUnlocks(w)
        PROVE  RaceInv'
    <2>1. UNCHANGED <<setter, derived, raced>>
      BY <1>5 DEF Flush, EmitUnlocks
    <2>2. \A v \in Workers \ {w} : worker'[v] = worker[v]
      BY <1>5, Moving DEF WorkerAction
    <2>3. worker'[w].pc \in {"idle", "lock"}
      <3>1. worker = [v \in Workers |-> worker[v]] /\ IsJob(worker[w])
        BY DEF WorkerTypes, WorkAt, IsJob
      <3>2. CASE Flush(w)
        <4>1. worker'[w] = [worker[w] EXCEPT !.pc = "lock"]
          BY <3>1, <3>2 DEF Flush
        <4> QED
          BY <3>1, <4>1 DEF IsJob
      <3>3. CASE EmitUnlocks(w)
        BY <3>1, <3>3 DEF EmitUnlocks, NoWork
      <3> QED
        BY <1>5, <3>2, <3>3
    <2>4. \A v \in Workers : worker'[v].pc \in {"emit", "reset"} =>
            v # w /\ worker'[v] = worker[v] /\ Emitting(v)
      BY <2>2, <2>3 DEF Emitting
    <2> QED
      BY <2>1, <2>4 DEF RaceInv, Emitting
  <1>6. ASSUME NEW w \in Workers, EmitLocks(w)
        PROVE  RaceInv'
    <2> SUFFICES ASSUME ~raced'
                 PROVE  RaceInv'
      BY DEF RaceInv
    <2>1. /\ ~raced /\ UNCHANGED <<setter, derived>>
          /\ \A s \in Setters : ~HalfHandled(s)
      BY <1>6, Zenon DEF EmitLocks
    <2>2. \A s \in Setters : setter[s].pc # "write"
      BY <2>1 DEF HalfHandled, SetterTypes, CallAt, Kinds
    <2>3. \A v \in Workers \ {w} : worker'[v] = worker[v]
      BY <1>6, Moving DEF WorkerAction
    <2>4. worker'[w].pc = "emit"
      BY <1>6 DEF EmitLocks, WorkerTypes
    <2> QED
      BY <2>1, <2>2, <2>3, <2>4 DEF RaceInv
  <1>7. ASSUME NEW w \in Workers, EmitReads(w)
        PROVE  RaceInv'
    <2>0. PICK copy : EmitsCopy(w, copy)
      BY <1>7, SomeCopy
    <2> DEFINE i == worker[w].at
    <2>1. /\ worker[w].pc = "emit" /\ UNCHANGED <<setter, derived, raced>>
          /\ \A v \in Workers \ {w} : worker'[v] = worker[v]
      BY <1>7, Moving DEF EmitReads, WorkerAction
    <2>2. worker'[w] = [pc |-> "reset", at |-> i, out |-> Append(worker[w].out, Emitted(i, copy))]
            /\ Append(worker[w].out, Emitted(i, copy))[i] = Emitted(i, copy)
      <3>1. /\ worker' = [worker EXCEPT ![w] = [pc |-> "reset", at |-> i,
                                                out |-> Append(worker[w].out, Emitted(i, copy))]]
            /\ Append(worker[w].out, Emitted(i, copy))[i] = Emitted(i, copy)
        BY <2>0, EmitFacts
      <3> QED
        BY <3>1 DEF WorkerTypes
    <2>3. worker'[w].out[worker'[w].at].ids = derived[i].ids /\ worker'[w].at = i
      <3> DEFINE more == Append(worker[w].out, Emitted(i, copy))
      <3>1. more[i].ids = derived[i].ids
        <4>1. more[i] = Emitted(i, copy)
          BY <2>2
        <4>2. Emitted(i, copy).ids = derived[i].ids
          BY DEF Emitted
        <4> QED
          BY <4>1, <4>2, Zenon
      <3>2. worker'[w].out = more /\ worker'[w].at = i
        BY <2>2
      <3> HIDE DEF more
      <3> QED
        BY <3>1, <3>2
    <2>4. Emitting(w) /\ \A v \in Workers : Emitting(v)' => Emitting(v)
      BY <2>1 DEF Emitting
    <2> QED
      BY <2>1, <2>3, <2>4 DEF RaceInv
  <1>8. ASSUME NEW w \in Workers, ResetDerived(w)
        PROVE  RaceInv'
    <2>1. /\ worker[w].pc = "reset" /\ UNCHANGED <<setter, raced>>
          /\ \A v \in Workers \ {w} : worker'[v] = worker[v]
      BY <1>8, Moving DEF ResetDerived, WorkerAction
    <2>2. worker'[w].pc = "emit"
      BY <1>8, ResetFacts DEF WorkerTypes
    <2>3. \A v \in Workers \ {w} : ~Emitting(v)
      BY <2>1 DEF WorkerTypes, Emitting
    <2>4. \A v \in Workers : worker'[v].pc # "reset"
      BY <2>1, <2>2, <2>3 DEF Emitting
    <2>5. ~raced => \A s \in Setters : setter[s].pc # "write"
      BY <2>1 DEF RaceInv, Emitting
    <2> QED
      BY <2>1, <2>4, <2>5 DEF RaceInv
  <1> QED
    BY <1>1, <1>2, <1>3, <1>4, <1>5, <1>6, <1>7, <1>8 DEF Next

-----------------------------------------------------------------------------
(* The balance of what is counted, held and handled. *)

Reached(i, n) == n \in Calls /\ Handled(i, n)

LEMMA CountParts ==
    /\ CountInv <=> (~raced => \A i \in Kinds, n \in 1 .. MaxSets :
                        counted[i][n] + Times(derived[i].ids, n)
                          = IF Reached(i, n) THEN 1 ELSE 0)
    /\ CountInv' <=> (~raced' => \A i \in Kinds', n \in 1 .. MaxSets :
                        counted'[i][n] + Times(derived'[i].ids, n)
                          = IF Reached(i, n)' THEN 1 ELSE 0)
  BY DEF CountInv, Held, Times, Reached

LEMMA CountFrame ==
    ASSUME CountInv, UNCHANGED <<list, derived, counted>>, ~raced' => ~raced,
           \A i \in Kinds, n \in 1 .. MaxSets : Reached(i, n)' <=> Reached(i, n)
    PROVE  CountInv'
  <1>1. Kinds' = Kinds
    BY DEF Kinds
  <1> QED
    BY <1>1, CountParts

\* What a derived metric has reached depends on the calls and the setters only.
LEMMA ReachedFrame ==
    ASSUME UNCHANGED <<calls, setter>>
    PROVE  \A i, n : Reached(i, n)' <=> Reached(i, n)
  BY DEF Reached, Handled, Calls

LEMMA UpdateCounts ==
    ASSUME Types, CountInv, NEW s \in Setters, NEW op \in Ops, NEW v \in Values,
           UpdateCurrentValue(s, op, v)
    PROVE  CountInv'
  <1>1. /\ setter'[s].id = Len(calls) + 1 /\ setter[s].id = 0
        /\ \A t \in Setters \ {s} : setter'[t] = setter[t]
    BY SetterMoves, Moving DEF SetterAction
  <1>2. /\ Len(calls) \in Nat /\ calls \in Seq([arg : Values, msg : Int \cup {Nil}])
        /\ [arg |-> v, msg |-> Nil] \in [arg : Values, msg : Int \cup {Nil}]
        /\ calls' = Append(calls, [arg |-> v, msg |-> Nil])
    BY CallFacts DEF Types, DataTypes, UpdateCurrentValue
  <1>3. /\ Len(calls') = Len(calls) + 1
        /\ \A n \in 1 .. Len(calls) : calls'[n] = calls[n]
        /\ calls'[Len(calls) + 1] = [arg |-> v, msg |-> Nil]
    BY <1>2, AppendProperties
  <1>4. ASSUME NEW i \in Kinds, NEW n \in 1 .. MaxSets
        PROVE  Reached(i, n)' <=> Reached(i, n)
    <2>1. CASE n \in 1 .. Len(calls)
      <3>1. calls'[n] = calls[n] /\ n \in 1 .. Len(calls')
        BY <1>2, <1>3, <2>1
      <3>2. n # 0 /\ n # Len(calls) + 1
        BY <1>2, <2>1
      <3>3. \A t \in Setters : (setter'[t].id = n => setter'[t].at > i)
                                 <=> (setter[t].id = n => setter[t].at > i)
        BY <1>1, <3>2
      <3> QED
        BY <2>1, <3>1, <3>3 DEF Reached, Handled, Calls
    <2>2. CASE n = Len(calls) + 1
      <3>1. calls'[n].msg = Nil /\ n \notin 1 .. Len(calls)
        BY <1>2, <1>3, <2>2
      <3> QED
        BY <3>1 DEF Reached, Handled, Calls
    <2>3. CASE n \notin 1 .. Len(calls) + 1
      BY <1>2, <1>3, <2>3 DEF Reached, Calls
    <2> QED
      BY <1>2, <2>1, <2>2, <2>3
  <1>5. UNCHANGED <<list, derived, counted, raced>>
    BY DEF UpdateCurrentValue
  <1> QED
    BY <1>4, <1>5, CountFrame

LEMMA MessageCounts ==
    ASSUME Types, Types', IdsInv, CountInv, NEW s \in Setters, MakeMessage(s)
    PROVE  CountInv'
  <1> DEFINE id == setter[s].id
  <1>1. CallAt(setter[s], calls, list) /\ setter[s].pc = "message"
    BY DEF Types, SetterTypes, MakeMessage
  <1>2. id \in Calls /\ id # 0 /\ calls[id].msg = Nil
    BY <1>1, CallFacts DEF CallAt, Calls, Types
  <1>3. /\ Len(calls') = Len(calls)
        /\ \A n \in Calls \ {id} : calls'[n] = calls[n]
        /\ \A t \in Setters \ {s} : setter'[t] = setter[t] /\ setter[t].id # id
        /\ setter'[s].id \in {0, id}
    BY <1>2, MessageCalls, Moving, SetterMoves DEF SetterAction, IdsInv
  <1>4. calls'[id].msg # Nil => setter'[s].id = id /\ setter'[s].at = 1
    <2>1. CASE setter' = [setter EXCEPT ![s] = NoCall] /\ UNCHANGED calls
      BY <1>2, <2>1
    <2>2. CASE setter' = [setter EXCEPT ![s].pc = "read", ![s].at = 1]
      <3> DEFINE d == [setter[s] EXCEPT !.pc = "read"]
                 e == [d EXCEPT !.at = 1]
      <3>1. setter'[s] = e
        BY <2>2 DEF Types, SetterTypes
      <3>2. d = [pc |-> "read", id |-> id, op |-> setter[s].op,
                 at |-> setter[s].at, read |-> setter[s].read]
        BY <1>1, MovedCall DEF CallAt, IsCall
      <3> HIDE DEF d
      <3>3. e.at = 1 /\ e.id = id
        BY <3>2
      <3> QED
        BY <3>1, <3>3
    <2> QED
      BY <2>1, <2>2 DEF MakeMessage
  <1>5. ASSUME NEW i \in Kinds, NEW n \in 1 .. MaxSets
        PROVE  Reached(i, n)' <=> Reached(i, n)
    <2>1. CASE n = id
      <3>1. ~Reached(i, n)
        BY <1>2, <2>1 DEF Reached, Handled
      <3>2. ~(1 > i)
        BY ListFacts DEF Types, DataTypes, Kinds
      <3>3. ~Reached(i, n)'
        BY <1>4, <2>1, <3>2 DEF Reached, Handled
      <3> QED
        BY <3>1, <3>3
    <2>2. CASE n # id
      <3>1. \A t \in Setters : (setter'[t].id = n => setter'[t].at > i)
                                 <=> (setter[t].id = n => setter[t].at > i)
        <4>1. n # 0
          BY CallFacts DEF Types
        <4> QED
          BY <1>3, <2>2, <4>1
      <3> QED
        BY <1>3, <2>2, <3>1 DEF Reached, Handled, Calls
    <2> QED
      BY <2>1, <2>2
  <1>6. UNCHANGED <<list, derived, counted, raced>>
    BY DEF MakeMessage
  <1> QED
    BY <1>5, <1>6, CountFrame

LEMMA ReadCounts ==
    ASSUME Types, CountInv, NEW s \in Setters, HandleReads(s)
    PROVE  CountInv'
  <1>1. /\ setter'[s].id = setter[s].id /\ setter'[s].at = setter[s].at
        /\ \A t \in Setters \ {s} : setter'[t] = setter[t]
    BY SetterMoves, Moving DEF SetterAction
  <1>2. UNCHANGED <<list, calls, derived, counted>> /\ (~raced' => ~raced)
    BY Zenon DEF HandleReads
  <1>3. \A i \in Kinds, n \in 1 .. MaxSets : Reached(i, n)' <=> Reached(i, n)
    BY <1>1, <1>2 DEF Reached, Handled, Calls
  <1> QED
    BY <1>2, <1>3, CountFrame

LEMMA EnqueueCounts ==
    ASSUME Types, IdsInv, CountInv, NEW s \in Setters, Enqueue(s)
    PROVE  CountInv'
  <1> DEFINE id == setter[s].id
  <1>1. /\ setter[s].at > Len(list) /\ setter'[s].id = 0
        /\ \A t \in Setters \ {s} : setter'[t] = setter[t]
    BY SetterMoves, Moving DEF SetterAction, Enqueue
  <1>2. UNCHANGED <<list, calls, derived, counted, raced>>
    BY DEF Enqueue
  <1>3. setter[s].at \in Int /\ Len(list) \in Nat
    BY ListFacts DEF Types, DataTypes, SetterTypes, CallAt
  <1>4. \A i \in Kinds : setter[s].at > i
    BY <1>1, <1>3 DEF Kinds
  <1>5. \A i \in Kinds, n \in 1 .. MaxSets : Reached(i, n)' <=> Reached(i, n)
    <2> SUFFICES ASSUME NEW i \in Kinds, NEW n \in 1 .. MaxSets
                 PROVE  Reached(i, n)' <=> Reached(i, n)
      OBVIOUS
    <2>1. n # 0
      BY CallFacts DEF Types
    <2>2. (\A t \in Setters : setter'[t].id = n => setter'[t].at > i)
            <=> (\A t \in Setters : setter[t].id = n => setter[t].at > i)
      BY <1>1, <1>4, <2>1
    <2> QED
      BY <1>2, <2>2 DEF Reached, Handled, Calls
  <1> QED
    BY <1>2, <1>5, CountFrame

\* A write adds the call to the derived metric that it now has gone past.
LEMMA WriteCounts ==
    ASSUME Types, IdsInv, RaceInv, CountInv, NEW s \in Setters, HandleWrites(s)
    PROVE  CountInv'
  <1> DEFINE i  == setter[s].at
             id == setter[s].id
  <1>1. setter[s].pc = "write" /\ UNCHANGED <<list, calls, counted, raced>>
    BY DEF HandleWrites
  <1> SUFFICES ASSUME ~raced
               PROVE  \A k \in Kinds, n \in 1 .. MaxSets :
                         counted[k][n] + Times(derived'[k].ids, n)
                           = IF Reached(k, n)' THEN 1 ELSE 0
    BY <1>1, CountParts DEF Kinds
  <1>2. i \in Kinds /\ id \in Calls /\ id \in 1 .. MaxSets /\ calls[id].msg # Nil
    <2>1. CallAt(setter[s], calls, list)
      BY DEF Types, SetterTypes
    <2> QED
      BY <1>1, <2>1, NilAssumption DEF CallAt, Kinds, Calls
  <1>3. derived[i].ids \in Seq(1 .. MaxSets)
    BY <1>2 DEF Types, DerivedTypes, Entry
  <1>4. derived'[i].ids = Append(derived[i].ids, id)
    <2>1. setter[s].read = derived[i]
      BY <1>1 DEF RaceInv
    <2>2. derived'[i] = Written(s)
      BY <1>2, WriteFacts DEF Types, DerivedTypes
    <2>3. Written(s).ids = Append(setter[s].read.ids, id)
      BY DEF Written
    <2> QED
      BY <2>1, <2>2, <2>3, Zenon
  <1>5. \A k \in Kinds \ {i} : derived'[k] = derived[k]
    BY WriteFacts DEF Types, DerivedTypes
  <1>6. /\ setter'[s].id = id /\ setter'[s].at = i + 1 /\ id # 0
        /\ \A t \in Setters \ {s} : setter'[t] = setter[t] /\ setter[t].id # id
    BY <1>2, CallFacts, SetterMoves, Moving DEF SetterAction, IdsInv, Types
  <1>7. i \in Int /\ Kinds \subseteq Int
    BY <1>2 DEF Kinds
  <1>8. \A k \in Kinds, n \in 1 .. MaxSets :
           Reached(k, n)' <=> Reached(k, n) \/ (k = i /\ n = id)
    <2> SUFFICES ASSUME NEW k \in Kinds, NEW n \in 1 .. MaxSets
                 PROVE  Reached(k, n)' <=> Reached(k, n) \/ (k = i /\ n = id)
      OBVIOUS
    <2>1. CASE n # id
      <3>1. (\A t \in Setters : setter'[t].id = n => setter'[t].at > k)
              <=> (\A t \in Setters : setter[t].id = n => setter[t].at > k)
        BY <1>6, <2>1
      <3> QED
        BY <1>1, <2>1, <3>1 DEF Reached, Handled, Calls
    <2>2. CASE n = id
      <3>1. (\A t \in Setters : setter'[t].id = n => setter'[t].at > k) <=> i + 1 > k
        BY <1>6, <2>2
      <3>2. (\A t \in Setters : setter[t].id = n => setter[t].at > k) <=> i > k
        BY <1>6, <2>2
      <3>3. i + 1 > k <=> i > k \/ k = i
        BY <1>7
      <3> QED
        BY <1>1, <1>2, <2>2, <3>1, <3>2, <3>3 DEF Reached, Handled, Calls
    <2> QED
      BY <2>1, <2>2
  <1>9. ~Reached(i, id)
    BY <1>7 DEF Reached, Handled
  <1>10. \A k \in Kinds, n \in 1 .. MaxSets :
            /\ counted[k][n] \in Nat /\ Times(derived[k].ids, n) \in Nat
            /\ counted[k][n] + Times(derived[k].ids, n)
                 = IF Reached(k, n) THEN 1 ELSE 0
    BY CountParts, TimesType DEF Types, DerivedTypes, Entry
  <1>11. \A n \in 1 .. MaxSets : Times(derived'[i].ids, n)
            = Times(derived[i].ids, n) + (IF id = n THEN 1 ELSE 0)
    BY <1>2, <1>3, <1>4, TimesAppend
  <1> QED
    <2> HIDE DEF i, id
    <2> SUFFICES ASSUME NEW k \in Kinds, NEW n \in 1 .. MaxSets
                 PROVE  counted[k][n] + Times(derived'[k].ids, n)
                          = IF Reached(k, n)' THEN 1 ELSE 0
      OBVIOUS
    <2>1. CASE k = i
      BY <1>2, <1>8, <1>9, <1>10, <1>11, <2>1
    <2>2. CASE k # i
      <3>1. derived'[k] = derived[k] /\ (Reached(k, n)' <=> Reached(k, n))
        BY <1>5, <1>8, <2>2
      <3> QED
        BY <1>10, <3>1
    <2> QED
      BY <2>1, <2>2

\* A Reset empties the derived metric of just the calls that it counts.
LEMMA ResetCounts ==
    ASSUME Types, RaceInv, CountInv, NEW w \in Workers, ResetDerived(w)
    PROVE  CountInv'
  <1> DEFINE i   == worker[w].at
             ids == worker[w].out[i].ids
  <1>1. worker[w].pc = "reset" /\ UNCHANGED <<list, calls, setter, raced>>
    BY DEF ResetDerived
  <1> SUFFICES ASSUME ~raced
               PROVE  \A k \in Kinds, n \in 1 .. MaxSets :
                         counted'[k][n] + Times(derived'[k].ids, n)
                           = IF Reached(k, n) THEN 1 ELSE 0
    BY <1>1, CountParts, ReachedFrame DEF Kinds
  <1>2. /\ i \in Kinds
        /\ derived' = [derived EXCEPT ![i] = Fresh(i)]
        /\ counted' = [counted EXCEPT ![i] = CountedAfter(i, ids)]
    BY ResetFacts
  <1>3. ids = derived[i].ids
    BY <1>1 DEF RaceInv
  <1>4. derived'[i] = Fresh(i) /\ Fresh(i).ids = <<>>
    BY <1>2, ListFacts, FreshType DEF Types, DataTypes, DerivedTypes
  <1>5. counted'[i] = CountedAfter(i, derived[i].ids)
    BY <1>2, <1>3 DEF Types, DerivedTypes
  <1>6. \A k \in Kinds \ {i} : derived'[k] = derived[k] /\ counted'[k] = counted[k]
    BY <1>2 DEF Types, DerivedTypes
  <1>7. \A k \in Kinds, n \in 1 .. MaxSets :
            /\ counted[k][n] \in Nat /\ Times(derived[k].ids, n) \in Nat
            /\ counted[k][n] + Times(derived[k].ids, n)
                 = IF Reached(k, n) THEN 1 ELSE 0
    BY CountParts, TimesType DEF Types, DerivedTypes, Entry
  <1>8. \A n \in 1 .. MaxSets :
            /\ counted'[i][n] = counted[i][n] + Times(derived[i].ids, n)
            /\ Times(derived'[i].ids, n) = 0
    BY <1>4, <1>5, TimesEmpty DEF CountedAfter
  <1> QED
    <2> HIDE DEF i, ids
    <2> SUFFICES ASSUME NEW k \in Kinds, NEW n \in 1 .. MaxSets
                 PROVE  counted'[k][n] + Times(derived'[k].ids, n)
                          = IF Reached(k, n) THEN 1 ELSE 0
      OBVIOUS
    <2>1. CASE k = i
      BY <1>2, <1>7, <1>8, <2>1
    <2>2. CASE k # i
      BY <1>6, <1>7, <2>2
    <2> QED
      BY <2>1, <2>2

LEMMA CountStep ==
    ASSUME Types, Types', IdsInv, RaceInv, CountInv, [Next]_vars
    PROVE  CountInv'
  <1>1. CASE UNCHANGED vars
    <2>1. UNCHANGED <<calls, setter, list, derived, counted, raced>>
      BY <1>1 DEF vars
    <2> QED
      BY <2>1, ReachedFrame, CountFrame
  <1>2. ASSUME NEW s \in Setters, NEW op \in Ops, NEW v \in Values,
               UpdateCurrentValue(s, op, v)
        PROVE  CountInv'
    BY <1>2, UpdateCounts
  <1>3. ASSUME NEW s \in Setters,
               MakeMessage(s) \/ HandleReads(s) \/ HandleWrites(s) \/ Enqueue(s)
        PROVE  CountInv'
    BY <1>3, MessageCounts, ReadCounts, WriteCounts, EnqueueCounts
  <1>4. ASSUME NEW w \in Workers,
               Flush(w) \/ EmitLocks(w) \/ EmitReads(w) \/ EmitUnlocks(w)
        PROVE  CountInv'
    <2>1. UNCHANGED <<calls, setter, list, derived, counted>> /\ (~raced' => ~raced)
      <3>1. CASE EmitLocks(w)
        BY <3>1, Zenon DEF EmitLocks
      <3>2. CASE Flush(w) \/ EmitReads(w) \/ EmitUnlocks(w)
        <4>1. UNCHANGED <<calls, setter, list, derived, counted, raced>>
          BY <3>2 DEF Flush, EmitReads, EmitUnlocks
        <4> QED
          BY <4>1
      <3> QED
        BY <1>4, <3>1, <3>2
    <2> QED
      BY <2>1, ReachedFrame, CountFrame
  <1>5. ASSUME NEW w \in Workers, ResetDerived(w)
        PROVE  CountInv'
    BY <1>5, ResetCounts
  <1> QED
    BY <1>1, <1>2, <1>3, <1>4, <1>5 DEF Next

-----------------------------------------------------------------------------
(* Induction over the natural numbers, and the permutation that sorts. *)

LEMMA LeastNumber ==
    ASSUME NEW T \in SUBSET Nat, T # {}
    PROVE  \E x \in T : \A y \in T : x <= y
  <1> DEFINE Less == {ss \in Nat \X Nat : ss[1] < ss[2]}
  <1>1. IsWellFoundedOn(Less, Nat)
    <2>1. OpToRel(<, Nat) = Less
      BY DEF OpToRel
    <2> QED
      BY <2>1, NatLessThanWellFounded
  <1>2. PICK x \in T : \A y \in T : ~(<<y, x>> \in Less)
    <2> HIDE DEF Less
    <2> QED
      BY <1>1, WFMin
  <1>3. x \in Nat /\ \A y \in T : y \in Nat /\ ~(y < x)
    BY <1>2
  <1> QED
    BY <1>3

LEMMA Induction ==
    ASSUME NEW S, 0 \in S, \A n \in Nat : n \in S => n + 1 \in S
    PROVE  Nat \subseteq S
  <1> SUFFICES ASSUME Nat \ S # {}
               PROVE  FALSE
    OBVIOUS
  <1>1. PICK x \in Nat \ S : \A y \in Nat \ S : x <= y
    BY LeastNumber
  <1>2. x # 0 /\ x - 1 \in Nat
    BY <1>1
  <1>3. x - 1 \in S
    BY <1>1, <1>2
  <1> QED
    BY <1>1, <1>2, <1>3

\* Some permutation sorts a function on 1 .. n.
Sorts(p, s, n) == /\ p \in Bijection(1 .. n, 1 .. n)
                  /\ \A j, k \in 1 .. n : j < k => s[p[j]] <= s[p[k]]

LEMMA GreatestAt ==
    ASSUME NEW n \in Nat, NEW s \in [1 .. n + 1 -> Int]
    PROVE  \E m \in 1 .. n + 1 : \A k \in 1 .. n + 1 : s[k] <= s[m]
  <1> DEFINE S == {j \in Nat : j <= n => \E m \in 1 .. j + 1 : \A k \in 1 .. j + 1 : s[k] <= s[m]}
  <1>1. 0 \in S
    OBVIOUS
  <1>2. ASSUME NEW j \in Nat, j \in S
        PROVE  j + 1 \in S
    <2> SUFFICES ASSUME j + 1 <= n
                 PROVE  \E m \in 1 .. j + 2 : \A k \in 1 .. j + 2 : s[k] <= s[m]
      OBVIOUS
    <2>1. PICK m \in 1 .. j + 1 : \A k \in 1 .. j + 1 : s[k] <= s[m]
      BY <1>2
    <2>2. CASE s[j + 2] <= s[m]
      <3>1. \A k \in 1 .. j + 2 : k \in 1 .. j + 1 \/ k = j + 2
        OBVIOUS
      <3>2. m \in 1 .. j + 2 /\ \A k \in 1 .. j + 2 : s[k] <= s[m]
        BY <2>1, <2>2, <3>1
      <3> QED
        BY <3>2
    <2>3. CASE s[m] <= s[j + 2]
      <3>1. \A k \in 1 .. j + 2 : s[k] <= s[j + 2]
        BY <2>1, <2>3
      <3> QED
        BY <3>1
    <2>4. s[m] \in Int /\ s[j + 2] \in Int
      OBVIOUS
    <2> QED
      BY <2>2, <2>3, <2>4
  <1>3. n \in S
    <2> HIDE DEF S
    <2> QED
      BY <1>1, <1>2, Induction
  <1> QED
    BY <1>3

LEMMA SortExists ==
    ASSUME NEW n \in Nat, NEW s \in [1 .. n -> Int]
    PROVE  \E p : Sorts(p, s, n)
  <1> DEFINE S == {j \in Nat : \A t \in [1 .. j -> Int] : \E p : Sorts(p, t, j)}
  <1>1. 0 \in S
    <2> SUFFICES ASSUME NEW t \in [1 .. 0 -> Int]
                 PROVE  \E p : Sorts(p, t, 0)
      OBVIOUS
    <2> DEFINE p == [k \in 1 .. 0 |-> k]
    <2>1. p \in Bijection(1 .. 0, 1 .. 0)
      BY DEF Bijection, Injection, Surjection, IsInjective
    <2> QED
      BY <2>1 DEF Sorts
  <1>2. ASSUME NEW j \in Nat, j \in S
        PROVE  j + 1 \in S
    <2> SUFFICES ASSUME NEW t \in [1 .. j + 1 -> Int]
                 PROVE  \E p : Sorts(p, t, j + 1)
      OBVIOUS
    <2>1. PICK m \in 1 .. j + 1 : \A k \in 1 .. j + 1 : t[k] <= t[m]
      BY GreatestAt
    <2> DEFINE u == [k \in 1 .. j |-> IF k = m THEN t[j + 1] ELSE t[k]]
    <2>2. u \in [1 .. j -> Int]
      OBVIOUS
    <2>3. PICK q : Sorts(q, u, j)
      BY <1>2, <2>2
    <2>4. /\ q \in [1 .. j -> 1 .. j]
          /\ \A a, b \in 1 .. j : q[a] = q[b] => a = b
          /\ \A c \in 1 .. j : \E a \in 1 .. j : q[a] = c
      BY <2>3 DEF Sorts, Bijection, Injection, Surjection, IsInjective
    <2> DEFINE p == [k \in 1 .. j + 1 |-> IF k = j + 1 THEN m
                                          ELSE IF q[k] = m THEN j + 1 ELSE q[k]]
    <2>5. \A k \in 1 .. j + 1 : k \in 1 .. j \/ k = j + 1
      OBVIOUS
    <2>6. p \in [1 .. j + 1 -> 1 .. j + 1]
      <3>1. \A k \in 1 .. j : q[k] \in 1 .. j
        BY <2>4
      <3>2. \A k \in 1 .. j : q[k] \in 1 .. j + 1
        BY <3>1
      <3>3. \A k \in 1 .. j + 1 : k # j + 1 => q[k] \in 1 .. j + 1
        BY <2>5, <3>2
      <3> QED
        BY <3>3
    <2>7. ASSUME NEW a \in 1 .. j + 1, NEW b \in 1 .. j + 1, p[a] = p[b]
          PROVE  a = b
      <3>1. p[a] = IF a = j + 1 THEN m ELSE IF q[a] = m THEN j + 1 ELSE q[a]
        OBVIOUS
      <3>2. p[b] = IF b = j + 1 THEN m ELSE IF q[b] = m THEN j + 1 ELSE q[b]
        OBVIOUS
      <3>3. (a # j + 1 => a \in 1 .. j) /\ (b # j + 1 => b \in 1 .. j)
        OBVIOUS
      <3>4. (a # j + 1 => q[a] # j + 1) /\ (b # j + 1 => q[b] # j + 1)
        <4>1. \A c \in 1 .. j : q[c] \in 1 .. j /\ q[c] # j + 1
          BY <2>4
        <4> QED
          BY <3>3, <4>1
      <3>5. CASE a = j + 1 /\ b # j + 1
        BY <2>7, <3>1, <3>2, <3>4, <3>5, Zenon
      <3>6. CASE a # j + 1 /\ b = j + 1
        BY <2>7, <3>1, <3>2, <3>4, <3>6, Zenon
      <3>7. CASE a # j + 1 /\ b # j + 1
        <4>1. q[a] = q[b]
          BY <2>7, <3>1, <3>2, <3>4, <3>7, Zenon
        <4> QED
          BY <2>4, <3>3, <3>7, <4>1
      <3> QED
        BY <3>5, <3>6, <3>7
    <2>8. ASSUME NEW c \in 1 .. j + 1
          PROVE  \E a \in 1 .. j + 1 : p[a] = c
      <3>1. CASE c = m
        <4>1. p[j + 1] = c /\ j + 1 \in 1 .. j + 1
          BY <3>1
        <4> QED
          BY <4>1
      <3>2. CASE c # m
        <4> DEFINE d == IF c = j + 1 THEN m ELSE c
        <4>1. d \in 1 .. j
          BY <3>2, <2>5
        <4>2. PICK a \in 1 .. j : q[a] = d
          BY <2>4, <4>1
        <4>3. p[a] = c /\ a \in 1 .. j + 1
          BY <3>2, <4>2, <2>5
        <4> QED
          BY <4>3
      <3> QED
        BY <3>1, <3>2
    <2>9. p \in Bijection(1 .. j + 1, 1 .. j + 1)
      <3> HIDE DEF p
      <3> QED
        BY <2>6, <2>7, <2>8 DEF Bijection, Injection, Surjection, IsInjective
    <2>10. ASSUME NEW k \in 1 .. j
           PROVE  t[p[k]] = u[q[k]]
      <3>1. p[k] = IF q[k] = m THEN j + 1 ELSE q[k]
        BY <2>5
      <3>2. q[k] \in 1 .. j
        BY <2>4
      <3>3. u[q[k]] = IF q[k] = m THEN t[j + 1] ELSE t[q[k]]
        BY <3>2
      <3> HIDE DEF p, u
      <3> QED
        BY <3>1, <3>3
    <2>11. ASSUME NEW a \in 1 .. j + 1, NEW b \in 1 .. j + 1, a < b
           PROVE  t[p[a]] <= t[p[b]]
      <3>1. CASE b = j + 1
        <4>1. p[b] = m /\ p[a] \in 1 .. j + 1
          BY <3>1, <2>6
        <4> HIDE DEF p
        <4> QED
          BY <2>1, <4>1
      <3>2. CASE b \in 1 .. j
        <4>1. a \in 1 .. j
          BY <2>11, <3>2
        <4>2. u[q[a]] <= u[q[b]]
          BY <2>3, <2>11, <3>2, <4>1 DEF Sorts
        <4> HIDE DEF p, u
        <4> QED
          BY <2>10, <3>2, <4>1, <4>2
      <3> QED
        BY <2>5, <3>1, <3>2
    <2>12. Sorts(p, t, j + 1)
      <3> HIDE DEF p
      <3> QED
        BY <2>9, <2>11 DEF Sorts
    <2> QED
      BY <2>12
  <1>3. n \in S
    <2> HIDE DEF S
    <2> QED
      BY <1>1, <1>2, Induction
  <1> QED
    BY <1>3

\* What the sort leaves is the values themselves, in an order that is not
\* decreasing.
LEMMA SortedFacts ==
    ASSUME NEW vals \in Seq(Int)
    PROVE  \E p : /\ Sorts(p, vals, Len(vals))
                  /\ Sorted(vals) = [k \in 1 .. Len(vals) |-> vals[p[k]]]
                  /\ Len(Sorted(vals)) = Len(vals)
  <1> DEFINE n == Len(vals)
             order == CHOOSE p \in Bijection(DOMAIN vals, DOMAIN vals) :
                         \A j, k \in DOMAIN vals : j < k => vals[p[j]] <= vals[p[k]]
  <1>1. n \in Nat /\ DOMAIN vals = 1 .. n /\ vals \in [1 .. n -> Int]
    BY LenProperties
  <1>2. \E p \in Bijection(DOMAIN vals, DOMAIN vals) :
           \A j, k \in DOMAIN vals : j < k => vals[p[j]] <= vals[p[k]]
    <2> HIDE DEF n
    <2>1. PICK p : Sorts(p, vals, n)
      BY <1>1, SortExists
    <2> QED
      BY <1>1, <2>1 DEF Sorts
  <1>3. order \in Bijection(DOMAIN vals, DOMAIN vals)
          /\ \A j, k \in DOMAIN vals : j < k => vals[order[j]] <= vals[order[k]]
    BY <1>2
  <1>4. Sorted(vals) = [k \in DOMAIN vals |-> vals[order[k]]]
    BY DEF Sorted
  <1> HIDE DEF order
  <1>5. Sorts(order, vals, n)
    BY <1>1, <1>3 DEF Sorts
  <1>6. order \in [1 .. n -> 1 .. n]
    BY <1>5 DEF Sorts, Bijection, Injection
  <1>7. Sorted(vals) \in Seq(Int) /\ Len(Sorted(vals)) = n
    <2>1. Sorted(vals) \in [1 .. n -> Int]
      BY <1>1, <1>4, <1>6
    <2> QED
      BY <1>1, <2>1, LenProperties, SeqDef
  <1> QED
    BY <1>1, <1>4, <1>5, <1>7

-----------------------------------------------------------------------------
(* Percentiles. *)

\* The rank of a percentile among n values: the one below it, how much (in
\* parts of percentileBase) it is above that one, and the one that is not below it.
Lower(n, p) == (p * (n - 1)) \div percentileBase
Weight(n, p) == (p * (n - 1)) % percentileBase
Upper(n, p) == (p * (n - 1) + percentileBase - 1) \div percentileBase

LEMMA RankFacts ==
    ASSUME NEW n \in Nat \ {0}, NEW p \in 0 .. percentileBase
    PROVE  /\ Lower(n, p) \in Nat /\ Weight(n, p) \in 0 .. percentileBase - 1
           /\ Upper(n, p) = IF Weight(n, p) = 0 THEN Lower(n, p) ELSE Lower(n, p) + 1
           /\ Lower(n, p) + 1 \in 1 .. n /\ Upper(n, p) + 1 \in 1 .. n
           /\ Lower(n, p) + 1 = n => Weight(n, p) = 0
           /\ p = 0 => Lower(n, p) = 0 /\ Weight(n, p) = 0
           /\ p = percentileBase => Lower(n, p) + 1 = n
  <1> DEFINE index  == p * (n - 1)
             lower  == index \div percentileBase
             weight == index % percentileBase
             upper  == (index + percentileBase - 1) \div percentileBase
  <1>1. index \in Int /\ 0 <= index /\ index <= percentileBase * (n - 1)
    <2>1. p \in Int /\ 0 <= p /\ p <= percentileBase /\ n - 1 \in Int /\ 0 <= n - 1
      OBVIOUS
    <2>2. \A a, b, c \in Int : 0 <= a /\ a <= b /\ 0 <= c => 0 <= a * c /\ a * c <= b * c
      OBVIOUS
    <2>3. 0 <= p * (n - 1) /\ p * (n - 1) <= percentileBase * (n - 1)
      BY <2>1, <2>2 DEF percentileBase
    <2> QED
      BY <2>1, <2>3
  <1>2. (p = 0 => index = 0) /\ (p = percentileBase => index = percentileBase * (n - 1))
    OBVIOUS
  <1> HIDE DEF index
  <1>3. /\ lower \in Nat /\ weight \in 0 .. percentileBase - 1
        /\ index = percentileBase * lower + weight
        /\ upper = IF weight = 0 THEN lower ELSE lower + 1
    BY <1>1 DEF percentileBase
  <1>4. /\ lower + 1 <= n
        /\ lower + 1 >= n => weight = 0
    BY <1>1, <1>3 DEF percentileBase
  <1> HIDE DEF lower, weight, upper
  <1>5. /\ lower + 1 \in 1 .. n /\ upper + 1 \in 1 .. n
        /\ lower + 1 = n => weight = 0
        /\ p = 0 => lower = 0 /\ weight = 0
        /\ p = percentileBase => lower + 1 = n
    BY <1>1, <1>2, <1>3, <1>4 DEF percentileBase
  <1>6. Lower(n, p) = lower /\ Weight(n, p) = weight /\ Upper(n, p) = upper
    BY DEF Lower, Weight, Upper, lower, weight, upper, index
  <1> QED
    BY <1>3, <1>5, <1>6

\* A greater percentile has a greater rank.
LEMMA RanksGrow ==
    ASSUME NEW n \in Nat \ {0}, NEW p \in 0 .. percentileBase, NEW q \in 0 .. percentileBase, p <= q
    PROVE  /\ Lower(n, p) <= Lower(n, q)
           /\ Lower(n, p) < Lower(n, q) => Upper(n, p) <= Lower(n, q)
           /\ Lower(n, p) = Lower(n, q) => Weight(n, p) <= Weight(n, q)
  <1> DEFINE ip == p * (n - 1)
             iq == q * (n - 1)
  <1>1. ip \in Int /\ iq \in Int
    OBVIOUS
  <1>2. ip <= iq
    <2>1. \A a, b, c \in Int : a <= b /\ 0 <= c => a * c <= b * c
      OBVIOUS
    <2>2. p \in Int /\ q \in Int /\ n - 1 \in Int /\ 0 <= n - 1
      OBVIOUS
    <2>3. p * (n - 1) <= q * (n - 1)
      BY <2>1, <2>2
    <2> QED
      BY <2>3
  <1>3. /\ Lower(n, p) = ip \div percentileBase /\ Weight(n, p) = ip % percentileBase
        /\ Upper(n, p) = (ip + percentileBase - 1) \div percentileBase
        /\ Lower(n, q) = iq \div percentileBase /\ Weight(n, q) = iq % percentileBase
    BY DEF Lower, Weight, Upper
  <1> HIDE DEF ip, iq
  <1> QED
    BY <1>1, <1>2, <1>3 DEF percentileBase

\* Between two neighbours a percentile is between their values, and does not
\* decrease with its weight.
Mix(a, b, w) == a * (percentileBase - w) + b * w

LEMMA MixFacts ==
    ASSUME NEW a \in Int, NEW b \in Int, NEW w \in 0 .. percentileBase, a <= b
    PROVE  /\ Mix(a, b, w) \in Int /\ percentileBase * a <= Mix(a, b, w) /\ Mix(a, b, w) <= percentileBase * b
           /\ w = 0 => Mix(a, b, w) = percentileBase * a
  <1> DEFINE c == (b - a) * w
             x == Mix(a, b, w)
  <1>1. x = percentileBase * a + c
    BY DEF Mix, percentileBase
  <1>2. c \in Int /\ 0 <= c /\ c <= (b - a) * percentileBase
    BY DEF percentileBase
  <1>3. w = 0 => c = 0
    OBVIOUS
  <1> HIDE DEF c, x
  <1>4. x \in Int /\ percentileBase * a <= x /\ x <= percentileBase * b /\ (w = 0 => x = percentileBase * a)
    BY <1>1, <1>2, <1>3 DEF percentileBase
  <1> QED
    BY <1>4 DEF x

LEMMA MixGrows ==
    ASSUME NEW a \in Int, NEW b \in Int, NEW v \in 0 .. percentileBase, NEW w \in 0 .. percentileBase,
           a <= b, v <= w
    PROVE  Mix(a, b, v) <= Mix(a, b, w)
  <1> DEFINE c == (b - a) * v
             d == (b - a) * w
  <1>1. Mix(a, b, v) = percentileBase * a + c /\ Mix(a, b, w) = percentileBase * a + d
    BY DEF Mix, percentileBase
  <1>2. c \in Int /\ d \in Int /\ c <= d
    OBVIOUS
  <1> HIDE DEF c, d
  <1> QED
    BY <1>1, <1>2 DEF percentileBase

\* What CalculatePercentile does with n sorted values: below the last one it is
\* between two of them, and it is the last one at the end.
Ascending(s, n) == /\ Len(s) = n
                   /\ \A k \in 1 .. n : s[k] \in Int
                   /\ \A j, k \in 1 .. n : j <= k => s[j] <= s[k]

LEMMA PercentileFacts ==
    ASSUME NEW n \in Nat \ {0}, NEW s, Ascending(s, n), NEW p \in 0 .. percentileBase
    PROVE  LET lower  == Lower(n, p)
               weight == Weight(n, p)
               x      == CalculatePercentile(s, p)
           IN  /\ x \in Int
               /\ percentileBase * s[lower + 1] <= x /\ x <= percentileBase * s[Upper(n, p) + 1]
               /\ lower + 1 < n => x = Mix(s[lower + 1], s[lower + 2], weight)
               /\ p = 0 => x = percentileBase * s[1]
               /\ p = percentileBase => x = percentileBase * s[n]
  <1> DEFINE lower  == Lower(n, p)
             weight == Weight(n, p)
             upper  == Upper(n, p)
             x      == CalculatePercentile(s, p)
  <1>1. /\ lower \in Nat /\ weight \in 0 .. percentileBase - 1
        /\ upper = IF weight = 0 THEN lower ELSE lower + 1
        /\ lower + 1 \in 1 .. n /\ upper + 1 \in 1 .. n
        /\ lower + 1 = n => weight = 0
        /\ p = 0 => lower = 0 /\ weight = 0
        /\ p = percentileBase => lower + 1 = n
    BY RankFacts
  <1>2. x = IF lower + 1 >= n THEN percentileBase * s[n]
            ELSE Mix(s[lower + 1], s[lower + 2], weight)
    BY DEF CalculatePercentile, Ascending, Lower, Weight, Mix
  <1> HIDE DEF lower, weight, upper, x
  <1>4. CASE lower + 1 >= n
    <2>1. lower + 1 = n /\ upper + 1 = n /\ x = percentileBase * s[n]
      BY <1>1, <1>2, <1>4
    <2>2. s[n] \in Int
      BY DEF Ascending
    <2>3. p = 0 => n = 1
      BY <1>1, <2>1
    <2> QED
      BY <1>1, <2>1, <2>2, <2>3 DEF lower, weight, upper, x, percentileBase
  <1>5. CASE lower + 1 < n
    <2> DEFINE a == s[lower + 1]
               b == s[lower + 2]
    <2>1. a \in Int /\ b \in Int /\ a <= b
      BY <1>1, <1>5 DEF Ascending
    <2>2. x = Mix(a, b, weight)
      BY <1>2, <1>5, <1>1
    <2>3. weight \in 0 .. percentileBase
      BY <1>1 DEF percentileBase
    <2>4. x \in Int /\ percentileBase * a <= x /\ x <= percentileBase * b /\ (weight = 0 => x = percentileBase * a)
      <3> HIDE DEF a, b
      <3> QED
        BY <2>1, <2>2, <2>3, MixFacts
    <2>5. x \in Int /\ percentileBase * a <= x /\ x <= percentileBase * b
      BY <2>4
    <2>6. x <= percentileBase * s[upper + 1]
      <3>1. CASE weight = 0
        <4>1. s[upper + 1] = a
          BY <1>1, <3>1
        <4> HIDE DEF a, b
        <4> QED
          BY <2>1, <2>4, <3>1, <4>1
      <3>2. CASE weight # 0
        <4>1. s[upper + 1] = b
          BY <1>1, <3>2
        <4> HIDE DEF a, b
        <4> QED
          BY <2>5, <4>1
      <3> QED
        BY <3>1, <3>2
    <2>7. (p = 0 => x = percentileBase * s[1]) /\ p # percentileBase
      BY <1>1, <1>5, <2>4
    <2> QED
      BY <1>5, <2>2, <2>5, <2>6, <2>7 DEF lower, weight, upper, x
  <1> QED
    BY <1>1, <1>4, <1>5

LEMMA PercentilesGrow ==
    ASSUME NEW n \in Nat \ {0}, NEW s, Ascending(s, n),
           NEW p \in 0 .. percentileBase, NEW q \in 0 .. percentileBase, p <= q
    PROVE  CalculatePercentile(s, p) <= CalculatePercentile(s, q)
  <1> DEFINE lp == Lower(n, p)
             lq == Lower(n, q)
             up == Upper(n, p)
             v  == Weight(n, p)
             w  == Weight(n, q)
             x  == CalculatePercentile(s, p)
             y  == CalculatePercentile(s, q)
  <1>1. /\ lp \in Nat /\ v \in 0 .. percentileBase - 1 /\ up = IF v = 0 THEN lp ELSE lp + 1
        /\ lp + 1 \in 1 .. n /\ up + 1 \in 1 .. n /\ (lp + 1 = n => v = 0)
    BY RankFacts
  <1>2. lq \in Nat /\ w \in 0 .. percentileBase - 1 /\ lq + 1 \in 1 .. n
    BY RankFacts
  <1>3. lp <= lq /\ (lp < lq => up <= lq) /\ (lp = lq => v <= w)
    BY RanksGrow
  <1>4. /\ x \in Int /\ x <= percentileBase * s[up + 1]
        /\ lp + 1 < n => x = Mix(s[lp + 1], s[lp + 2], v)
    <2>1. x \in Int /\ x <= percentileBase * s[up + 1]
      BY PercentileFacts
    <2>2. lp + 1 < n => x = Mix(s[lp + 1], s[lp + 2], v)
      BY PercentileFacts
    <2> QED
      BY <2>1, <2>2
  <1>5. /\ y \in Int /\ percentileBase * s[lq + 1] <= y
        /\ lq + 1 < n => y = Mix(s[lq + 1], s[lq + 2], w)
    <2>1. y \in Int /\ percentileBase * s[lq + 1] <= y
      BY PercentileFacts
    <2>2. lq + 1 < n => y = Mix(s[lq + 1], s[lq + 2], w)
      BY PercentileFacts
    <2> QED
      BY <2>1, <2>2
  <1> SUFFICES x <= y
    OBVIOUS
  <1> HIDE DEF lp, lq, up, v, w, x, y
  <1>6. CASE up <= lq
    <2>1. s[up + 1] <= s[lq + 1] /\ s[up + 1] \in Int /\ s[lq + 1] \in Int
      BY <1>1, <1>2, <1>6 DEF Ascending
    <2> QED
      BY <1>4, <1>5, <2>1 DEF percentileBase
  <1>7. CASE lp = lq /\ lp + 1 < n
    <2> DEFINE a == s[lp + 1]
               b == s[lp + 2]
    <2>1. a \in Int /\ b \in Int /\ a <= b
      BY <1>1, <1>7 DEF Ascending
    <2>2. x = Mix(a, b, v) /\ y = Mix(a, b, w)
      BY <1>4, <1>5, <1>7
    <2>3. v \in 0 .. percentileBase /\ w \in 0 .. percentileBase /\ v <= w
      BY <1>1, <1>2, <1>3, <1>7 DEF percentileBase
    <2> HIDE DEF a, b
    <2>4. Mix(a, b, v) <= Mix(a, b, w)
      BY <2>1, <2>3, MixGrows
    <2> QED
      BY <2>2, <2>4
  <1>8. up <= lq \/ (lp = lq /\ lp + 1 < n)
    BY <1>1, <1>2, <1>3
  <1> QED
    BY <1>6, <1>7, <1>8

\* A set that has the values of ranks a to b has so many elements.
LEMMA CountAtLeast ==
    ASSUME NEW n \in Nat, NEW p \in Bijection(1 .. n, 1 .. n),
           NEW a \in 1 .. n + 1, NEW b \in 0 .. n, a <= b + 1,
           NEW T \in SUBSET (1 .. n), \A j \in a .. b : p[j] \in T
    PROVE  Cardinality(T) \in Nat /\ Cardinality(T) >= b - a + 1
  <1> DEFINE J   == a .. b
             Img == {p[j] : j \in J}
             f   == [j \in J |-> p[j]]
  <1>1. IsFiniteSet(J) /\ Cardinality(J) = b - a + 1
    <2>1. a \in Int /\ b \in Int
      OBVIOUS
    <2>2. IsFiniteSet(a .. b) /\ Cardinality(a .. b) = IF a > b THEN 0 ELSE b - a + 1
      BY <2>1, FS_Interval
    <2> QED
      BY <2>1, <2>2
  <1>2. \A j, k \in J : p[j] = p[k] => j = k
    <2>1. J \subseteq 1 .. n
      OBVIOUS
    <2> QED
      BY <2>1 DEF Bijection, Injection, IsInjective
  <1>3. f \in Bijection(J, Img)
    <2> HIDE DEF J
    <2> QED
      BY <1>2 DEF Bijection, Injection, Surjection, IsInjective
  <1>4. Cardinality(Img) = b - a + 1
    <2>1. ExistsBijection(J, Img)
      BY <1>3 DEF ExistsBijection
    <2> HIDE DEF J, Img
    <2> QED
      BY <1>1, <2>1, FS_Bijection
  <1>5. IsFiniteSet(T)
    <2>1. IsFiniteSet(1 .. n)
      BY FS_Interval
    <2> QED
      BY <2>1, FS_Subset
  <1>6. Img \in SUBSET T
    OBVIOUS
  <1>7. Cardinality(Img) <= Cardinality(T) /\ Cardinality(T) \in Nat
    <2> HIDE DEF Img
    <2> QED
      BY <1>5, <1>6, FS_Subset, FS_CardinalityType
  <1> QED
    BY <1>4, <1>7

LEMMA SortedIsSorted ==
    ASSUME NEW vals \in Seq(Int), vals # <<>>
    PROVE  /\ Len(vals) \in Nat \ {0}
           /\ Ascending(Sorted(vals), Len(vals))
           /\ \E p \in Bijection(1 .. Len(vals), 1 .. Len(vals)) :
                 \A k \in 1 .. Len(vals) : Sorted(vals)[k] = vals[p[k]]
  <1> DEFINE n == Len(vals)
             s == Sorted(vals)
  <1>1. n \in Nat \ {0} /\ vals \in [1 .. n -> Int]
    BY LenProperties, EmptySeq
  <1>2. PICK p : Sorts(p, vals, n) /\ s = [k \in 1 .. n |-> vals[p[k]]] /\ Len(s) = n
    BY SortedFacts
  <1> HIDE DEF n, s
  <1>3. p \in Bijection(1 .. n, 1 .. n)
    BY <1>2 DEF Sorts
  <1>4. \A k \in 1 .. n : p[k] \in 1 .. n
    BY <1>3 DEF Bijection, Injection
  <1>5. \A k \in 1 .. n : s[k] = vals[p[k]] /\ s[k] \in Int
    BY <1>1, <1>2, <1>4
  <1>6. \A j, k \in 1 .. n : j <= k => s[j] <= s[k]
    <2> SUFFICES ASSUME NEW j \in 1 .. n, NEW k \in 1 .. n, j <= k
                 PROVE  s[j] <= s[k]
      OBVIOUS
    <2>1. CASE j = k
      BY <1>5, <2>1
    <2>2. CASE j < k
      BY <1>2, <1>5, <2>2 DEF Sorts
    <2> QED
      BY <2>1, <2>2
  <1>7. Ascending(s, n)
    BY <1>2, <1>5, <1>6 DEF Ascending
  <1> QED
    BY <1>1, <1>3, <1>5, <1>7 DEF n, s

\* A percentile has as many values below and above it as its rank says.
LEMMA PercentileSplits ==
    ASSUME NEW vals \in Seq(Int), vals # <<>>, NEW p \in 0 .. percentileBase
    PROVE  Splits(vals, p, CalculatePercentile(Sorted(vals), p))
  <1> DEFINE n  == Len(vals)
             s  == Sorted(vals)
             x  == CalculatePercentile(s, p)
             lo == Lower(n, p)
             up == Upper(n, p)
             Below == {k \in 1 .. n : percentileBase * vals[k] <= x}
             Above == {k \in 1 .. n : percentileBase * vals[k] >= x}
  <1>1. n \in Nat \ {0} /\ Ascending(s, n) /\ vals \in [1 .. n -> Int]
    BY SortedIsSorted, LenProperties
  <1>2. PICK q \in Bijection(1 .. n, 1 .. n) : \A k \in 1 .. n : s[k] = vals[q[k]]
    BY SortedIsSorted
  <1> SUFFICES Cardinality(Below) >= lo + 1 /\ Cardinality(Above) >= n - up
    BY DEF Splits, Lower, Upper
  <1> HIDE DEF n, s
  <1>3. x \in Int /\ percentileBase * s[lo + 1] <= x /\ x <= percentileBase * s[up + 1]
    BY <1>1, PercentileFacts
  <1>4. lo \in Nat /\ up \in Nat /\ lo + 1 \in 1 .. n /\ up + 1 \in 1 .. n
    <2>1. /\ lo \in Nat /\ (up = lo \/ up = lo + 1)
          /\ lo + 1 \in 1 .. n /\ up + 1 \in 1 .. n
      BY <1>1, RankFacts
    <2> HIDE DEF lo, up
    <2> QED
      BY <1>1, <2>1
  <1> HIDE DEF x, lo, up
  <1>5. \A k \in 1 .. n : q[k] \in 1 .. n
    BY DEF Bijection, Injection
  <1>6. \A k \in 1 .. n : s[k] \in Int
    BY <1>1 DEF Ascending
  <1>7. \A j \in 1 .. lo + 1 : q[j] \in Below
    <2> SUFFICES ASSUME NEW j \in 1 .. lo + 1
                 PROVE  q[j] \in Below
      OBVIOUS
    <2>1. j \in 1 .. n /\ s[j] <= s[lo + 1]
      BY <1>1, <1>4 DEF Ascending
    <2>2. percentileBase * s[j] <= x
      BY <1>3, <1>4, <1>6, <2>1 DEF percentileBase
    <2> QED
      BY <1>2, <1>5, <2>1, <2>2
  <1>8. \A j \in up + 1 .. n : q[j] \in Above
    <2> SUFFICES ASSUME NEW j \in up + 1 .. n
                 PROVE  q[j] \in Above
      OBVIOUS
    <2>1. j \in 1 .. n /\ s[up + 1] <= s[j]
      BY <1>1, <1>4 DEF Ascending
    <2>2. percentileBase * s[j] >= x
      BY <1>3, <1>4, <1>6, <2>1 DEF percentileBase
    <2> QED
      BY <1>2, <1>5, <2>1, <2>2
  <1>9. Below \in SUBSET (1 .. n) /\ Above \in SUBSET (1 .. n)
    OBVIOUS
  <1> HIDE DEF Below, Above
  <1>10. Cardinality(Below) >= lo + 1
    <2>1. 1 \in 1 .. n + 1 /\ lo + 1 \in 0 .. n /\ 1 <= lo + 1 + 1
      BY <1>1, <1>4
    <2>2. Cardinality(Below) \in Nat /\ Cardinality(Below) >= (lo + 1) - 1 + 1
      BY <1>1, <1>7, <1>9, <2>1, CountAtLeast
    <2> QED
      BY <1>4, <2>2
  <1>11. Cardinality(Above) >= n - up
    <2>1. up + 1 \in 1 .. n + 1 /\ n \in 0 .. n /\ up + 1 <= n + 1
      BY <1>1, <1>4
    <2>2. Cardinality(Above) \in Nat /\ Cardinality(Above) >= n - (up + 1) + 1
      BY <1>1, <1>8, <1>9, <2>1, CountAtLeast
    <2> QED
      BY <1>1, <1>4, <2>2
  <1> QED
    BY <1>10, <1>11

-----------------------------------------------------------------------------
(* The sum of a sequence, which FoldLeft defines by a recursion over sets   *)
(* of its positions.                                                        *)

\* g folds s over every set of the first k positions.
IsFold(g, k, s) == g = [t \in SUBSET (1 .. k) |-> IF t = {} THEN 0
                                                 ELSE g[t \ {Max(t)}] + s[Max(t)]]

LEMMA MaxOfPrefix ==
    ASSUME NEW k \in Nat, NEW t \in SUBSET (1 .. k), k \in t
    PROVE  Max(t) = k
  <1>1. \A y \in t : k >= y
    OBVIOUS
  <1>2. \A x \in t : (\A y \in t : x >= y) => x = k
    OBVIOUS
  <1> QED
    BY <1>1, <1>2 DEF Max

LEMMA FoldsExist ==
    ASSUME NEW n \in Nat, NEW s
    PROVE  \E g : IsFold(g, n, s)
  <1> DEFINE S == {k \in Nat : \E g : IsFold(g, k, s)}
  <1>1. 0 \in S
    <2> DEFINE g == [t \in SUBSET (1 .. 0) |-> 0]
    <2>1. \A t \in SUBSET (1 .. 0) : t = {}
      OBVIOUS
    <2>2. IsFold(g, 0, s)
      BY <2>1 DEF IsFold
    <2> QED
      BY <2>2
  <1>2. ASSUME NEW k \in Nat, k \in S
        PROVE  k + 1 \in S
    <2>1. PICK g : IsFold(g, k, s)
      BY <1>2
    <2>2. \A t \in SUBSET (1 .. k) : g[t] = IF t = {} THEN 0 ELSE g[t \ {Max(t)}] + s[Max(t)]
      BY <2>1 DEF IsFold
    <2> DEFINE h == [t \in SUBSET (1 .. k + 1) |->
                        IF k + 1 \in t THEN g[t \ {k + 1}] + s[k + 1] ELSE g[t]]
    <2>3. ASSUME NEW t \in SUBSET (1 .. k + 1)
          PROVE  h[t] = IF t = {} THEN 0 ELSE h[t \ {Max(t)}] + s[Max(t)]
      <3>1. CASE k + 1 \in t
        <4>1. Max(t) = k + 1
          BY <3>1, MaxOfPrefix
        <4>2. t \ {k + 1} \in SUBSET (1 .. k + 1) /\ k + 1 \notin t \ {k + 1}
          OBVIOUS
        <4>3. h[t \ {k + 1}] = g[t \ {k + 1}]
          BY <4>2
        <4>4. h[t] = g[t \ {k + 1}] + s[k + 1]
          BY <3>1
        <4> HIDE DEF h
        <4> QED
          BY <3>1, <4>1, <4>3, <4>4
      <3>2. CASE k + 1 \notin t
        <4>1. t \in SUBSET (1 .. k)
          BY <3>2
        <4>2. h[t] = g[t]
          BY <3>2
        <4>3. h[t \ {Max(t)}] = g[t \ {Max(t)}]
          <5>1. t \ {Max(t)} \in SUBSET (1 .. k + 1) /\ k + 1 \notin t \ {Max(t)}
            BY <3>2
          <5> QED
            BY <5>1
        <4> HIDE DEF h
        <4> QED
          BY <2>2, <4>1, <4>2, <4>3
      <3> QED
        BY <3>1, <3>2
    <2>4. IsFold(h, k + 1, s)
      <3>1. h = [t \in SUBSET (1 .. k + 1) |-> h[t]]
        OBVIOUS
      <3> HIDE DEF h
      <3> QED
        BY <2>3, <3>1 DEF IsFold
    <2> QED
      BY <2>4
  <1>3. n \in S
    <2> HIDE DEF S
    <2> QED
      BY <1>1, <1>2, Induction
  <1> QED
    BY <1>3

\* The sums of the first k values, for every k.
PartialSums(f, s) == /\ f[0] = 0
                     /\ \A k \in 1 .. Len(s) : f[k] = f[k - 1] + s[k]

LEMMA FoldLeftSums ==
    ASSUME NEW s \in Seq(Int)
    PROVE  \E f : PartialSums(f, s) /\ FoldLeft(+, 0, s) = f[Len(s)]
  <1> DEFINE n == Len(s)
             g == CHOOSE g : IsFold(g, n, s)
             f == [k \in 0 .. n |-> g[1 .. k]]
  <1>1. n \in Nat /\ DOMAIN s = 1 .. n
    BY LenProperties
  <1>2. FoldLeft(+, 0, s) = g[1 .. n]
    <2>1. FoldLeft(+, 0, s)
            = (CHOOSE iter : iter = [t \in SUBSET DOMAIN s |->
                  IF t = {} THEN 0 ELSE iter[t \ {Max(t)}] + s[Max(t)]])[DOMAIN s]
      BY DEF FoldLeft, MapThenFoldSet
    <2> QED
      BY <1>1, <2>1 DEF IsFold
  <1>3. IsFold(g, n, s)
    <2> HIDE DEF n
    <2> QED
      BY <1>1, FoldsExist
  <1> HIDE DEF g, n
  <1>4. \A t \in SUBSET (1 .. n) : g[t] = IF t = {} THEN 0 ELSE g[t \ {Max(t)}] + s[Max(t)]
    BY <1>3 DEF IsFold
  <1>5. f[0] = 0
    <2>1. 1 .. 0 = {} /\ {} \in SUBSET (1 .. n) /\ 0 \in 0 .. n
      BY <1>1
    <2> QED
      BY <1>4, <2>1
  <1>6. ASSUME NEW k \in 1 .. n
        PROVE  f[k] = f[k - 1] + s[k]
    <2>1. 1 .. k \in SUBSET (1 .. n) /\ k \in 1 .. k /\ k \in Nat
      BY <1>1
    <2>2. Max(1 .. k) = k
      BY <2>1, MaxOfPrefix
    <2>3. (1 .. k) \ {k} = 1 .. k - 1
      OBVIOUS
    <2>4. g[1 .. k] = g[1 .. k - 1] + s[k]
      BY <1>4, <2>1, <2>2, <2>3
    <2>5. k \in 0 .. n /\ k - 1 \in 0 .. n
      BY <1>1
    <2> QED
      BY <2>4, <2>5
  <1>7. f[n] = g[1 .. n]
    BY <1>1
  <1> HIDE DEF f
  <1>8. PartialSums(f, s) /\ FoldLeft(+, 0, s) = f[Len(s)]
    BY <1>2, <1>5, <1>6, <1>7 DEF PartialSums, n
  <1> QED
    BY <1>8

LEMMA FoldLeftEmpty == FoldLeft(+, 0, <<>>) = 0
  <1>1. <<>> \in Seq(Int) /\ Len(<<>>) = 0
    BY EmptySeq
  <1>2. PICK f : PartialSums(f, <<>>) /\ FoldLeft(+, 0, <<>>) = f[Len(<<>>)]
    BY <1>1, FoldLeftSums
  <1> QED
    BY <1>1, <1>2 DEF PartialSums

LEMMA FoldLeftAppend ==
    ASSUME NEW s \in Seq(Int), NEW v \in Int
    PROVE  /\ FoldLeft(+, 0, s) \in Int
           /\ FoldLeft(+, 0, Append(s, v)) = FoldLeft(+, 0, s) + v
  <1> DEFINE n == Len(s)
             t == Append(s, v)
  <1>1. /\ n \in Nat /\ t \in Seq(Int) /\ Len(t) = n + 1
        /\ \A k \in 1 .. n : t[k] = s[k] /\ s[k] \in Int
        /\ t[n + 1] = v
    BY AppendProperties, LenProperties, ElementOfSeq
  <1>2. PICK f : PartialSums(f, s) /\ FoldLeft(+, 0, s) = f[n]
    BY FoldLeftSums
  <1> HIDE DEF t
  <1>3. PICK h : PartialSums(h, t) /\ FoldLeft(+, 0, t) = h[Len(t)]
    BY <1>1, FoldLeftSums
  <1> HIDE DEF n
  <1> DEFINE S == {k \in Nat : k <= n => f[k] = h[k] /\ f[k] \in Int}
  <1>4. 0 \in S
    <2>1. f[0] = 0 /\ h[0] = 0
      BY <1>2, <1>3 DEF PartialSums
    <2> QED
      BY <2>1
  <1>5. ASSUME NEW k \in Nat, k \in S
        PROVE  k + 1 \in S
    <2> SUFFICES ASSUME k + 1 <= n
                 PROVE  f[k + 1] = h[k + 1] /\ f[k + 1] \in Int
      OBVIOUS
    <2>1. k + 1 \in 1 .. n /\ k + 1 \in 1 .. Len(t) /\ (k + 1) - 1 = k
      BY <1>1
    <2>2. f[k + 1] = f[k] + s[k + 1]
      BY <1>2, <2>1 DEF PartialSums, n
    <2>3. h[k + 1] = h[k] + t[k + 1]
      BY <1>3, <2>1 DEF PartialSums
    <2>4. f[k] = h[k] /\ f[k] \in Int
      BY <1>1, <1>5
    <2> QED
      BY <1>1, <2>1, <2>2, <2>3, <2>4
  <1>6. n \in S
    <2> HIDE DEF S
    <2> QED
      BY <1>1, <1>4, <1>5, Induction
  <1>7. h[n + 1] = h[n] + v
    <2>1. n + 1 \in 1 .. Len(t) /\ (n + 1) - 1 = n
      BY <1>1
    <2> QED
      BY <1>1, <1>3, <2>1 DEF PartialSums
  <1>8. f[n] = h[n] /\ f[n] \in Int
    BY <1>1, <1>6
  <1> QED
    BY <1>1, <1>2, <1>3, <1>7, <1>8 DEF t

-----------------------------------------------------------------------------
(* What a derived metric's fields are of the values that it accounts for.   *)

\* The messages of the calls ids.
Vals(cs, ids) == [k \in DOMAIN ids |-> cs[ids[k]].msg]

Known(cs, ids) == /\ ids \in Seq(1 .. MaxSets)
                  /\ \A k \in DOMAIN ids : ids[k] \in 1 .. Len(cs) /\ cs[ids[k]].msg \in Int

\* The fields of a derived metric that has handled just these values.
Summary(kind, vals) ==
    CASE kind = "latest"     -> IF vals = <<>> THEN Nil ELSE Last(vals)
      [] kind = "max"        -> IF vals = <<>> THEN Nil ELSE Max(ToSet(vals))
      [] kind = "min"        -> IF vals = <<>> THEN Nil ELSE Min(ToSet(vals))
      [] kind = "mean"       -> [sum   |-> IF vals = <<>> THEN Nil ELSE FoldLeft(+, 0, vals),
                                 count |-> Len(vals)]
      [] kind = "percentile" -> vals

LEMMA GreatestAndLeast ==
    ASSUME NEW vals \in Seq(Int), vals # <<>>
    PROVE  /\ Max(ToSet(vals)) \in ToSet(vals) /\ \A v \in ToSet(vals) : v <= Max(ToSet(vals))
           /\ Min(ToSet(vals)) \in ToSet(vals) /\ \A v \in ToSet(vals) : Min(ToSet(vals)) <= v
           /\ ToSet(vals) \subseteq Int
  <1> DEFINE n == Len(vals) - 1
             neg == [k \in 1 .. n + 1 |-> -vals[k]]
  <1>1. /\ n \in Nat /\ vals \in [1 .. n + 1 -> Int] /\ DOMAIN vals = 1 .. n + 1
        /\ \A k \in 1 .. n + 1 : vals[k] \in Int
    <2>1. /\ Len(vals) \in Nat \ {0} /\ vals \in [1 .. Len(vals) -> Int]
          /\ DOMAIN vals = 1 .. Len(vals)
      BY LenProperties, EmptySeq
    <2>2. n \in Nat /\ n + 1 = Len(vals)
      BY <2>1
    <2> HIDE DEF n
    <2> QED
      BY <2>1, <2>2
  <1> HIDE DEF n
  <1>2. PICK m \in 1 .. n + 1 : \A k \in 1 .. n + 1 : vals[k] <= vals[m]
    BY <1>1, GreatestAt
  <1>3. PICK l \in 1 .. n + 1 : \A k \in 1 .. n + 1 : neg[k] <= neg[l]
    <2>1. neg \in [1 .. n + 1 -> Int]
      BY <1>1
    <2> HIDE DEF neg
    <2> QED
      BY <1>1, <2>1, GreatestAt
  <1>4. \A k \in 1 .. n + 1 : vals[l] <= vals[k]
    <2>1. \A k \in 1 .. n + 1 : vals[k] \in Int /\ -vals[k] <= -vals[l]
      BY <1>1, <1>3
    <2> QED
      BY <2>1
  <1>5. ToSet(vals) = {vals[k] : k \in 1 .. n + 1}
    BY <1>1 DEF ToSet
  <1>6. /\ vals[m] \in ToSet(vals) /\ \A v \in ToSet(vals) : vals[m] >= v
        /\ vals[l] \in ToSet(vals) /\ \A v \in ToSet(vals) : vals[l] <= v
        /\ ToSet(vals) \subseteq Int
    <2>1. \A k \in 1 .. n + 1 : vals[m] >= vals[k]
      BY <1>1, <1>2
    <2> QED
      BY <1>1, <1>4, <1>5, <2>1
  <1> DEFINE T == ToSet(vals)
  <1> HIDE DEF T
  <1>7. Max(T) \in T /\ \A v \in T : Max(T) >= v
    BY <1>6 DEF Max, T
  <1>8. Min(T) \in T /\ \A v \in T : Min(T) <= v
    BY <1>6 DEF Min, T
  <1> QED
    BY <1>6, <1>7, <1>8 DEF T

LEMMA ToSetAppend ==
    ASSUME NEW vals \in Seq(Int), NEW v \in Int
    PROVE  /\ ToSet(Append(vals, v)) = ToSet(vals) \cup {v}
           /\ Append(vals, v) \in Seq(Int) /\ Append(vals, v) # <<>>
           /\ Len(Append(vals, v)) = Len(vals) + 1
           /\ Last(Append(vals, v)) = v
  <1> DEFINE more == Append(vals, v)
             n == Len(vals)
  <1>1. /\ n \in Nat /\ DOMAIN vals = 1 .. n
        /\ more \in Seq(Int) /\ Len(more) = n + 1
        /\ \A k \in 1 .. n : more[k] = vals[k]
        /\ more[n + 1] = v
    BY LenProperties, AppendProperties
  <1>2. DOMAIN more = 1 .. n + 1
    BY <1>1, LenProperties
  <1> HIDE DEF more, n
  <1>3. ToSet(more) = ToSet(vals) \cup {v}
    <2>1. ToSet(more) = {more[k] : k \in 1 .. n + 1}
      BY <1>2 DEF ToSet
    <2>2. ToSet(vals) = {vals[k] : k \in 1 .. n}
      BY <1>1 DEF ToSet
    <2>3. \A k \in 1 .. n + 1 : k \in 1 .. n \/ k = n + 1
      BY <1>1
    <2>4. \A k \in 1 .. n : k \in 1 .. n + 1
      BY <1>1
    <2>5. ToSet(more) \subseteq ToSet(vals) \cup {v}
      BY <1>1, <2>1, <2>2, <2>3
    <2>6. ToSet(vals) \subseteq ToSet(more)
      BY <1>1, <2>1, <2>2, <2>4
    <2>7. v \in ToSet(more)
      BY <1>1, <2>1
    <2> QED
      BY <2>5, <2>6, <2>7
  <1>4. more # <<>>
    <2>1. Len(<<>>) = 0
      OBVIOUS
    <2> QED
      BY <1>1, <2>1
  <1>5. Last(more) = v
    BY <1>1 DEF Last
  <1> QED
    BY <1>1, <1>3, <1>4, <1>5 DEF more, n

\* HandleMessage turns the summary of the values into that of one more.
LEMMA HandleMessageSummarizes ==
    ASSUME NEW kind \in FiveKinds, NEW vals \in Seq(Int), NEW v \in Int
    PROVE  HandleMessage(kind, Summary(kind, vals), v) = Summary(kind, Append(vals, v))
  <1> DEFINE more == Append(vals, v)
  <1>1. /\ ToSet(more) = ToSet(vals) \cup {v} /\ more \in Seq(Int) /\ more # <<>>
        /\ Len(more) = Len(vals) + 1 /\ Last(more) = v
    BY ToSetAppend
  <1>2. CASE kind = "latest"
    <2> HIDE DEF more
    <2>1. Summary(kind, more) = v
      BY <1>1, <1>2 DEF Summary
    <2>2. HandleMessage(kind, Summary(kind, vals), v) = v
      BY <1>2 DEF HandleMessage, LatestHandles
    <2> QED
      BY <2>1, <2>2 DEF more
  <1>3. CASE kind = "percentile"
    BY <1>3 DEF HandleMessage, PercentileHandles, Summary
  <1>4. CASE kind = "mean"
    <2> HIDE DEF more
    <2>1. Summary(kind, more) = [sum |-> FoldLeft(+, 0, more), count |-> Len(vals) + 1]
      BY <1>1, <1>4 DEF Summary
    <2> DEFINE f == Summary(kind, vals)
    <2>2. HandleMessage(kind, f, v) = [sum |-> IF f.sum = Nil THEN v ELSE f.sum + v,
                                       count |-> f.count + 1]
      BY <1>4 DEF HandleMessage, MeanHandles
    <2>3. FoldLeft(+, 0, vals) \in Int /\ FoldLeft(+, 0, more) = FoldLeft(+, 0, vals) + v
      BY FoldLeftAppend DEF more
    <2>4. /\ f.sum = IF vals = <<>> THEN Nil ELSE FoldLeft(+, 0, vals)
          /\ f.count = Len(vals)
      BY <1>4 DEF Summary
    <2> HIDE DEF f
    <2>5. (IF f.sum = Nil THEN v ELSE f.sum + v) = FoldLeft(+, 0, more)
      <3>1. CASE vals = <<>>
        <4> DEFINE old == FoldLeft(+, 0, vals)
                   new == FoldLeft(+, 0, more)
        <4>1. old = 0 /\ new = old + v /\ f.sum = Nil
          BY <2>3, <2>4, <3>1, FoldLeftEmpty
        <4> HIDE DEF old, new
        <4>2. new = v
          BY <4>1
        <4> QED
          BY <4>1, <4>2 DEF new
      <3>2. CASE vals # <<>>
        BY <2>3, <2>4, <3>2, NilAssumption
      <3> QED
        BY <3>1, <3>2
    <2> QED
      BY <2>1, <2>2, <2>4, <2>5 DEF f, more
  <1>5. CASE kind = "max"
    <2> DEFINE a == Max(ToSet(vals))
               b == Max(ToSet(more))
    <2>1. b \in ToSet(more) /\ (\A w \in ToSet(more) : w <= b) /\ ToSet(more) \subseteq Int
      BY <1>1, GreatestAndLeast
    <2>2. vals # <<>> => /\ a \in ToSet(vals) /\ \A w \in ToSet(vals) : w <= a
      BY GreatestAndLeast
    <2>3. vals = <<>> => ToSet(vals) = {}
      BY DEF ToSet
    <2>4. Summary(kind, more) = b
      <3> HIDE DEF more
      <3> QED
        BY <1>1, <1>5 DEF Summary
    <2>5. Summary(kind, vals) = IF vals = <<>> THEN Nil ELSE a
      BY <1>5 DEF Summary
    <2> HIDE DEF a, b, more
    <2>6. HandleMessage(kind, Summary(kind, vals), v)
            = IF vals = <<>> \/ v > a THEN v ELSE a
      <3>1. vals # <<>> => a # Nil
        BY <1>1, <2>1, <2>2, NilAssumption
      <3> QED
        BY <1>5, <2>5, <3>1 DEF HandleMessage, MaxHandles
    <2>7. (IF vals = <<>> \/ v > a THEN v ELSE a) = b
      <3>1. CASE vals = <<>>
        BY <1>1, <2>1, <2>3, <3>1
      <3>2. CASE vals # <<>>
        <4>1. a \in Int /\ b \in Int /\ a <= b /\ v <= b
          BY <1>1, <2>1, <2>2, <3>2
        <4>2. b = v \/ b <= a
          BY <1>1, <2>1, <2>2, <3>2
        <4> QED
          BY <3>2, <4>1, <4>2
      <3> QED
        BY <3>1, <3>2
    <2> QED
      BY <2>4, <2>6, <2>7 DEF more
  <1>6. CASE kind = "min"
    <2> DEFINE a == Min(ToSet(vals))
               b == Min(ToSet(more))
    <2>1. b \in ToSet(more) /\ (\A w \in ToSet(more) : b <= w) /\ ToSet(more) \subseteq Int
      BY <1>1, GreatestAndLeast
    <2>2. vals # <<>> => /\ a \in ToSet(vals) /\ \A w \in ToSet(vals) : a <= w
      BY GreatestAndLeast
    <2>3. vals = <<>> => ToSet(vals) = {}
      BY DEF ToSet
    <2>4. Summary(kind, more) = b
      <3> HIDE DEF more
      <3> QED
        BY <1>1, <1>6 DEF Summary
    <2>5. Summary(kind, vals) = IF vals = <<>> THEN Nil ELSE a
      BY <1>6 DEF Summary
    <2> HIDE DEF a, b, more
    <2>6. HandleMessage(kind, Summary(kind, vals), v)
            = IF vals = <<>> \/ v < a THEN v ELSE a
      <3>1. vals # <<>> => a # Nil
        BY <1>1, <2>1, <2>2, NilAssumption
      <3> QED
        BY <1>6, <2>5, <3>1 DEF HandleMessage, MinHandles
    <2>7. (IF vals = <<>> \/ v < a THEN v ELSE a) = b
      <3>1. CASE vals = <<>>
        BY <1>1, <2>1, <2>3, <3>1
      <3>2. CASE vals # <<>>
        <4>1. a \in Int /\ b \in Int /\ b <= a /\ b <= v
          BY <1>1, <2>1, <2>2, <3>2
        <4>2. b = v \/ a <= b
          BY <1>1, <2>1, <2>2, <3>2
        <4> QED
          BY <3>2, <4>1, <4>2
      <3> QED
        BY <3>1, <3>2
    <2> QED
      BY <2>4, <2>6, <2>7 DEF more
  <1> QED
    BY <1>2, <1>3, <1>4, <1>5, <1>6 DEF FiveKinds

\* What EmitMetrics makes of a summary is exact.
LEMMA EmitIsExact ==
    ASSUME NEW i, list[i] \in FiveKinds, Accounted(i) \in Seq(Int)
    PROVE  Exact(i, EmitMetrics(list[i], Summary(list[i], Accounted(i))))
  <1> DEFINE vals == Accounted(i)
             f == Summary(list[i], vals)
             result == EmitMetrics(list[i], f)
  <1>1. CASE list[i] = "percentile"
    <2>1. f = vals
      BY <1>1 DEF Summary
    <2>2. result = PercentileEmits(vals)
      BY <1>1, <2>1 DEF EmitMetrics
    <2> HIDE DEF vals, f, result
    <2>3. CASE vals = <<>>
      BY <2>2, <2>3 DEF PercentileEmits, Exact, vals, f, result
    <2>4. CASE vals # <<>>
      <3>1. result = [p \in Percentiles |-> CalculatePercentile(Sorted(vals), p)]
        BY <2>2, <2>4 DEF PercentileEmits
      <3>2. \A p \in Percentiles : Splits(vals, p, result[p])
        <4> SUFFICES ASSUME NEW p \in Percentiles
                     PROVE  Splits(vals, p, result[p])
          OBVIOUS
        <4>1. p \in 0 .. percentileBase /\ result[p] = CalculatePercentile(Sorted(vals), p)
          BY <3>1, DerivedAssumption
        <4>2. Splits(vals, p, CalculatePercentile(Sorted(vals), p))
          BY <2>4, <4>1, PercentileSplits DEF vals
        <4> QED
          BY <4>1, <4>2
      <3>3. \A p, q \in Percentiles : p <= q => result[p] <= result[q]
        <4> SUFFICES ASSUME NEW p \in Percentiles, NEW q \in Percentiles, p <= q
                     PROVE  result[p] <= result[q]
          OBVIOUS
        <4>1. /\ p \in 0 .. percentileBase /\ result[p] = CalculatePercentile(Sorted(vals), p)
              /\ q \in 0 .. percentileBase /\ result[q] = CalculatePercentile(Sorted(vals), q)
          BY <3>1, DerivedAssumption
        <4>2. Len(vals) \in Nat \ {0} /\ Ascending(Sorted(vals), Len(vals))
          BY <2>4, SortedIsSorted DEF vals
        <4> QED
          BY <4>1, <4>2, PercentilesGrow
      <3> QED
        BY <1>1, <2>4, <3>2, <3>3 DEF Exact, vals, f, result
    <2> QED
      BY <2>3, <2>4
  <1>2. CASE list[i] = "mean"
    <2>1. result = MeanEmits(f)
      BY <1>2 DEF EmitMetrics
    <2> DEFINE total == FoldLeft(+, 0, vals)
    <2>2. f = [sum |-> IF vals = <<>> THEN Nil ELSE total, count |-> Len(vals)]
      BY <1>2 DEF Summary
    <2>3. total \in Int /\ (vals # <<>> => Len(vals) # 0) /\ total # Nil
      <3>1. 0 \in Int /\ vals \in Seq(Int)
        OBVIOUS
      <3> HIDE DEF vals
      <3>2. total \in Int
        BY <3>1, FoldLeftAppend
      <3>3. vals # <<>> => Len(vals) # 0
        BY <3>1, EmptySeq
      <3> HIDE DEF total
      <3> QED
        BY <3>2, <3>3, NilAssumption
    <2> HIDE DEF total, vals, f, result
    <2>4. CASE vals = <<>>
      <3>1. result = Nil
        BY <2>1, <2>2, <2>4 DEF MeanEmits
      <3> QED
        BY <2>4, <3>1 DEF Exact, vals, f, result
    <2>5. CASE vals # <<>>
      <3>1. result.count = Len(vals) /\ result.sum = total
        BY <2>1, <2>2, <2>3, <2>5 DEF MeanEmits
      <3> QED
        BY <1>2, <2>5, <3>1 DEF Exact, vals, f, result, total
    <2> QED
      BY <2>4, <2>5
  <1>3. CASE list[i] \in {"latest", "max", "min"}
    <2>1. result = f
      BY <1>3 DEF EmitMetrics
    <2> HIDE DEF vals, f, result
    <2>2. CASE vals = <<>>
      <3>1. f = Nil
        BY <1>3, <2>2 DEF Summary, f
      <3> QED
        BY <2>1, <2>2, <3>1 DEF Exact, vals, f, result
    <2>3. CASE vals # <<>>
      <3>1. CASE list[i] = "latest"
        <4>1. f = Last(vals)
          BY <2>3, <3>1 DEF Summary, f
        <4> QED
          BY <2>1, <2>3, <3>1, <4>1 DEF Exact, vals, f, result
      <3>2. /\ Max(ToSet(vals)) \in ToSet(vals)
            /\ \A v \in ToSet(vals) : v <= Max(ToSet(vals))
            /\ Min(ToSet(vals)) \in ToSet(vals)
            /\ \A v \in ToSet(vals) : Min(ToSet(vals)) <= v
            /\ ToSet(vals) \subseteq Int
        BY <2>3, GreatestAndLeast DEF vals
      <3>3. CASE list[i] = "max"
        <4>1. f = Max(ToSet(vals))
          BY <2>3, <3>3 DEF Summary, f
        <4>2. f \in ToSet(vals) /\ \A v \in ToSet(vals) : v <= f
          BY <3>2, <4>1
        <4> QED
          BY <2>1, <2>3, <3>3, <4>2 DEF Exact, vals, f, result
      <3>4. CASE list[i] = "min"
        <4>1. f = Min(ToSet(vals))
          BY <2>3, <3>4 DEF Summary, f
        <4>2. f \in ToSet(vals) /\ \A v \in ToSet(vals) : v >= f
          BY <3>2, <4>1
        <4> QED
          BY <2>1, <2>3, <3>4, <4>2 DEF Exact, vals, f, result
      <3> QED
        BY <1>3, <3>1, <3>3, <3>4
    <2> QED
      BY <2>2, <2>3
  <1> QED
    BY <1>1, <1>2, <1>3 DEF FiveKinds

-----------------------------------------------------------------------------
(* Every entry accounts for the calls that it notes, whatever races happen; *)
(* an emission reports them as long as there was none.                      *)

\* The fields e account for the calls e.ids of cs, and the message o of an
\* emission reports them.
Accounts(e, kind, cs) == Known(cs, e.ids) /\ e.fields = Summary(kind, Vals(cs, e.ids))

Reports(o, kind, cs) == /\ Known(cs, o.ids)
                        /\ o.result = EmitMetrics(kind, Summary(kind, Vals(cs, o.ids)))

SummaryInv ==
    /\ \A i \in Kinds : Accounts(derived[i], list[i], calls)
    /\ \A s \in Setters : setter[s].pc = "write" =>
          Accounts(setter[s].read, list[setter[s].at], calls)
    /\ ~raced => \A w \in Workers : Emitting(w) =>
          \A k \in 1 .. Len(worker[w].out) : Reports(worker[w].out[k], list[k], calls)
    /\ ~raced /\ emission # Nil => \A i \in Kinds : Reports(emission[i], list[i], calls)

\* A call that has its message keeps it.
Grown(cs, ds) == /\ Len(cs) \in Nat /\ Len(ds) \in Nat /\ Len(cs) <= Len(ds)
                 /\ \A n \in 1 .. Len(cs) : cs[n].msg \in Int => ds[n].msg = cs[n].msg

LEMMA ValuesKnown ==
    ASSUME NEW cs, NEW ids, Known(cs, ids)
    PROVE  /\ Vals(cs, ids) \in Seq(Int) /\ Len(Vals(cs, ids)) = Len(ids)
           /\ DOMAIN Vals(cs, ids) = DOMAIN ids
  <1>1. Len(ids) \in Nat /\ DOMAIN ids = 1 .. Len(ids)
    BY LenProperties DEF Known
  <1>2. Vals(cs, ids) \in [1 .. Len(ids) -> Int]
    BY <1>1 DEF Vals, Known
  <1>3. Vals(cs, ids) \in Seq(Int)
    BY <1>1, <1>2, SeqDef
  <1> QED
    BY <1>1, <1>2, <1>3, LenProperties

LEMMA AccountsStays ==
    ASSUME NEW cs, NEW ds, Grown(cs, ds), NEW kind
    PROVE  /\ \A e : Accounts(e, kind, cs) => Accounts(e, kind, ds)
           /\ \A o : Reports(o, kind, cs) => Reports(o, kind, ds)
  <1>1. ASSUME NEW ids, Known(cs, ids)
        PROVE  Known(ds, ids) /\ Vals(ds, ids) = Vals(cs, ids)
    <2>1. \A k \in DOMAIN ids : /\ ids[k] \in 1 .. Len(ds)
                                /\ ds[ids[k]].msg = cs[ids[k]].msg
      BY <1>1 DEF Known, Grown
    <2> QED
      BY <1>1, <2>1 DEF Known, Vals
  <1> QED
    BY <1>1 DEF Accounts, Reports

LEMMA CallsGrow ==
    ASSUME Types, Types', [Next]_vars
    PROVE  Grown(calls, calls')
  <1>1. Len(calls) \in Nat /\ Len(calls') \in Nat
    BY LenProperties DEF Types, DataTypes
  <1>2. CASE UNCHANGED calls
    BY <1>1, <1>2 DEF Grown
  <1>3. ASSUME NEW s \in Setters, NEW op \in Ops, NEW v \in Values,
               UpdateCurrentValue(s, op, v)
        PROVE  Grown(calls, calls')
    <2>1. calls' = Append(calls, [arg |-> v, msg |-> Nil])
      BY <1>3 DEF UpdateCurrentValue
    <2>2. /\ calls \in Seq([arg : Values, msg : Int \cup {Nil}])
          /\ [arg |-> v, msg |-> Nil] \in [arg : Values, msg : Int \cup {Nil}]
      BY DEF Types, DataTypes
    <2>3. Len(calls') = Len(calls) + 1 /\ \A n \in 1 .. Len(calls) : calls'[n] = calls[n]
      BY <2>1, <2>2, AppendProperties
    <2> QED
      BY <1>1, <2>3 DEF Grown
  <1>4. ASSUME NEW s \in Setters, MakeMessage(s)
        PROVE  Grown(calls, calls')
    <2>1. calls[setter[s].id].msg = Nil
      BY <1>4 DEF MakeMessage, Types, SetterTypes, CallAt
    <2>2. Len(calls') = Len(calls) /\ \A n \in Calls \ {setter[s].id} : calls'[n] = calls[n]
      BY <1>4, MessageCalls
    <2> QED
      BY <1>1, <2>1, <2>2, NilAssumption DEF Grown, Calls
  <1>5. ASSUME NEW s \in Setters, HandleReads(s) \/ HandleWrites(s) \/ Enqueue(s)
        PROVE  UNCHANGED calls
    BY <1>5 DEF HandleReads, HandleWrites, Enqueue
  <1>6. ASSUME NEW w \in Workers, WorkerAction(w)
        PROVE  UNCHANGED calls
    BY <1>6, Moving
  <1> QED
    BY <1>2, <1>3, <1>4, <1>5, <1>6 DEF Next, vars, WorkerAction

\* Once a race is noted it stays noted.
LEMMA RacedStays ==
    ASSUME [Next]_vars, ~raced'
    PROVE  ~raced
  <1>1. CASE UNCHANGED raced
    BY <1>1
  <1>2. ASSUME NEW s \in Setters, HandleReads(s)
        PROVE  ~raced
    BY <1>2, Zenon DEF HandleReads
  <1>3. ASSUME NEW w \in Workers, EmitLocks(w)
        PROVE  ~raced
    BY <1>3, Zenon DEF EmitLocks
  <1>4. CASE [Next]_vars /\ (\A s \in Setters : ~HandleReads(s))
                /\ (\A w \in Workers : ~EmitLocks(w))
    <2>1. UNCHANGED raced
      BY <1>4 DEF Next, vars, UpdateCurrentValue, MakeMessage, HandleWrites, Enqueue, Flush,
                  EmitReads, ResetDerived, EmitUnlocks
    <2> QED
      BY <1>1, <2>1
  <1> QED
    BY <1>2, <1>3, <1>4

LEMMA SummaryFrame ==
    ASSUME SummaryInv, Grown(calls, calls'), UNCHANGED <<list, emission>>, ~raced' => ~raced,
           \A i \in Kinds : derived'[i] = derived[i] \/ Accounts(derived'[i], list[i], calls),
           \A t \in Setters : setter'[t].pc = "write" =>
              \/ setter'[t] = setter[t]
              \/ Accounts(setter'[t].read, list[setter'[t].at], calls),
           ~raced' => \A w \in Workers : Emitting(w)' =>
              \/ Emitting(w) /\ worker'[w].out = worker[w].out
              \/ \A k \in 1 .. Len(worker'[w].out) :
                    Reports(worker'[w].out[k], list[k], calls)
    PROVE  SummaryInv'
  <1>1. \A kind : /\ \A e : Accounts(e, kind, calls) => Accounts(e, kind, calls')
                  /\ \A o : Reports(o, kind, calls) => Reports(o, kind, calls')
    BY AccountsStays
  <1>2. \A i \in Kinds : Accounts(derived'[i], list[i], calls')
    BY <1>1 DEF SummaryInv
  <1>3. \A s \in Setters : setter'[s].pc = "write" =>
          Accounts(setter'[s].read, list[setter'[s].at], calls')
    BY <1>1 DEF SummaryInv
  <1>4. ~raced' => \A w \in Workers : Emitting(w)' =>
          \A k \in 1 .. Len(worker'[w].out) : Reports(worker'[w].out[k], list[k], calls')
    BY <1>1 DEF SummaryInv
  <1>5. ~raced' /\ emission' # Nil => \A i \in Kinds : Reports(emission'[i], list[i], calls')
    BY <1>1 DEF SummaryInv
  <1> QED
    BY <1>2, <1>3, <1>4, <1>5 DEF SummaryInv, Kinds

\* A fresh derived metric accounts for no calls.
LEMMA FreshAccounts ==
    ASSUME NEW i, list[i] \in FiveKinds, NEW cs
    PROVE  Accounts(Fresh(i), list[i], cs)
  <1>1. <<>> \in Seq(1 .. MaxSets) /\ DOMAIN <<>> = {} /\ Len(<<>>) = 0
    BY EmptySeq
  <1>2. Known(cs, <<>>)
    BY <1>1 DEF Known
  <1>3. Vals(cs, <<>>) = <<>>
    BY DEF Vals
  <1>4. Fresh(i).ids = <<>> /\ Fresh(i).fields = Reset(list[i])
    BY DEF Fresh
  <1>5. Reset(list[i]) = Summary(list[i], <<>>)
    BY <1>1 DEF FiveKinds, Reset, Summary
  <1> QED
    BY <1>2, <1>3, <1>4, <1>5 DEF Accounts

LEMMA WriteAccounts ==
    ASSUME Types, SummaryInv, NEW s \in Setters, HandleWrites(s)
    PROVE  Accounts(Written(s), list[setter[s].at], calls)
  <1> DEFINE i   == setter[s].at
             id  == setter[s].id
             old == setter[s].read
             v   == calls[id].msg
  <1>1. setter[s].pc = "write" /\ CallAt(setter[s], calls, list)
    BY DEF HandleWrites, Types, SetterTypes
  <1>2. i \in Kinds /\ id \in Calls /\ v \in Int /\ id \in 1 .. MaxSets
    BY <1>1, CallFacts DEF CallAt, Kinds, Calls, Types
  <1>3. list[i] \in FiveKinds
    BY <1>2, ListFacts DEF Types, DataTypes
  <1>4. Known(calls, old.ids) /\ old.fields = Summary(list[i], Vals(calls, old.ids))
    BY <1>1 DEF SummaryInv, Accounts
  <1>5. /\ Written(s).ids = Append(old.ids, id)
        /\ Written(s).fields = HandleMessage(list[i], old.fields, v)
    BY DEF Written
  <1> DEFINE ids  == old.ids
             more == Append(ids, id)
             vals == Vals(calls, ids)
  <1> HIDE DEF i, id, old, v
  <1>6. /\ ids \in Seq(1 .. MaxSets) /\ Len(ids) \in Nat /\ DOMAIN ids = 1 .. Len(ids)
        /\ more \in Seq(1 .. MaxSets) /\ Len(more) = Len(ids) + 1
        /\ \A k \in 1 .. Len(ids) : more[k] = ids[k]
        /\ more[Len(ids) + 1] = id
    <2>1. ids \in Seq(1 .. MaxSets)
      BY <1>4 DEF Known
    <2> HIDE DEF ids
    <2> QED
      BY <1>2, <2>1, LenProperties, AppendProperties
  <1>7. DOMAIN more = 1 .. Len(ids) + 1
    BY <1>6, LenProperties
  <1>8. vals \in Seq(Int) /\ Len(vals) = Len(ids)
    BY <1>4, ValuesKnown
  <1> HIDE DEF ids, more
  <1>9. Known(calls, more)
    <2>1. \A k \in 1 .. Len(ids) : ids[k] \in 1 .. Len(calls) /\ calls[ids[k]].msg \in Int
      BY <1>4, <1>6 DEF Known, ids
    <2>2. id \in 1 .. Len(calls) /\ calls[id].msg \in Int
      BY <1>2 DEF Calls, v
    <2>3. \A k \in 1 .. Len(ids) + 1 : k \in 1 .. Len(ids) \/ k = Len(ids) + 1
      BY <1>6
    <2>4. \A k \in 1 .. Len(ids) + 1 :
             more[k] \in 1 .. Len(calls) /\ calls[more[k]].msg \in Int
      BY <1>6, <2>1, <2>2, <2>3
    <2> QED
      BY <1>6, <1>7, <2>4 DEF Known
  <1>10. Vals(calls, more) = Append(vals, v)
    <2>1. /\ Append(vals, v) \in Seq(Int) /\ Len(Append(vals, v)) = Len(ids) + 1
          /\ \A k \in 1 .. Len(ids) : Append(vals, v)[k] = vals[k]
          /\ Append(vals, v)[Len(ids) + 1] = v
      BY <1>2, <1>8, AppendProperties
    <2>2. Append(vals, v) = [k \in 1 .. Len(ids) + 1 |-> Append(vals, v)[k]]
      <3> DEFINE t == Append(vals, v)
      <3> HIDE DEF t
      <3>1. t \in [1 .. Len(t) -> Int] /\ Len(t) = Len(ids) + 1
        BY <2>1, LenProperties DEF t
      <3>2. t = [k \in 1 .. Len(ids) + 1 |-> t[k]]
        BY <3>1
      <3> QED
        BY <3>2 DEF t
    <2>3. ASSUME NEW k \in 1 .. Len(ids) + 1
          PROVE  calls[more[k]].msg = Append(vals, v)[k]
      <3>1. CASE k \in 1 .. Len(ids)
        <4>1. vals[k] = calls[ids[k]].msg
          BY <1>6, <3>1 DEF Vals
        <4>2. Append(vals, v)[k] = vals[k] /\ more[k] = ids[k]
          BY <1>6, <2>1, <3>1
        <4> QED
          BY <4>1, <4>2, Zenon
      <3>2. CASE k = Len(ids) + 1
        <4>1. Append(vals, v)[k] = v /\ more[k] = id
          BY <1>6, <2>1, <3>2
        <4> QED
          BY <4>1 DEF v
      <3>3. k \in 1 .. Len(ids) \/ k = Len(ids) + 1
        BY <1>6
      <3> QED
        BY <3>1, <3>2, <3>3, Zenon
    <2>4. Vals(calls, more) = [k \in 1 .. Len(ids) + 1 |-> calls[more[k]].msg]
      BY <1>7 DEF Vals
    <2> DEFINE t == Append(vals, v)
    <2> HIDE DEF t
    <2>5. t = [k \in 1 .. Len(ids) + 1 |-> t[k]]
            /\ \A k \in 1 .. Len(ids) + 1 : calls[more[k]].msg = t[k]
      BY <2>2, <2>3 DEF t
    <2>6. Vals(calls, more) = t
      BY <2>4, <2>5
    <2> QED
      BY <2>6 DEF t
  <1>11. HandleMessage(list[i], old.fields, v) = Summary(list[i], Append(vals, v))
    <2>1. HandleMessage(list[i], Summary(list[i], vals), v) = Summary(list[i], Append(vals, v))
      <3> HIDE DEF vals
      <3> QED
        BY <1>2, <1>3, <1>8, HandleMessageSummarizes
    <2>2. old.fields = Summary(list[i], vals)
      BY <1>4 DEF ids
    <2> QED
      BY <2>1, <2>2
  <1>12. Written(s).ids = more
    BY <1>5 DEF more, ids
  <1>13. Written(s).fields = Summary(list[i], Vals(calls, more))
    BY <1>5, <1>10, <1>11
  <1> QED
    BY <1>9, <1>12, <1>13 DEF Accounts, i

LEMMA SummaryStep ==
    ASSUME Types, Types', SummaryInv, [Next]_vars
    PROVE  SummaryInv'
  <1> USE DEF Types
  <1>0. Grown(calls, calls') /\ (~raced' => ~raced)
    BY CallsGrow, RacedStays
  <1>1. CASE UNCHANGED vars
    <2>1. UNCHANGED <<list, emission, derived, setter, worker>>
      BY <1>1 DEF vars
    <2>2. \A w \in Workers : Emitting(w)' => Emitting(w)
      BY <2>1 DEF Emitting
    <2> QED
      BY <1>0, <2>1, <2>2, SummaryFrame
  <1>2. ASSUME NEW s \in Setters,
               \/ \E op \in Ops, v \in Values : UpdateCurrentValue(s, op, v)
               \/ MakeMessage(s)
               \/ Enqueue(s)
        PROVE  SummaryInv'
    <2>1. \A t \in Setters : setter'[t].pc = "write" => setter'[t] = setter[t]
      BY <1>2, SetterMoves, Moving DEF SetterAction
    <2>2. UNCHANGED <<list, derived, worker, emission>>
      BY <1>2 DEF UpdateCurrentValue, MakeMessage, Enqueue
    <2>3. \A w \in Workers : Emitting(w)' => Emitting(w)
      BY <2>2 DEF Emitting
    <2> QED
      BY <1>0, <2>1, <2>2, <2>3, SummaryFrame
  <1>3. ASSUME NEW s \in Setters, HandleReads(s)
        PROVE  SummaryInv'
    <2> DEFINE i == setter[s].at
    <2>1. i \in Kinds /\ UNCHANGED <<list, derived, worker, emission>>
      BY <1>3 DEF HandleReads
    <2>2. \A t \in Setters \ {s} : setter'[t] = setter[t]
      BY <1>3, Moving DEF SetterAction
    <2>3. setter'[s].at = i /\ setter'[s].read = derived[i]
      BY <1>3, ReadFacts DEF SetterTypes
    <2>4. Accounts(setter'[s].read, list[setter'[s].at], calls)
      BY <2>1, <2>3 DEF SummaryInv
    <2>5. \A w \in Workers : Emitting(w)' => Emitting(w)
      BY <2>1 DEF Emitting
    <2> QED
      BY <1>0, <2>1, <2>2, <2>4, <2>5, SummaryFrame
  <1>4. ASSUME NEW s \in Setters, HandleWrites(s)
        PROVE  SummaryInv'
    <2> DEFINE i == setter[s].at
    <2>1. UNCHANGED <<list, worker, emission>>
      BY <1>4 DEF HandleWrites
    <2>2. \A t \in Setters : setter'[t].pc = "write" => setter'[t] = setter[t]
      BY <1>4, SetterMoves, Moving DEF SetterAction
    <2>3. i \in Kinds /\ derived' = [derived EXCEPT ![i] = Written(s)]
      BY <1>4, WriteFacts
    <2>4. Accounts(Written(s), list[i], calls)
      BY <1>4, WriteAccounts
    <2> HIDE DEF i
    <2>5. \A k \in Kinds : derived'[k] = derived[k] \/ Accounts(derived'[k], list[k], calls)
      BY <2>3, <2>4 DEF DerivedTypes
    <2>6. \A w \in Workers : Emitting(w)' => Emitting(w)
      BY <2>1 DEF Emitting
    <2> QED
      BY <1>0, <2>1, <2>2, <2>5, <2>6, SummaryFrame
  <1>5. ASSUME NEW w \in Workers, Flush(w) \/ EmitUnlocks(w)
        PROVE  \A v \in Workers : Emitting(v)' => Emitting(v) /\ worker'[v] = worker[v]
    <2>1. \A v \in Workers \ {w} : worker'[v] = worker[v]
      BY <1>5, Moving DEF WorkerAction
    <2>2. worker'[w].pc \in {"idle", "lock"}
      <3>1. worker = [v \in Workers |-> worker[v]] /\ IsJob(worker[w])
        BY DEF WorkerTypes, WorkAt, IsJob
      <3>2. CASE Flush(w)
        <4>1. worker'[w] = [worker[w] EXCEPT !.pc = "lock"]
          BY <3>1, <3>2 DEF Flush
        <4> QED
          BY <3>1, <4>1 DEF IsJob
      <3>3. CASE EmitUnlocks(w)
        BY <3>1, <3>3 DEF EmitUnlocks, NoWork
      <3> QED
        BY <1>5, <3>2, <3>3
    <2> QED
      BY <2>1, <2>2 DEF Emitting
  <1>6. ASSUME NEW w \in Workers, Flush(w)
        PROVE  SummaryInv'
    <2>1. UNCHANGED <<list, setter, derived, emission>>
      BY <1>6 DEF Flush
    <2> QED
      BY <1>0, <1>5, <1>6, <2>1, SummaryFrame
  <1>7. ASSUME NEW w \in Workers, EmitLocks(w)
        PROVE  SummaryInv'
    <2>1. UNCHANGED <<list, setter, derived, emission>>
      BY <1>7 DEF EmitLocks
    <2>2. \A v \in Workers \ {w} : worker'[v] = worker[v]
      BY <1>7, Moving DEF WorkerAction
    <2>3. worker'[w].out = <<>>
      BY <1>7 DEF EmitLocks, WorkerTypes
    <2>4. 1 .. Len(<<>>) = {}
      BY EmptySeq
    <2>5. \A v \in Workers : Emitting(v)' =>
              \/ Emitting(v) /\ worker'[v].out = worker[v].out
              \/ \A k \in 1 .. Len(worker'[v].out) :
                    Reports(worker'[v].out[k], list[k], calls)
      BY <2>2, <2>3, <2>4 DEF Emitting
    <2> QED
      BY <1>0, <2>1, <2>5, SummaryFrame
  <1>8. ASSUME NEW w \in Workers, EmitReads(w)
        PROVE  SummaryInv'
    <2>0. PICK copy : EmitsCopy(w, copy)
      BY <1>8, SomeCopy
    <2> DEFINE i == worker[w].at
               out == worker[w].out
               more == Append(out, Emitted(i, copy))
    <2>1. UNCHANGED <<list, setter, derived, emission>> /\ worker[w].pc = "emit"
      BY <1>8 DEF EmitReads
    <2>2. \A v \in Workers \ {w} : worker'[v] = worker[v]
      BY <1>8, Moving DEF WorkerAction
    <2>3. i \in Kinds /\ Len(out) = i - 1 /\ worker'[w].out = more
      BY <2>0, EmitFacts DEF WorkerTypes
    <2>4. /\ Len(out) \in Nat /\ Len(more) = Len(out) + 1
          /\ \A k \in 1 .. Len(out) : more[k] = out[k]
          /\ more[Len(out) + 1] = Emitted(i, copy)
      <3>1. WorkAt(worker[w], list)
        BY DEF WorkerTypes
      <3>2. Len(out) \in Nat /\ out = [k \in 1 .. Len(out) |-> out[k]]
        BY <3>1 DEF WorkAt
      <3> HIDE DEF out
      <3> QED
        BY <3>2, AppendTo
    <2>5. ~raced => Reports(Emitted(i, copy), list[i], calls)
      <3> SUFFICES ASSUME ~raced PROVE Reports(Emitted(i, copy), list[i], calls)
        OBVIOUS
      <3>1. Accounts(derived[i], list[i], calls)
        BY <2>3 DEF SummaryInv
      <3>2. /\ Emitted(i, copy).ids = derived[i].ids
            /\ Emitted(i, copy).result = EmitMetrics(list[i], derived[i].fields)
        BY <2>0 DEF Emitted, EmitsCopy, Copies
      <3> QED
        BY <3>1, <3>2 DEF Accounts, Reports
    <2>6. ~raced => \A k \in 1 .. Len(out) : Reports(out[k], list[k], calls)
      BY <2>1 DEF SummaryInv, Emitting
    <2> HIDE DEF out, more
    <2>7. ~raced => \A k \in 1 .. Len(more) : Reports(more[k], list[k], calls)
      <3> SUFFICES ASSUME ~raced, NEW k \in 1 .. Len(more)
                   PROVE  Reports(more[k], list[k], calls)
        OBVIOUS
      <3>1. k \in 1 .. Len(out) \/ k = Len(out) + 1
        BY <2>4
      <3>2. CASE k \in 1 .. Len(out)
        <4>1. more[k] = out[k] /\ Reports(out[k], list[k], calls)
          BY <2>4, <2>6, <3>2
        <4> QED
          BY <4>1
      <3>3. CASE k = Len(out) + 1
        <4>1. k = i
          BY <2>3, <2>4, <3>3 DEF Kinds
        <4>2. more[k] = Emitted(i, copy)
          BY <2>4, <3>3
        <4> QED
          BY <2>5, <4>1, <4>2
      <3> QED
        BY <3>1, <3>2, <3>3
    <2>8. ~raced => \A v \in Workers : Emitting(v)' =>
              \/ Emitting(v) /\ worker'[v].out = worker[v].out
              \/ \A k \in 1 .. Len(worker'[v].out) :
                    Reports(worker'[v].out[k], list[k], calls)
      <3> SUFFICES ASSUME ~raced, NEW v \in Workers, Emitting(v)'
                   PROVE  \/ Emitting(v) /\ worker'[v].out = worker[v].out
                          \/ \A k \in 1 .. Len(worker'[v].out) :
                                Reports(worker'[v].out[k], list[k], calls)
        OBVIOUS
      <3>1. CASE v = w
        BY <2>3, <2>7, <3>1
      <3>2. CASE v # w
        BY <2>2, <3>2 DEF Emitting
      <3> QED
        BY <3>1, <3>2
    <2> QED
      BY <1>0, <2>1, <2>8, SummaryFrame
  <1>9. ASSUME NEW w \in Workers, ResetDerived(w)
        PROVE  SummaryInv'
    <2> DEFINE i == worker[w].at
    <2>1. UNCHANGED <<list, setter, emission>> /\ worker[w].pc = "reset"
      BY <1>9 DEF ResetDerived
    <2>2. \A v \in Workers \ {w} : worker'[v] = worker[v]
      BY <1>9, Moving DEF WorkerAction
    <2>3. /\ i \in Kinds /\ derived' = [derived EXCEPT ![i] = Fresh(i)]
          /\ worker'[w].out = worker[w].out
      BY <1>9, ResetFacts DEF WorkerTypes
    <2>4. Accounts(Fresh(i), list[i], calls)
      BY <2>3, ListFacts, FreshAccounts DEF DataTypes
    <2>5. \A v \in Workers : Emitting(v)' => Emitting(v) /\ worker'[v].out = worker[v].out
      BY <2>1, <2>2, <2>3 DEF Emitting
    <2> HIDE DEF i
    <2>6. \A k \in Kinds : derived'[k] = derived[k] \/ Accounts(derived'[k], list[k], calls)
      BY <2>3, <2>4 DEF DerivedTypes
    <2> QED
      BY <1>0, <2>1, <2>5, <2>6, SummaryFrame
  <1>10. ASSUME NEW w \in Workers, EmitUnlocks(w)
         PROVE  SummaryInv'
    <2>1. UNCHANGED <<list, calls, setter, derived>> /\ emission' = worker[w].out
            /\ worker[w].pc = "emit" /\ worker[w].at > Len(list)
      BY <1>10 DEF EmitUnlocks
    <2>2. \A v \in Workers : Emitting(v)' => Emitting(v) /\ worker'[v] = worker[v]
      BY <1>5, <1>10
    <2>3. \A i \in Kinds : i \in 1 .. Len(worker[w].out)
      <3>1. Len(worker[w].out) = worker[w].at - 1 /\ worker[w].at \in 0 .. Len(list) + 1
        BY <2>1 DEF WorkerTypes, WorkAt
      <3>2. Len(list) \in Nat
        BY ListFacts DEF DataTypes
      <3> QED
        BY <2>1, <3>1, <3>2 DEF Kinds
    <2>4. ~raced => \A i \in Kinds : Reports(worker[w].out[i], list[i], calls)
      BY <2>1, <2>3 DEF SummaryInv, Emitting
    <2> QED
      BY <1>0, <2>1, <2>2, <2>4 DEF SummaryInv, Kinds
  <1> QED
    BY <1>1, <1>2, <1>3, <1>4, <1>6, <1>7, <1>8, <1>9, <1>10 DEF Next

-----------------------------------------------------------------------------
(* Without a race the derived metrics of an emission account for the same   *)
(* calls.                                                                   *)

\* How often call n was counted for derived metric i before the emission of w,
\* and how often this emission counts it.
Before(w, i, n) ==
    counted[i][n] - (IF i < worker[w].at THEN Times(worker[w].out[i].ids, n) ELSE 0)
Load(w, i, n) ==
    Times(IF i <= Len(worker[w].out) THEN worker[w].out[i].ids ELSE derived[i].ids, n)

AgreeInv ==
    ~raced => \A i, j \in Kinds, n \in 1 .. MaxSets :
        /\ (\A w \in Workers : ~Emitting(w)) => counted[i][n] = counted[j][n]
        /\ \A w \in Workers : Emitting(w) =>
              Before(w, i, n) = Before(w, j, n) /\ Load(w, i, n) = Load(w, j, n)
        /\ emission # Nil => Times(emission[i].ids, n) = Times(emission[j].ids, n)

LEMMA AgreeFrame ==
    ASSUME AgreeInv, ~raced, UNCHANGED <<list, counted, emission>>,
           \A w \in Workers : /\ Emitting(w)' <=> Emitting(w)
                              /\ Emitting(w) => UNCHANGED <<worker[w], derived>>
    PROVE  AgreeInv'
  <1>1. Kinds' = Kinds
    BY DEF Kinds
  <1>2. ASSUME NEW w \in Workers, Emitting(w), NEW i, NEW n
        PROVE  Before(w, i, n)' = Before(w, i, n) /\ Load(w, i, n)' = Load(w, i, n)
    BY <1>2 DEF Before, Load
  <1> QED
    BY <1>1, <1>2 DEF AgreeInv

\* AgreeInv after a step that leaves the list alone, part by part.
LEMMA AgreeNext ==
    ASSUME UNCHANGED list,
           \A i, j \in Kinds, n \in 1 .. MaxSets :
              /\ (\A w \in Workers : ~Emitting(w)') => counted'[i][n] = counted'[j][n]
              /\ \A w \in Workers : Emitting(w)' =>
                    Before(w, i, n)' = Before(w, j, n)' /\ Load(w, i, n)' = Load(w, j, n)'
              /\ emission' # Nil => Times(emission'[i].ids, n) = Times(emission'[j].ids, n)
    PROVE  AgreeInv'
  <1>1. Kinds' = Kinds
    BY DEF Kinds
  <1> QED
    BY <1>1 DEF AgreeInv

\* No call is between two derived metrics: each has gone to all or to none.
LEMMA ReachedAll ==
    ASSUME Types, \A s \in Setters : ~HalfHandled(s),
           NEW i \in Kinds, NEW j \in Kinds, NEW n \in 1 .. MaxSets, Reached(i, n)
    PROVE  Reached(j, n)
  <1>1. n \in Calls /\ calls[n].msg # Nil /\ \A s \in Setters : setter[s].id = n => setter[s].at > i
    BY DEF Reached, Handled
  <1>2. ASSUME NEW s \in Setters, setter[s].id = n
        PROVE  setter[s].at > j
    <2>1. CallAt(setter[s], calls, list) /\ Len(list) \in Nat /\ n # 0
      BY ListFacts DEF Types, DataTypes, SetterTypes
    <2>2. setter[s].pc \in {"read", "write"} /\ setter[s].at \in 1 .. Len(list) + 1
      BY <1>1, <1>2, <2>1 DEF CallAt
    <2>3. setter[s].at > i
      BY <1>1, <1>2
    <2>4. setter[s].at \notin Kinds
      BY <2>2, <2>3 DEF HalfHandled, Kinds
    <2> QED
      BY <2>1, <2>2, <2>4 DEF Kinds
  <1> QED
    BY <1>1, <1>2 DEF Reached, Handled

\* The numbers that AgreeInv speaks of.
LEMMA AgreeTypes ==
    ASSUME Types, NEW i \in Kinds, NEW n \in 1 .. MaxSets
    PROVE  /\ counted[i][n] \in Nat /\ Times(derived[i].ids, n) \in Nat
           /\ \A w \in Workers : i \in 1 .. Len(worker[w].out) =>
                 Times(worker[w].out[i].ids, n) \in Nat
  <1>1. counted[i][n] \in Nat /\ derived[i].ids \in Seq(1 .. MaxSets)
    BY DEF Types, DerivedTypes, Entry
  <1>2. ASSUME NEW w \in Workers, i \in 1 .. Len(worker[w].out)
        PROVE  worker[w].out[i].ids \in Seq(1 .. MaxSets)
    BY <1>2 DEF Types, WorkerTypes, WorkAt
  <1> QED
    BY <1>1, <1>2, TimesType

LEMMA AgreeSetters ==
    ASSUME Types, RaceInv, AgreeInv, ~raced, NEW s \in Setters, SetterAction(s)
    PROVE  AgreeInv'
  <1>1. UNCHANGED <<list, worker, counted>>
    BY Moving
  <1>2. UNCHANGED emission
    BY DEF SetterAction, UpdateCurrentValue, MakeMessage, HandleReads, HandleWrites, Enqueue
  <1>3. UNCHANGED derived \/ HandleWrites(s)
    BY DEF SetterAction, UpdateCurrentValue, MakeMessage, HandleReads, Enqueue
  <1>4. HandleWrites(s) => \A w \in Workers : ~Emitting(w)
    BY DEF HandleWrites, RaceInv
  <1>5. \A w \in Workers : Emitting(w)' <=> Emitting(w)
    BY <1>1 DEF Emitting
  <1> QED
    BY <1>1, <1>2, <1>3, <1>4, <1>5, AgreeFrame

\* When an emission begins, what the derived metrics hold is the same.
LEMMA AgreeLocks ==
    ASSUME Types, CountInv, AgreeInv, ~raced', NEW w \in Workers, EmitLocks(w)
    PROVE  AgreeInv'
  <1>1. /\ ~raced /\ \A s \in Setters : ~HalfHandled(s)
        /\ mtx = Nobody /\ UNCHANGED <<list, derived, counted, emission>>
    BY Zenon DEF EmitLocks
  <1>2. \A v \in Workers : ~Emitting(v)
    BY <1>1, DerivedAssumption DEF Types, WorkerTypes
  <1>3. /\ worker'[w] = [pc |-> "emit", at |-> 1, out |-> <<>>]
        /\ \A v \in Workers \ {w} : worker'[v] = worker[v]
    BY Moving DEF EmitLocks, WorkerAction, Types, WorkerTypes
  <1>4. \A v \in Workers : Emitting(v)' <=> v = w
    BY <1>2, <1>3 DEF Emitting
  <1>5. Kinds' = Kinds
    BY <1>1 DEF Kinds
  <1>6. ASSUME NEW i \in Kinds, NEW n \in 1 .. MaxSets
        PROVE  /\ Before(w, i, n)' = counted[i][n]
               /\ Load(w, i, n)' = Times(derived[i].ids, n)
    <2>1. worker'[w].at = 1 /\ worker'[w].out = <<>> /\ Len(<<>>) = 0
      BY <1>3, EmptySeq
    <2>2. ~(i < 1) /\ ~(i <= 0) /\ counted[i][n] \in Nat
      BY AgreeTypes DEF Kinds
    <2> QED
      BY <1>1, <2>1, <2>2 DEF Before, Load
  <1>7. ASSUME NEW i \in Kinds, NEW j \in Kinds, NEW n \in 1 .. MaxSets
        PROVE  /\ counted[i][n] = counted[j][n]
               /\ Times(derived[i].ids, n) = Times(derived[j].ids, n)
               /\ emission # Nil => Times(emission[i].ids, n) = Times(emission[j].ids, n)
    <2>1. /\ counted[i][n] = counted[j][n]
          /\ emission # Nil => Times(emission[i].ids, n) = Times(emission[j].ids, n)
      BY <1>1, <1>2 DEF AgreeInv
    <2>2. Reached(i, n) <=> Reached(j, n)
      BY <1>1, ReachedAll
    <2>3. /\ counted[i][n] + Times(derived[i].ids, n) = IF Reached(i, n) THEN 1 ELSE 0
          /\ counted[j][n] + Times(derived[j].ids, n) = IF Reached(j, n) THEN 1 ELSE 0
      BY <1>1, CountParts
    <2>4. /\ counted[i][n] \in Nat /\ Times(derived[i].ids, n) \in Nat
          /\ Times(derived[j].ids, n) \in Nat
      BY AgreeTypes
    <2> QED
      BY <2>1, <2>2, <2>3, <2>4
  <1>8. ASSUME NEW i \in Kinds, NEW j \in Kinds, NEW n \in 1 .. MaxSets
        PROVE  /\ Before(w, i, n)' = Before(w, j, n)' /\ Load(w, i, n)' = Load(w, j, n)'
               /\ counted'[i][n] = counted'[j][n]
               /\ emission' # Nil => Times(emission'[i].ids, n) = Times(emission'[j].ids, n)
    <2>1. Before(w, i, n)' = counted[i][n] /\ Before(w, j, n)' = counted[j][n]
      BY <1>6
    <2>2. /\ Load(w, i, n)' = Times(derived[i].ids, n)
          /\ Load(w, j, n)' = Times(derived[j].ids, n)
      BY <1>6
    <2>3. /\ counted[i][n] = counted[j][n]
          /\ Times(derived[i].ids, n) = Times(derived[j].ids, n)
          /\ emission # Nil => Times(emission[i].ids, n) = Times(emission[j].ids, n)
      BY <1>7
    <2> QED
      BY <1>1, <2>1, <2>2, <2>3
  <1> QED
    BY <1>1, <1>4, <1>8, AgreeNext

\* An emission goes on: it reads a derived metric, or resets it.
LEMMA AgreeWork ==
    ASSUME AgreeInv, ~raced, NEW w \in Workers, UNCHANGED <<list, emission>>,
           Emitting(w), Emitting(w)',
           \A v \in Workers \ {w} : ~Emitting(v)',
           \A i \in Kinds, n \in 1 .. MaxSets :
              Before(w, i, n)' = Before(w, i, n) /\ Load(w, i, n)' = Load(w, i, n)
    PROVE  AgreeInv'
  <1> SUFFICES ASSUME NEW i \in Kinds, NEW j \in Kinds, NEW n \in 1 .. MaxSets
               PROVE  /\ Before(w, i, n)' = Before(w, j, n)' /\ Load(w, i, n)' = Load(w, j, n)'
                      /\ emission' # Nil =>
                            Times(emission'[i].ids, n) = Times(emission'[j].ids, n)
    BY AgreeNext
  <1>1. /\ Before(w, i, n)' = Before(w, i, n) /\ Load(w, i, n)' = Load(w, i, n)
        /\ Before(w, j, n)' = Before(w, j, n) /\ Load(w, j, n)' = Load(w, j, n)
    OBVIOUS
  <1>2. /\ Before(w, i, n) = Before(w, j, n) /\ Load(w, i, n) = Load(w, j, n)
        /\ emission # Nil => Times(emission[i].ids, n) = Times(emission[j].ids, n)
    BY DEF AgreeInv
  <1> QED
    BY <1>1, <1>2

LEMMA AgreeReads ==
    ASSUME Types, AgreeInv, ~raced, NEW w \in Workers, EmitReads(w)
    PROVE  AgreeInv'
  <1>0. PICK copy : EmitsCopy(w, copy)
    BY SomeCopy
  <1> DEFINE i == worker[w].at
             out == worker[w].out
             more == Append(out, Emitted(i, copy))
  <1>1. /\ worker[w].pc = "emit" /\ UNCHANGED <<list, derived, counted, emission>>
        /\ \A v \in Workers : Emitting(v) <=> mtx = v
    BY DEF EmitReads, Types, WorkerTypes
  <1>2. /\ i \in Kinds /\ Len(out) = i - 1
        /\ worker'[w].pc = "reset" /\ worker'[w].at = i /\ worker'[w].out = more
    BY <1>0, EmitFacts DEF Types, WorkerTypes
  <1>3. /\ Len(out) \in Nat /\ Len(more) = Len(out) + 1
        /\ \A k \in 1 .. Len(out) : more[k] = out[k]
        /\ more[Len(out) + 1] = Emitted(i, copy)
    <2>1. WorkAt(worker[w], list)
      BY DEF Types, WorkerTypes
    <2>2. Len(out) \in Nat /\ out = [k \in 1 .. Len(out) |-> out[k]]
      BY <2>1 DEF WorkAt
    <2> HIDE DEF out
    <2> QED
      BY <2>2, AppendTo
  <1>4. Emitting(w) /\ Emitting(w)' /\ \A v \in Workers \ {w} : ~Emitting(v)'
    <2>1. \A v \in Workers \ {w} : worker'[v] = worker[v] /\ ~Emitting(v)
      BY <1>1, Moving DEF WorkerAction, Emitting
    <2> QED
      BY <1>1, <1>2, <2>1 DEF Emitting
  <1>5. Emitted(i, copy).ids = derived[i].ids
    BY DEF Emitted
  <1> HIDE DEF out, more
  <1>6. ASSUME NEW k \in Kinds, NEW n \in 1 .. MaxSets
        PROVE  Before(w, k, n)' = Before(w, k, n) /\ Load(w, k, n)' = Load(w, k, n)
    <2>0. i \in Int /\ k \in Int /\ 1 <= k
      BY <1>2 DEF Kinds
    <2>1. CASE k < i
      <3>1. k \in 1 .. Len(out) /\ k <= Len(more) /\ more[k] = out[k]
        BY <1>2, <1>3, <2>0, <2>1
      <3>2. k <= Len(out)
        BY <3>1
      <3> QED
        BY <1>1, <1>2, <2>1, <3>1, <3>2 DEF Before, Load, out, more
    <2>2. CASE k = i
      <3>1. ~(k <= Len(out)) /\ k <= Len(more) /\ more[k] = Emitted(i, copy) /\ ~(k < i)
        BY <1>2, <1>3, <2>0, <2>2
      <3> QED
        BY <1>1, <1>2, <1>5, <2>2, <3>1 DEF Before, Load, out
    <2>3. CASE k > i
      <3>1. ~(k <= Len(out)) /\ ~(k <= Len(more)) /\ ~(k < i)
        BY <1>2, <1>3, <2>0, <2>3
      <3> QED
        BY <1>1, <1>2, <3>1 DEF Before, Load, out
    <2> QED
      BY <2>0, <2>1, <2>2, <2>3
  <1> QED
    BY <1>1, <1>4, <1>6, AgreeWork

LEMMA AgreeResets ==
    ASSUME Types, AgreeInv, ~raced, NEW w \in Workers, ResetDerived(w)
    PROVE  AgreeInv'
  <1> DEFINE i   == worker[w].at
             out == worker[w].out
             ids == worker[w].out[i].ids
  <1>1. /\ worker[w].pc = "reset" /\ UNCHANGED <<list, emission>>
        /\ \A v \in Workers : Emitting(v) <=> mtx = v
        /\ Len(out) = i
    BY DEF ResetDerived, Types, WorkerTypes, WorkAt
  <1>2. /\ i \in Kinds /\ ids \in Seq(1 .. MaxSets)
        /\ derived' = [derived EXCEPT ![i] = Fresh(i)]
        /\ counted' = [counted EXCEPT ![i] = CountedAfter(i, ids)]
        /\ worker'[w].pc = "emit" /\ worker'[w].at = i + 1 /\ worker'[w].out = out
    BY ResetFacts DEF Types, WorkerTypes
  <1>3. Emitting(w) /\ Emitting(w)' /\ \A v \in Workers \ {w} : ~Emitting(v)'
    <2>1. \A v \in Workers \ {w} : worker'[v] = worker[v] /\ ~Emitting(v)
      BY <1>1, Moving DEF WorkerAction, Emitting
    <2> QED
      BY <1>1, <1>2, <2>1 DEF Emitting
  <1>4. /\ \A k \in Kinds \ {i} : derived'[k] = derived[k] /\ counted'[k] = counted[k]
        /\ counted'[i] = CountedAfter(i, ids)
    <2> HIDE DEF i, ids
    <2> QED
      BY <1>2 DEF Types, DerivedTypes
  <1>5. ASSUME NEW k \in Kinds, NEW n \in 1 .. MaxSets
        PROVE  Before(w, k, n)' = Before(w, k, n) /\ Load(w, k, n)' = Load(w, k, n)
    <2>0. i \in Int /\ k \in Int /\ i \in Kinds
      BY <1>2 DEF Kinds
    <2>1. CASE k = i
      <3>1. counted'[i][n] = counted[i][n] + Times(ids, n)
        BY <1>4 DEF CountedAfter
      <3>2. counted[i][n] \in Nat /\ Times(ids, n) \in Nat
        BY <1>2, AgreeTypes, TimesType
      <3>3. k < i + 1 /\ ~(k < i) /\ k <= Len(out)
        BY <1>1, <2>0, <2>1
      <3>4. Before(w, k, n)' = counted'[i][n] - Times(ids, n)
        BY <1>2, <2>1, <3>3 DEF Before
      <3>5. Before(w, k, n) = counted[i][n] - 0
        BY <2>1, <3>3 DEF Before
      <3>6. Load(w, k, n)' = Load(w, k, n)
        BY <1>2, <3>3 DEF Load
      <3> HIDE DEF ids, i
      <3> QED
        BY <3>1, <3>2, <3>4, <3>5, <3>6
    <2>2. CASE k # i
      <3>1. derived'[k] = derived[k] /\ counted'[k] = counted[k]
        BY <1>4, <2>2
      <3>2. k < i + 1 <=> k < i
        BY <2>0, <2>2
      <3> QED
        BY <1>2, <3>1, <3>2 DEF Before, Load
    <2> QED
      BY <2>1, <2>2
  <1> QED
    BY <1>1, <1>3, <1>5, AgreeWork

LEMMA AgreeUnlocks ==
    ASSUME Types, AgreeInv, ~raced, NEW w \in Workers, EmitUnlocks(w)
    PROVE  AgreeInv'
  <1> DEFINE out == worker[w].out
  <1>1. /\ worker[w].pc = "emit" /\ worker[w].at > Len(list)
        /\ UNCHANGED <<list, derived, counted>> /\ emission' = out
        /\ worker'[w] = NoWork
        /\ \A v \in Workers : Emitting(v) <=> mtx = v
    BY DEF EmitUnlocks, Types, WorkerTypes
  <1>2. \A v \in Workers : ~Emitting(v)'
    <2>1. \A v \in Workers \ {w} : worker'[v] = worker[v] /\ ~Emitting(v)
      BY <1>1, Moving DEF WorkerAction, Emitting
    <2> QED
      BY <1>1, <2>1 DEF Emitting, NoWork
  <1>3. \A i \in Kinds : i \in 1 .. Len(out) /\ i < worker[w].at
    <2>1. Len(out) = worker[w].at - 1 /\ worker[w].at \in 0 .. Len(list) + 1
      BY <1>1 DEF Types, WorkerTypes, WorkAt
    <2>2. Len(list) \in Nat
      BY ListFacts DEF Types, DataTypes
    <2> QED
      BY <1>1, <2>1, <2>2 DEF Kinds
  <1>4. ASSUME NEW i \in Kinds, NEW n \in 1 .. MaxSets
        PROVE  /\ Before(w, i, n) = counted[i][n] - Times(out[i].ids, n)
               /\ Load(w, i, n) = Times(out[i].ids, n)
               /\ counted[i][n] \in Nat /\ Times(out[i].ids, n) \in Nat
    <2>1. i \in 1 .. Len(out) /\ i <= Len(out) /\ i < worker[w].at
      BY <1>3
    <2>2. counted[i][n] \in Nat /\ Times(out[i].ids, n) \in Nat
      BY <2>1, AgreeTypes
    <2> QED
      BY <2>1, <2>2 DEF Before, Load
  <1>5. ASSUME NEW i \in Kinds, NEW j \in Kinds, NEW n \in 1 .. MaxSets
        PROVE  /\ counted[i][n] = counted[j][n]
               /\ Times(out[i].ids, n) = Times(out[j].ids, n)
    <2>1. Before(w, i, n) = Before(w, j, n) /\ Load(w, i, n) = Load(w, j, n)
      BY <1>1 DEF AgreeInv, Emitting
    <2> HIDE DEF out
    <2> QED
      BY <1>4, <2>1
  <1>6. ASSUME NEW i \in Kinds, NEW j \in Kinds, NEW n \in 1 .. MaxSets
        PROVE  /\ counted'[i][n] = counted'[j][n]
               /\ Times(emission'[i].ids, n) = Times(emission'[j].ids, n)
    BY <1>1, <1>5, Zenon
  <1> QED
    BY <1>1, <1>2, <1>6, AgreeNext

LEMMA AgreeStep ==
    ASSUME Types, RaceInv, CountInv, AgreeInv, [Next]_vars
    PROVE  AgreeInv'
  <1> SUFFICES ASSUME ~raced'
               PROVE  AgreeInv'
    BY DEF AgreeInv
  <1>0. ~raced
    BY RacedStays
  <1>1. CASE UNCHANGED vars
    <2>1. UNCHANGED <<list, counted, emission, worker, derived>>
      BY <1>1 DEF vars
    <2>2. \A w \in Workers : Emitting(w)' <=> Emitting(w)
      BY <2>1 DEF Emitting
    <2> QED
      BY <1>0, <2>1, <2>2, AgreeFrame
  <1>2. ASSUME NEW s \in Setters, SetterAction(s)
        PROVE  AgreeInv'
    BY <1>0, <1>2, AgreeSetters
  <1>3. ASSUME NEW w \in Workers, Flush(w)
        PROVE  AgreeInv'
    <2>1. UNCHANGED <<list, counted, emission, derived>> /\ worker[w].pc = "idle"
      BY <1>3 DEF Flush
    <2>2. \A v \in Workers \ {w} : worker'[v] = worker[v]
      BY <1>3, Moving DEF WorkerAction
    <2>3. worker'[w].pc = "lock"
      <3>1. worker = [v \in Workers |-> worker[v]] /\ IsJob(worker[w])
        BY DEF Types, WorkerTypes, WorkAt, IsJob
      <3>2. worker'[w] = [worker[w] EXCEPT !.pc = "lock"]
        BY <1>3, <3>1 DEF Flush
      <3> QED
        BY <3>1, <3>2 DEF IsJob
    <2>4. \A v \in Workers : /\ Emitting(v)' <=> Emitting(v)
                             /\ Emitting(v) => UNCHANGED <<worker[v], derived>>
      BY <2>1, <2>2, <2>3 DEF Emitting
    <2> QED
      BY <1>0, <2>1, <2>4, AgreeFrame
  <1>4. ASSUME NEW w \in Workers,
               EmitLocks(w) \/ EmitReads(w) \/ ResetDerived(w) \/ EmitUnlocks(w)
        PROVE  AgreeInv'
    BY <1>0, <1>4, AgreeLocks, AgreeReads, AgreeResets, AgreeUnlocks
  <1> QED
    BY <1>1, <1>2, <1>3, <1>4 DEF Next, SetterAction

\* Which calls stand among some identifiers.
LEMMA TimesInSet ==
    ASSUME NEW ids \in Seq(1 .. MaxSets), NEW n
    PROVE  n \in ToSet(ids) <=> Times(ids, n) # 0
  <1> DEFINE S == {k \in DOMAIN ids : ids[k] = n}
  <1>1. IsFiniteSet(S)
    BY TimesType
  <1>2. n \in ToSet(ids) <=> S # {}
    BY DEF ToSet
  <1>3. Cardinality(S) = 0 <=> S = {}
    <2> HIDE DEF S
    <2> QED
      BY <1>1, FS_EmptySet
  <1> QED
    BY <1>2, <1>3 DEF Times

LEMMA SameCalls ==
    ASSUME NEW ids \in Seq(1 .. MaxSets), NEW jds \in Seq(1 .. MaxSets),
           \A n \in 1 .. MaxSets : Times(ids, n) = Times(jds, n)
    PROVE  ToSet(ids) = ToSet(jds)
  <1>1. ToSet(ids) \subseteq 1 .. MaxSets /\ ToSet(jds) \subseteq 1 .. MaxSets
    BY ElementOfSeq, LenProperties DEF ToSet
  <1>2. \A n : /\ n \in ToSet(ids) <=> Times(ids, n) # 0
               /\ n \in ToSet(jds) <=> Times(jds, n) # 0
    BY TimesInSet
  <1> QED
    BY <1>1, <1>2

LEMMA SummaryInit ==
    ASSUME Init
    PROVE  SummaryInv
  <1>1. \A i \in Kinds : list[i] \in FiveKinds /\ derived[i] = Fresh(i)
    BY ListFacts DEF Init
  <1>2. \A i \in Kinds : Accounts(derived[i], list[i], calls)
    BY <1>1, FreshAccounts
  <1> QED
    BY <1>2 DEF Init, SummaryInv, NoCall, NoWork, Emitting

LEMMA AgreeInit ==
    ASSUME Init
    PROVE  AgreeInv
  BY DEF Init, AgreeInv, NoWork, Emitting

\* What an emission reports are the values of the calls that it notes.
LEMMA ReportedValues ==
    ASSUME Types, SummaryInv, ~raced, emission # Nil, NEW i \in Kinds
    PROVE  /\ list[i] \in FiveKinds /\ Accounted(i) \in Seq(Int)
           /\ emission[i].ids \in Seq(1 .. MaxSets)
           /\ emission[i].result = EmitMetrics(list[i], Summary(list[i], Accounted(i)))
  <1>1. Reports(emission[i], list[i], calls)
    BY DEF SummaryInv
  <1>2. Accounted(i) = Vals(calls, emission[i].ids)
    BY DEF Accounted, Vals
  <1>3. Accounted(i) \in Seq(Int)
    BY <1>1, <1>2, ValuesKnown DEF Reports
  <1> QED
    BY <1>1, <1>2, <1>3, ListFacts DEF Reports, Known, Types, DataTypes

LEMMA InvariantIsExact ==
    ASSUME Types, SummaryInv, AgreeInv
    PROVE  EmissionIsExact
  <1> SUFFICES ASSUME ~raced, emission # Nil, NEW i \in Kinds
               PROVE  /\ ToSet(emission[i].ids) = ToSet(emission[1].ids)
                      /\ Exact(i, emission[i].result)
    BY DEF EmissionIsExact
  <1>1. Exact(i, emission[i].result)
    BY ReportedValues, EmitIsExact
  <1>2. 1 \in Kinds
    BY ListFacts DEF Kinds, Types, DataTypes
  <1>3. emission[i].ids \in Seq(1 .. MaxSets) /\ emission[1].ids \in Seq(1 .. MaxSets)
    BY <1>2, ReportedValues
  <1>4. \A n \in 1 .. MaxSets : Times(emission[i].ids, n) = Times(emission[1].ids, n)
    BY <1>2 DEF AgreeInv
  <1> QED
    BY <1>1, <1>3, <1>4, SameCalls

-----------------------------------------------------------------------------
(* The invariant, and the theorems. *)

IInv == Types /\ IdsInv /\ QueuedInv /\ RaceInv /\ CountInv /\ SummaryInv /\ AgreeInv

LEMMA InvariantInit ==
    ASSUME Init
    PROVE  IInv
  <1>1. Types
    BY InitTypes
  <1>2. IdsInv
    BY DEF Init, IdsInv, NoCall
  <1>3. QueuedInv
    BY <1>1, OverBound, BoundedSet DEF Init, QueuedInv, Types
  <1>4. RaceInv
    BY DEF Init, RaceInv, Emitting, NoCall, NoWork
  <1>5. CountInv
    <2>1. \A i \in Kinds : derived[i].ids = <<>>
      BY ListFacts, FreshType DEF Init
    <2>2. \A i \in Kinds, n \in 1 .. MaxSets : counted[i][n] = 0 /\ ~Reached(i, n)
      <3>1. Calls = {}
        BY EmptySeq DEF Init, Calls
      <3> QED
        BY <3>1 DEF Init, Reached
    <2>3. \A i \in Kinds, n \in 1 .. MaxSets : Times(derived[i].ids, n) = 0
      BY <2>1, TimesEmpty
    <2> QED
      BY <2>2, <2>3, CountParts
  <1> QED
    BY <1>1, <1>2, <1>3, <1>4, <1>5, SummaryInit, AgreeInit DEF IInv

LEMMA InvariantStep ==
    ASSUME IInv, [Next]_vars
    PROVE  IInv'
  <1>1. Types'
    BY TypesStep DEF IInv
  <1> QED
    BY <1>1, IdsStep, QueuedStep, RaceStep, CountStep, SummaryStep, AgreeStep DEF IInv

LEMMA Invariance == Spec => []IInv
  BY InvariantInit, InvariantStep, PTL DEF Spec

\* What the types say of a call and of a worker.
LEMMA InvariantTypes ==
    ASSUME IInv
    PROVE  TypeOK
  <1> USE DEF IInv, Types
  <1>1. /\ Len(calls) <= MaxSets /\ currentValue \in Int /\ raced \in BOOLEAN
        /\ mtx \in Workers \cup {Nobody}
    BY DEF DataTypes, WorkerTypes
  <1>2. queued \in 0 .. MaxSets
    <2>1. queued \in Nat /\ queued <= Cardinality(Over) /\ MaxSets \in Nat
      BY DerivedAssumption DEF DataTypes, QueuedInv
    <2>2. Cardinality(Over) \in Nat /\ Cardinality(Over) <= MaxSets
      BY OverBound, BoundedSet
    <2> QED
      BY <2>1, <2>2
  <1>3. ASSUME NEW s \in Setters
        PROVE  /\ [pc |-> setter[s].pc, id |-> setter[s].id, op |-> setter[s].op,
                   at |-> setter[s].at] \in CallType
               /\ setter[s].pc = "write" <=> setter[s].read # Nil
               /\ setter[s].pc \in {"read", "write"} => calls[setter[s].id].msg # Nil
    <2>1. CallAt(setter[s], calls, list)
      BY DEF SetterTypes
    <2>2. [pc |-> setter[s].pc, id |-> setter[s].id, op |-> setter[s].op,
           at |-> setter[s].at] \in CallType
      BY <2>1 DEF CallAt, CallType
    <2>3. setter[s].pc = "write" <=> setter[s].read # Nil
      <3>1. CASE setter[s].pc = "write"
        <4>1. setter[s].at \in Kinds /\ setter[s].read \in Entry(list[setter[s].at])
          BY <2>1, <3>1 DEF CallAt, Kinds
        <4>2. list[setter[s].at] \in FiveKinds
          BY <4>1, ListFacts DEF DataTypes
        <4> QED
          BY <3>1, <4>1, <4>2, NilAssumption, Zenon DEF FiveKinds
      <3>2. CASE setter[s].pc # "write"
        BY <2>1, <3>2 DEF CallAt
      <3> QED
        BY <3>1, <3>2
    <2>4. setter[s].pc \in {"read", "write"} => calls[setter[s].id].msg # Nil
      BY <2>1, NilAssumption DEF CallAt
    <2> QED
      BY <2>2, <2>3, <2>4
  <1>4. \A w \in Workers : /\ [pc |-> worker[w].pc, at |-> worker[w].at] \in WorkType
                           /\ Emitting(w) <=> mtx = w
    BY DEF WorkerTypes, WorkAt, WorkType
  <1> QED
    BY <1>1, <1>2, <1>3, <1>4, Zenon DEF TypeOK

(* Every goroutine of a metric is where its code can be, only the holder   *)
(* of the processor's mutex emits (processor.go:644-645), and no more      *)
(* messages are under way than calls have ended.                           *)
THEOREM DerivedTypeCorrect == Spec => []TypeOK
  BY Invariance, InvariantTypes, PTL

(* A sampled value is neither lost nor counted twice by any derived metric *)
(* as long as nothing overlaps an emission or another HandleMessage, for   *)
(* any number of setters and workers, any values and any list of derived   *)
(* metrics, and whatever the pipeline sheds (base_metric.go:153-155,       *)
(* processor.go:657-663).                                                  *)
THEOREM ValuesAreCountedOnce == Spec => []CountedOnce
  <1>1. ASSUME IInv
        PROVE  CountedOnce
    <2>1. Calls \subseteq 1 .. MaxSets
      BY <1>1, CallFacts DEF IInv, Types
    <2> QED
      BY <1>1, <2>1 DEF IInv, CountInv, CountedOnce
  <1> QED
    BY <1>1, Invariance, PTL

(* The statistics of one emission speak of the same calls, and are the     *)
(* latest, greatest, least, mean and percentiles of exactly their values,  *)
(* a greater percentile being no less than a smaller one, as long as       *)
(* nothing overlaps, for any number of goroutines, any (exact) values      *)
(* and any list of derived metrics (derived/*.go, processor.go:651-669).   *)
THEOREM StatisticsAreExact == Spec => []EmissionIsExact
  <1>1. IInv => EmissionIsExact
    BY InvariantIsExact DEF IInv
  <1> QED
    BY <1>1, Invariance, PTL
=============================================================================
