---------------------- MODULE MetricsProcessorProofs ----------------------
(***************************************************************************)
(* What becomes of a message in metrics/processor.go, for every number of  *)
(* callers, of controllers and of workers and for every size of the        *)
(* channels and of a batch.  A message is at one of five stages: on the    *)
(* ingress channel, in the dispatcher's hand, on the queue, with a worker, *)
(* or with the transport.  The invariants say that the stages never share  *)
(* a message, that together with what was shed, refused or lost they are   *)
(* what the callers got rid of, and, when there is one worker, that they   *)
(* hold the messages of a caller in their order.                           *)
(***************************************************************************)
EXTENDS MetricsProcessor, SequenceTheorems, FiniteSetTheorems, TLAPS

-----------------------------------------------------------------------------
(* The stages of the pipeline, from its end to its beginning. *)

Reported == ToSet(delivered)
\* The messages of a batch that was not flushed yet.
Live(w) == IF worker[w] \in {"flushed", "ended"} THEN {} ELSE ToSet(batch[w])
Carried(w) == {carry[w]} \ {NoMessage}
AtWorkers == UNION {Unsent(w) : w \in Workers}
InQueue == ToSet(queue)
InHand == {held} \ {NoMessage}
InIngress == ToSet(ingress)
InPipeline == Reported \union AtWorkers \union InQueue \union InHand
                \union InIngress
GivenUp == failed \union shed \union lost

\* No element occurs twice in s.
OneToOne(s) == \A i, j \in 1..Len(s) : i # j => s[i] # s[j]
\* Of the messages of one caller, those of A were made before those of B.
Before(A, B) == \A m \in A, n \in B : m.by = n.by => m.seq < n.seq
Ordered(s) ==
    \A i, j \in 1..Len(s) : i < j /\ s[i].by = s[j].by => s[i].seq < s[j].seq

-----------------------------------------------------------------------------
(* The inductive invariant. *)

\* Stop and Start: mtx is held between the up=0 and the close, by one caller;
\* only one of them gets to wait; and what a stopped processor looks like.
ControlInv ==
    /\ \A k \in Controllers :
         /\ controller[k] \in {"closes", "panics"} <=> mtx = k
         /\ controller[k] # "idle" => started
         /\ controller[k] = "waits" => shutdown
    /\ \A k, l \in Controllers :
         controller[k] = "waits" /\ controller[l] = "waits" => k = l
    /\ dispatcher = "forwards" <=> held # NoMessage
    /\ dispatcher = "spawns" => \A w \in Workers : worker[w] = "ended"
    /\ ~started => AllEnded /\ ingressOpen /\ queueOpen

\* The message that did not fit is carried over one flush, never the last one.
WorkerInv ==
    \A w \in Workers :
        /\ carry[w] # NoMessage =>
             worker[w] \in {"flush", "send", "flushed"} /\ ~ending[w]
        /\ worker[w] \in {"loop", "tick", "beat"} => ~ending[w]

\* A blocked caller has made the message it is blocked with.
BlockedInv == \A c \in Callers : caller[c] # "idle" => issued[c] >= 1

\* Every message that is somewhere left its caller, and the other way round.
AcceptedInv == Accepted = InPipeline \union GivenUp

\* The stages have no message in common, and none holds a message twice.
ApartInv ==
    /\ Reported \intersect AtWorkers = {}
    /\ InQueue \intersect (Reported \union AtWorkers) = {}
    /\ InHand \intersect (Reported \union AtWorkers \union InQueue) = {}
    /\ InIngress
         \intersect (Reported \union AtWorkers \union InQueue \union InHand) = {}
    /\ \A v, w \in Workers : v # w => Unsent(v) \intersect Unsent(w) = {}
    /\ \A w \in Workers :
         /\ Live(w) \intersect Carried(w) = {}
         /\ worker[w] \notin {"flushed", "ended"} => OneToOne(batch[w])
    /\ OneToOne(delivered) /\ OneToOne(queue) /\ OneToOne(ingress)

\* With one worker the pipeline is in order from its end to its beginning.
OrderInv ==
    \A w \in Workers : Workers = {w} =>
        /\ Before(Reported, Unsent(w))
        /\ Before(Live(w), Carried(w))
        /\ Before(Reported \union Unsent(w), InQueue)
        /\ Before(Reported \union Unsent(w) \union InQueue, InHand)
        /\ Before(Reported \union Unsent(w) \union InQueue \union InHand,
                  InIngress)
        /\ worker[w] \notin {"flushed", "ended"} => Ordered(batch[w])
        /\ Ordered(delivered) /\ Ordered(queue) /\ Ordered(ingress)

IInv == TypeOK /\ ControlInv /\ WorkerInv /\ BlockedInv /\ AcceptedInv
            /\ ApartInv /\ OrderInv

-----------------------------------------------------------------------------
(* The operators on sequences the pipeline is built from. *)

LEMMA ToSetOfEmpty ==
    ASSUME NEW S
    PROVE  <<>> \in Seq(S) /\ ToSet(<<>>) = {} /\ OneToOne(<<>>) /\ Ordered(<<>>)
  BY DEF ToSet, OneToOne, Ordered

LEMMA ToSetOfOne ==
    ASSUME NEW S, NEW e \in S
    PROVE  <<e>> \in Seq(S) /\ ToSet(<<e>>) = {e} /\ OneToOne(<<e>>)
             /\ Ordered(<<e>>) /\ Len(<<e>>) = 1
  BY DEF ToSet, OneToOne, Ordered

LEMMA ToSetType ==
    ASSUME NEW S, NEW s \in Seq(S)
    PROVE  ToSet(s) \subseteq S /\ Len(s) \in Nat
  BY DEF ToSet

\* A channel that is not full takes an element at its end.
LEMMA AppendToSet ==
    ASSUME NEW S, NEW s \in Seq(S), NEW e \in S
    PROVE  /\ Append(s, e) \in Seq(S) /\ Len(Append(s, e)) = Len(s) + 1
           /\ ToSet(Append(s, e)) = ToSet(s) \union {e}
  <1>1. /\ Append(s, e) \in Seq(S) /\ Len(Append(s, e)) = Len(s) + 1
        /\ Append(s, e)[Len(s) + 1] = e
        /\ \A i \in 1..Len(s) : Append(s, e)[i] = s[i]
    BY AppendProperties
  <1>2. ToSet(Append(s, e)) \subseteq ToSet(s) \union {e}
    <2>1. \A i \in 1..Len(s) + 1 : i \in 1..Len(s) \/ i = Len(s) + 1
      BY LenProperties
    <2>2. QED  BY <1>1, <2>1 DEF ToSet
  <1>3. ToSet(s) \union {e} \subseteq ToSet(Append(s, e))
    <2>1. ToSet(s) \subseteq ToSet(Append(s, e))
      <3>1. \A i \in 1..Len(s) : i \in 1..Len(Append(s, e))  BY <1>1
      <3>2. QED  BY <1>1, <3>1 DEF ToSet
    <2>2. e \in ToSet(Append(s, e))
      <3>1. Len(s) + 1 \in 1..Len(Append(s, e))  BY <1>1
      <3>2. QED  BY <1>1, <3>1 DEF ToSet
    <2>3. QED  BY <2>1, <2>2
  <1>4. QED  BY <1>1, <1>2, <1>3

\* ... and gives one from its front.
LEMMA TakeFromSet ==
    ASSUME NEW S, NEW s \in Seq(S), s # <<>>
    PROVE  /\ Head(s) \in S /\ Tail(s) \in Seq(S) /\ Len(Tail(s)) = Len(s) - 1
           /\ ToSet(s) = {Head(s)} \union ToSet(Tail(s))
           /\ Len(s) \in Nat \ {0}
  <1>1. /\ Head(s) \in S /\ Tail(s) \in Seq(S) /\ Len(Tail(s)) = Len(s) - 1
        /\ Head(s) = s[1] /\ Len(s) \in Nat \ {0}
        /\ \A i \in 1..Len(Tail(s)) : Tail(s)[i] = s[i + 1]
    BY HeadTailProperties, EmptySeq, LenProperties
  <1>2. ToSet(s) \subseteq {Head(s)} \union ToSet(Tail(s))
    <2>1. SUFFICES ASSUME NEW i \in 1..Len(s)
                   PROVE  s[i] = Head(s) \/ s[i] \in ToSet(Tail(s))
      BY Zenon, LenProperties DEF ToSet
    <2>2. CASE i = 1  BY <1>1, <2>2
    <2>3. CASE i # 1
      <3>1. i - 1 \in 1..Len(Tail(s)) /\ (i - 1) + 1 = i  BY <1>1, <2>3
      <3>2. s[i] = Tail(s)[i - 1]  BY <1>1, <3>1
      <3>3. QED  BY <1>1, <3>1, <3>2, Zenon, LenProperties DEF ToSet
    <2>4. QED  BY <2>2, <2>3
  <1>3. {Head(s)} \union ToSet(Tail(s)) \subseteq ToSet(s)
    <2>1. ASSUME NEW i \in 1..Len(Tail(s))
          PROVE  i + 1 \in 1..Len(s) /\ Tail(s)[i] = s[i + 1]
      BY <1>1
    <2>2. QED  BY <1>1, <2>1 DEF ToSet
  <1>4. QED  BY <1>1, <1>2, <1>3

\* The first n elements of a batch go to the transport, the rest do not.
LEMMA SendToSet ==
    ASSUME NEW S, NEW d \in Seq(S), NEW s \in Seq(S), NEW n \in 0..Len(s)
    PROVE  /\ SubSeq(s, 1, n) \in Seq(S) /\ d \o SubSeq(s, 1, n) \in Seq(S)
           /\ Len(d \o SubSeq(s, 1, n)) = Len(d) + n
           /\ \A i \in 1..Len(d) : (d \o SubSeq(s, 1, n))[i] = d[i]
           /\ \A i \in 1..n : (d \o SubSeq(s, 1, n))[Len(d) + i] = s[i]
           /\ ToSet(d \o SubSeq(s, 1, n))
                = ToSet(d) \union {s[i] : i \in 1..n}
           /\ ToSet(s) = {s[i] : i \in 1..n} \union {s[i] : i \in n + 1..Len(s)}
  <1> DEFINE p == SubSeq(s, 1, n)
             r == d \o p
  <1>1. p \in Seq(S) /\ Len(p) = n /\ \A i \in 1..n : p[i] = s[i]
    BY SubSeqProperties
  <1>2. r \in Seq(S) /\ Len(r) = Len(d) + n
    BY <1>1, ConcatProperties
  <1>3. \A i \in 1..Len(d) : r[i] = d[i]
    BY <1>1, <1>2, ConcatProperties
  <1>4. ASSUME NEW i \in 1..n  PROVE r[Len(d) + i] = s[i]
    <2>1. Len(d) + i \in 1..(Len(d) + Len(p)) /\ ~(Len(d) + i <= Len(d))
            /\ (Len(d) + i) - Len(d) = i
      BY <1>1
    <2>2. r[Len(d) + i] = p[i]  BY <1>1, <2>1, ConcatProperties
    <2>3. QED  BY <1>1, <2>2
  <1>5. ToSet(r) \subseteq ToSet(d) \union {s[i] : i \in 1..n}
    <2>1. SUFFICES ASSUME NEW j \in 1..(Len(d) + n)
                   PROVE  r[j] \in ToSet(d) \union {s[i] : i \in 1..n}
      BY <1>2 DEF ToSet
    <2>2. CASE j <= Len(d)  BY <1>3, <2>2 DEF ToSet
    <2>3. CASE ~(j <= Len(d))
      <3>1. j - Len(d) \in 1..n /\ Len(d) + (j - Len(d)) = j  BY <2>3
      <3>2. r[j] = s[j - Len(d)]  BY <1>4, <3>1
      <3>3. QED  BY <3>1, <3>2
    <2>4. QED  BY <2>2, <2>3
  <1>6. ToSet(d) \union {s[i] : i \in 1..n} \subseteq ToSet(r)
    <2>1. \A i \in 1..n : Len(d) + i \in 1..Len(r)  BY <1>2
    <2>2. \A i \in 1..Len(d) : i \in 1..Len(r)  BY <1>2
    <2>3. DOMAIN r = 1..Len(r)  BY <1>2
    <2>4. ToSet(d) \subseteq ToSet(r)  BY <1>3, <2>2, <2>3 DEF ToSet
    <2>5. {s[i] : i \in 1..n} \subseteq ToSet(r)
      BY <1>4, <2>1, <2>3, Zenon DEF ToSet
    <2>6. QED  BY <2>4, <2>5
  <1>7. ToSet(s) = {s[i] : i \in 1..n} \union {s[i] : i \in n + 1..Len(s)}
    BY DEF ToSet
  <1>8. QED  BY <1>1, <1>2, <1>3, <1>4, <1>5, <1>6, <1>7

\* Neither end of a channel makes a message occur twice, or out of order.
LEMMA AppendKeeps ==
    ASSUME NEW s \in Seq(Message), NEW e \in Message
    PROVE  /\ OneToOne(s) /\ e \notin ToSet(s) => OneToOne(Append(s, e))
           /\ Ordered(s) /\ Before(ToSet(s), {e}) => Ordered(Append(s, e))
  <1>1. /\ Len(Append(s, e)) = Len(s) + 1 /\ Append(s, e)[Len(s) + 1] = e
        /\ \A i \in 1..Len(s) : Append(s, e)[i] = s[i]
    BY AppendProperties
  <1>2. Len(s) \in Nat /\ \A i \in 1..Len(s) : s[i] \in ToSet(s)
    BY DEF ToSet
  <1>3. ASSUME NEW i \in 1..Len(s) + 1  PROVE i \in 1..Len(s) \/ i = Len(s) + 1
    BY <1>2
  <1>4. OneToOne(s) /\ e \notin ToSet(s) => OneToOne(Append(s, e))
    BY <1>1, <1>2, <1>3 DEF OneToOne
  <1>5. Ordered(s) /\ Before(ToSet(s), {e}) => Ordered(Append(s, e))
    <2>1. SUFFICES ASSUME Ordered(s), Before(ToSet(s), {e}),
                          NEW i \in 1..Len(s) + 1, NEW j \in 1..Len(s) + 1,
                          i < j, Append(s, e)[i].by = Append(s, e)[j].by
                   PROVE  Append(s, e)[i].seq < Append(s, e)[j].seq
      BY <1>1 DEF Ordered
    <2>2. i \in 1..Len(s)  BY <1>2, <2>1
    <2>3. CASE j = Len(s) + 1  BY <1>1, <1>2, <2>1, <2>2, <2>3 DEF Before
    <2>4. CASE j \in 1..Len(s)  BY <1>1, <2>1, <2>2, <2>4 DEF Ordered
    <2>5. QED  BY <1>3, <2>3, <2>4
  <1>6. QED  BY <1>4, <1>5

LEMMA TakeKeeps ==
    ASSUME NEW s \in Seq(Message), s # <<>>
    PROVE  /\ OneToOne(s) => OneToOne(Tail(s)) /\ Head(s) \notin ToSet(Tail(s))
           /\ Ordered(s) => Ordered(Tail(s)) /\ Before({Head(s)}, ToSet(Tail(s)))
  <1>1. /\ Tail(s) \in Seq(Message) /\ Len(Tail(s)) = Len(s) - 1
        /\ Head(s) = s[1] /\ Len(s) \in Nat \ {0}
        /\ \A i \in 1..Len(Tail(s)) : Tail(s)[i] = s[i + 1]
    BY HeadTailProperties, EmptySeq, LenProperties
  <1>2. /\ 1 \in 1..Len(s)
        /\ \A i \in 1..Len(Tail(s)) : i + 1 \in 1..Len(s) /\ 1 < i + 1
        /\ \A i, j \in 1..Len(Tail(s)) : i < j => i + 1 < j + 1
    BY <1>1
  <1>3. OneToOne(s) => OneToOne(Tail(s)) /\ Head(s) \notin ToSet(Tail(s))
    <2>1. OneToOne(s) => OneToOne(Tail(s))
      BY <1>1, <1>2 DEF OneToOne
    <2>2. ASSUME OneToOne(s)  PROVE Head(s) \notin ToSet(Tail(s))
      BY <1>1, <1>2, <2>2 DEF OneToOne, ToSet
    <2>3. QED  BY <2>1, <2>2
  <1>4. Ordered(s) => Ordered(Tail(s))
    BY <1>1, <1>2 DEF Ordered
  <1>5. Ordered(s) => Before({Head(s)}, ToSet(Tail(s)))
    BY <1>1, <1>2 DEF Ordered, Before, ToSet
  <1>6. QED  BY <1>3, <1>4, <1>5

LEMMA SendKeeps ==
    ASSUME NEW d \in Seq(Message), NEW s \in Seq(Message), NEW n \in 0..Len(s)
    PROVE  /\ OneToOne(d) /\ OneToOne(s) /\ ToSet(d) \intersect ToSet(s) = {}
                => OneToOne(d \o SubSeq(s, 1, n))
           /\ Ordered(d) /\ Ordered(s) /\ Before(ToSet(d), ToSet(s))
                => Ordered(d \o SubSeq(s, 1, n))
  <1> DEFINE r == d \o SubSeq(s, 1, n)
  <1>1. /\ Len(r) = Len(d) + n
        /\ \A i \in 1..Len(d) : r[i] = d[i]
        /\ \A i \in 1..n : r[Len(d) + i] = s[i]
    BY SendToSet
  <1>2. /\ Len(d) \in Nat /\ n \in Nat /\ \A i \in 1..n : i \in 1..Len(s)
        /\ \A i \in 1..Len(d) : d[i] \in ToSet(d)
        /\ \A i \in 1..Len(s) : s[i] \in ToSet(s)
    BY DEF ToSet
  <1> HIDE DEF r
  <1>3. ASSUME NEW i \in 1..Len(r), i \notin 1..Len(d)
        PROVE  /\ i - Len(d) \in 1..Len(s) /\ r[i] = s[i - Len(d)]
               /\ r[i] \in ToSet(s) /\ i > Len(d)
    <2>1. i - Len(d) \in 1..n /\ Len(d) + (i - Len(d)) = i /\ i > Len(d)
      BY <1>1, <1>2, <1>3
    <2>2. QED  BY <1>1, <1>2, <2>1
  <1>4. ASSUME OneToOne(d), OneToOne(s), ToSet(d) \intersect ToSet(s) = {}
        PROVE  OneToOne(r)
    <2>1. SUFFICES ASSUME NEW i \in 1..Len(r), NEW j \in 1..Len(r), i < j
                   PROVE  r[i] # r[j]
      BY <1>1, <1>2 DEF OneToOne
    <2>2. CASE j \in 1..Len(d)
      <3>1. i \in 1..Len(d)  BY <1>2, <2>1, <2>2
      <3>2. QED  BY <1>1, <1>4, <2>1, <2>2, <3>1 DEF OneToOne
    <2>3. CASE i \in 1..Len(d) /\ j \notin 1..Len(d)
      BY <1>1, <1>2, <1>3, <1>4, <2>3
    <2>4. CASE i \notin 1..Len(d) /\ j \notin 1..Len(d)
      <3>1. i - Len(d) # j - Len(d)  BY <1>2, <2>1
      <3>2. QED  BY <1>3, <1>4, <2>4, <3>1 DEF OneToOne
    <2>5. QED  BY <1>2, <2>1, <2>2, <2>3, <2>4
  <1>5. ASSUME Ordered(d), Ordered(s), Before(ToSet(d), ToSet(s))
        PROVE  Ordered(r)
    <2>1. SUFFICES ASSUME NEW i \in 1..Len(r), NEW j \in 1..Len(r), i < j,
                          r[i].by = r[j].by
                   PROVE  r[i].seq < r[j].seq
      BY DEF Ordered
    <2>2. CASE j \in 1..Len(d)
      <3>1. i \in 1..Len(d)  BY <1>2, <2>1, <2>2
      <3>2. QED  BY <1>1, <1>5, <2>1, <2>2, <3>1 DEF Ordered
    <2>3. CASE i \in 1..Len(d) /\ j \notin 1..Len(d)
      BY <1>1, <1>2, <1>3, <1>5, <2>1, <2>3 DEF Before
    <2>4. CASE i \notin 1..Len(d) /\ j \notin 1..Len(d)
      <3>1. i - Len(d) < j - Len(d)  BY <1>2, <2>1
      <3>2. QED  BY <1>3, <1>5, <2>1, <2>4, <3>1 DEF Ordered
    <2>5. QED  BY <1>2, <2>1, <2>2, <2>3, <2>4
  <1>6. QED  BY <1>4, <1>5 DEF r

-----------------------------------------------------------------------------
(* Type correctness, one group of variables at a time. *)

ControlTypes ==
    /\ mtx \in Controllers \union {NoOne}
    /\ started \in BOOLEAN /\ shutdown \in BOOLEAN /\ cancelled \in BOOLEAN
    /\ crashed \in BOOLEAN
    /\ controller \in [Controllers -> {"idle", "closes", "waits", "panics"}]
ChannelTypes ==
    /\ ingressOpen \in BOOLEAN /\ queueOpen \in BOOLEAN
    /\ ingress \in Seq(Message) /\ Len(ingress) <= IngressSize
    /\ queue \in Seq(Message) /\ Len(queue) <= BufferSize
    /\ dispatcher \in {"spawns", "loop", "forwards", "ended"}
    /\ held \in Message \union {NoMessage}
WorkerTypes ==
    /\ worker \in [Workers -> {"loop", "tick", "beat", "flush", "send",
                               "flushed", "ended"}]
    /\ batch \in [Workers -> Seq(Message)]
    /\ \A w \in Workers : Len(batch[w]) <= BatchCap
    /\ carry \in [Workers -> Message \union {NoMessage}]
    /\ ending \in [Workers -> BOOLEAN]
CallerTypes ==
    /\ caller \in [Callers -> {"idle", "blocked", "panics"}]
    /\ issued \in [Callers -> 0..MaxMessages]
HistoryTypes ==
    /\ starts \in 0..MaxStarts /\ up \in {0, 1}
    /\ delivered \in Seq(Message)
    /\ shed \subseteq Message /\ failed \subseteq Message /\ lost \subseteq Message

controls == <<mtx, started, shutdown, cancelled, crashed, controller>>
pipes == <<ingress, ingressOpen, queue, queueOpen, dispatcher, held>>

LEMMA TypeParts ==
    /\ TypeOK <=> ControlTypes /\ ChannelTypes /\ WorkerTypes /\ CallerTypes
                    /\ HistoryTypes
    /\ TypeOK' <=> ControlTypes' /\ ChannelTypes' /\ WorkerTypes'
                    /\ CallerTypes' /\ HistoryTypes'
  BY DEF TypeOK, ControlTypes, ChannelTypes, WorkerTypes, CallerTypes,
         HistoryTypes

LEMMA UnchangedTypes ==
    /\ ControlTypes /\ UNCHANGED controls => ControlTypes'
    /\ ChannelTypes /\ UNCHANGED pipes => ChannelTypes'
    /\ WorkerTypes /\ UNCHANGED workers => WorkerTypes'
    /\ CallerTypes /\ UNCHANGED <<caller, issued>> => CallerTypes'
    /\ HistoryTypes /\ UNCHANGED history => HistoryTypes'
  BY DEF ControlTypes, ChannelTypes, WorkerTypes, CallerTypes, HistoryTypes,
         controls, pipes, workers, history

LEMMA LatestIsMessage ==
    ASSUME CallerTypes, BlockedInv, NEW c \in Callers, caller[c] # "idle"
    PROVE  Latest(c) \in Message
  <1>1. issued[c] \in 1..MaxMessages
    BY SizesAssumption DEF CallerTypes, BlockedInv
  <1>2. QED  BY <1>1 DEF Latest, Message

-----------------------------------------------------------------------------
(* The initial states. *)

LEMMA InitIInv == ASSUME Init PROVE IInv
  <1>1. /\ <<>> \in Seq(Message) /\ Len(<<>>) = 0
        /\ ToSet(<<>>) = {} /\ OneToOne(<<>>) /\ Ordered(<<>>)
    BY ToSetOfEmpty
  <1>2. TypeOK
    <2>1. ControlTypes  BY DEF Init, ControlTypes
    <2>2. ChannelTypes
      BY <1>1, SizesAssumption DEF Init, ChannelTypes
    <2>3. WorkerTypes
      BY <1>1, SizesAssumption DEF Init, WorkerTypes
    <2>4. CallerTypes  BY SizesAssumption DEF Init, CallerTypes
    <2>5. HistoryTypes  BY <1>1, SizesAssumption DEF Init, HistoryTypes
    <2>6. QED  BY <2>1, <2>2, <2>3, <2>4, <2>5, TypeParts
  <1>3. ControlInv
    BY NamesAssumption DEF Init, ControlInv, AllEnded
  <1>4. WorkerInv  BY DEF Init, WorkerInv
  <1>5. BlockedInv  BY DEF Init, BlockedInv
  <1>6. /\ Reported = {} /\ InQueue = {} /\ InHand = {} /\ InIngress = {}
        /\ GivenUp = {}
        /\ \A w \in Workers : Live(w) = {} /\ Carried(w) = {} /\ Unsent(w) = {}
    BY <1>1 DEF Init, Reported, InQueue, InHand, InIngress, GivenUp, Live,
                Carried, Unsent
  <1>7. AtWorkers = {}  BY <1>6 DEF AtWorkers
  <1>8. Accepted = {}
    <2>1. SUFFICES ASSUME NEW m \in Message  PROVE ~(m.seq <= issued[m.by])
      BY DEF Accepted
    <2>2. m.by \in Callers /\ m.seq \in 1..MaxMessages  BY DEF Message
    <2>3. QED  BY <2>2, SizesAssumption DEF Init
  <1>9. AcceptedInv  BY <1>6, <1>7, <1>8 DEF AcceptedInv, InPipeline
  <1>10. ApartInv
    BY <1>1, <1>6, <1>7 DEF ApartInv, Init
  <1>11. OrderInv
    BY <1>1, <1>6, <1>7 DEF OrderInv, Before, Init
  <1>12. QED
    BY <1>2, <1>3, <1>4, <1>5, <1>9, <1>10, <1>11 DEF IInv

-----------------------------------------------------------------------------
(* Types are kept by every step. *)

LEMMA CallerStepType ==
    ASSUME TypeOK, BlockedInv, NEW c \in Callers, CallerStep(c)
    PROVE  TypeOK'
  <1> USE SizesAssumption, TypeParts, UnchangedTypes
  <1>1. /\ ingress \in Seq(Message) /\ Len(ingress) <= IngressSize
        /\ Len(ingress) \in Nat /\ issued[c] \in 0..MaxMessages
    BY ToSetType DEF ChannelTypes, CallerTypes
  <1>2. CASE Enqueue(c)
    <2> DEFINE m == [by |-> c, seq |-> issued[c] + 1]
    <2>1. m \in Message /\ issued[c] + 1 \in 0..MaxMessages
      BY <1>1, <1>2 DEF Enqueue, Message
    <2>2. CallerTypes'
      <3>1. issued' \in [Callers -> 0..MaxMessages]
        BY <1>2, <2>1 DEF Enqueue, CallerTypes
      <3>2. caller' \in [Callers -> {"idle", "blocked", "panics"}]
        BY <1>2 DEF Enqueue, CallerTypes
      <3>3. QED  BY <3>1, <3>2 DEF CallerTypes
    <2>3. ChannelTypes'
      <3>1. Append(ingress, m) \in Seq(Message)
              /\ Len(Append(ingress, m)) = Len(ingress) + 1
        BY <1>1, <2>1, AppendToSet
      <3>2. \/ ingress' = ingress
            \/ Len(ingress) < IngressSize /\ ingress' = Append(ingress, m)
        BY <1>2, Zenon DEF Enqueue
      <3>3. ingress' \in Seq(Message) /\ Len(ingress') <= IngressSize
        BY <1>1, <3>1, <3>2
      <3>4. QED  BY <1>2, <3>3 DEF Enqueue, ChannelTypes
    <2>4. QED
      BY <1>2, <2>2, <2>3 DEF Enqueue, controls, history
  <1>3. CASE EnqueueUnblocks(c)
    <2>1. Latest(c) \in Message
      BY <1>3, LatestIsMessage DEF EnqueueUnblocks
    <2>2. CallerTypes'  BY <1>3 DEF EnqueueUnblocks, CallerTypes
    <2>3. ChannelTypes'
      <3>1. Append(ingress, Latest(c)) \in Seq(Message)
              /\ Len(Append(ingress, Latest(c))) = Len(ingress) + 1
        BY <1>1, <2>1, AppendToSet
      <3>2. ingress' \in Seq(Message) /\ Len(ingress') <= IngressSize
        BY <1>1, <1>3, <3>1 DEF EnqueueUnblocks
      <3>3. QED  BY <1>3, <3>2 DEF EnqueueUnblocks, ChannelTypes
    <2>4. QED
      BY <1>3, <2>2, <2>3 DEF EnqueueUnblocks, controls, history
  <1>4. QED  BY <1>2, <1>3 DEF CallerStep

LEMMA ControllerStepType ==
    ASSUME TypeOK, NEW k \in Controllers, ControllerStep(k)
    PROVE  TypeOK'
  <1> USE SizesAssumption, TypeParts, UnchangedTypes
  <1>1. CASE Start(k)
    <2>1. ControlTypes'  BY <1>1 DEF Start, ControlTypes
    <2>2. ChannelTypes'  BY <1>1 DEF Start, ChannelTypes
    <2>3. HistoryTypes'  BY <1>1 DEF Start, HistoryTypes
    <2>4. QED  BY <1>1, <2>1, <2>2, <2>3 DEF Start
  <1>2. CASE StopReportsDown(k)
    <2>1. ControlTypes'  BY <1>2 DEF StopReportsDown, ControlTypes, channels
    <2>2. HistoryTypes'  BY <1>2 DEF StopReportsDown, HistoryTypes
    <2>3. QED  BY <1>2, <2>1, <2>2 DEF StopReportsDown, channels, pipes
  <1>3. CASE StopCloses(k)
    <2>1. ControlTypes'
      <3>1. mtx' \in Controllers \union {NoOne} /\ shutdown' \in BOOLEAN
        BY <1>3 DEF StopCloses, ControlTypes
      <3>2. controller' \in [Controllers -> {"idle", "closes", "waits", "panics"}]
        BY <1>3 DEF StopCloses, ControlTypes
      <3>3. QED  BY <1>3, <3>1, <3>2 DEF StopCloses, ControlTypes
    <2>2. ChannelTypes'
      <3>1. ingressOpen' \in BOOLEAN  BY <1>3 DEF StopCloses, ChannelTypes
      <3>2. QED  BY <1>3, <3>1 DEF StopCloses, ChannelTypes
    <2>3. CallerTypes'
      <3>1. caller' \in [Callers -> {"idle", "blocked", "panics"}]
        BY <1>3 DEF StopCloses, CallerTypes
      <3>2. QED  BY <1>3, <3>1 DEF StopCloses, CallerTypes
    <2>4. QED  BY <1>3, <2>1, <2>2, <2>3 DEF StopCloses
  <1>4. CASE StopFinishes(k)
    <2>1. ControlTypes'  BY <1>4 DEF StopFinishes, ControlTypes
    <2>2. ChannelTypes'
      <3>1. <<>> \in Seq(Message) /\ Len(<<>>) = 0  BY ToSetOfEmpty
      <3>2. QED  BY <1>4, <3>1 DEF StopFinishes, ChannelTypes
    <2>3. HistoryTypes'
      <3>1. ToSet(ingress) \subseteq Message /\ ToSet(queue) \subseteq Message
        BY ToSetType DEF ChannelTypes
      <3>2. QED  BY <1>4, <3>1 DEF StopFinishes, HistoryTypes
    <2>4. QED  BY <1>4, <2>1, <2>2, <2>3 DEF StopFinishes
  <1>5. QED  BY <1>1, <1>2, <1>3, <1>4 DEF ControllerStep

LEMMA RunStepType ==
    ASSUME TypeOK, ControlInv, Run
    PROVE  TypeOK'
  <1> USE SizesAssumption, TypeParts, UnchangedTypes
  <1>1. CASE RunSpawns
    <2>1. ChannelTypes'  BY <1>1 DEF RunSpawns, ChannelTypes, channels
    <2>2. WorkerTypes'
      <3>1. <<>> \in Seq(Message) /\ Len(<<>>) = 0  BY ToSetOfEmpty
      <3>2. QED  BY <1>1, <3>1 DEF RunSpawns, WorkerTypes
    <2>3. QED  BY <1>1, <2>1, <2>2 DEF RunSpawns, channels, controls
  <1>2. CASE RunTakes
    <2>1. ChannelTypes'
      <3>1. Head(ingress) \in Message /\ Tail(ingress) \in Seq(Message)
              /\ Len(Tail(ingress)) = Len(ingress) - 1
              /\ Len(ingress) \in Nat
        BY <1>2, TakeFromSet DEF RunTakes, ChannelTypes
      <3>2. Len(Tail(ingress)) <= IngressSize
        BY <3>1 DEF ChannelTypes
      <3>3. QED  BY <1>2, <3>1, <3>2 DEF RunTakes, ChannelTypes
    <2>2. QED  BY <1>2, <2>1 DEF RunTakes, controls
  <1>3. CASE RunForwards
    <2>1. ChannelTypes'
      <3>1. held \in Message
        BY <1>3 DEF RunForwards, ChannelTypes, ControlInv
      <3>2. Append(queue, held) \in Seq(Message)
              /\ Len(Append(queue, held)) = Len(queue) + 1
              /\ Len(queue) \in Nat
        BY <3>1, AppendToSet, ToSetType DEF ChannelTypes
      <3>3. Len(Append(queue, held)) <= BufferSize
        BY <1>3, <3>2 DEF RunForwards
      <3>4. QED  BY <1>3, <3>2, <3>3 DEF RunForwards, ChannelTypes
    <2>2. QED  BY <1>3, <2>1 DEF RunForwards, controls
  <1>4. CASE RunSheds
    <2>1. held \in Message
      BY <1>4 DEF RunSheds, ChannelTypes, ControlInv
    <2>2. ChannelTypes'  BY <1>4 DEF RunSheds, ChannelTypes, channels
    <2>3. HistoryTypes'  BY <1>4, <2>1 DEF RunSheds, HistoryTypes
    <2>4. QED  BY <1>4, <2>2, <2>3 DEF RunSheds, channels, controls
  <1>5. CASE RunEnds
    <2>1. ChannelTypes'  BY <1>5 DEF RunEnds, ChannelTypes
    <2>2. HistoryTypes'
      <3>1. {held} \ {NoMessage} \subseteq Message  BY DEF ChannelTypes
      <3>2. QED  BY <1>5, <3>1 DEF RunEnds, HistoryTypes
    <2>3. QED  BY <1>5, <2>1, <2>2 DEF RunEnds, controls
  <1>6. QED  BY <1>1, <1>2, <1>3, <1>4, <1>5 DEF Run

LEMMA WorkerStepType ==
    ASSUME TypeOK, NEW w \in Workers, WorkerStep(w)
    PROVE  TypeOK'
  <1> USE SizesAssumption, TypeParts, UnchangedTypes
  <1>1. CASE WorkerTakes(w)
    <2>1. /\ Head(queue) \in Message /\ Tail(queue) \in Seq(Message)
          /\ Len(Tail(queue)) = Len(queue) - 1 /\ Len(queue) \in Nat
      BY <1>1, TakeFromSet DEF WorkerTakes, ChannelTypes
    <2>2. ChannelTypes'
      <3>1. Len(Tail(queue)) <= BufferSize  BY <2>1 DEF ChannelTypes
      <3>2. QED  BY <1>1, <2>1, <3>1 DEF WorkerTakes, ChannelTypes
    <2>3. WorkerTypes'
      <3>1. /\ batch[w] \in Seq(Message) /\ Len(batch[w]) \in Nat
            /\ Append(batch[w], Head(queue)) \in Seq(Message)
            /\ Len(Append(batch[w], Head(queue))) = Len(batch[w]) + 1
        BY <2>1, AppendToSet, ToSetType DEF WorkerTypes
      <3>2. CASE Len(batch[w]) < BatchCap
        <4>1. Len(Append(batch[w], Head(queue))) <= BatchCap  BY <3>1, <3>2
        <4>2. /\ UNCHANGED <<worker, carry, ending>>
              /\ batch' = [batch EXCEPT ![w] = Append(batch[w], Head(queue))]
          BY <1>1, <3>1, <3>2 DEF WorkerTakes
        <4>3. QED  BY <3>1, <4>1, <4>2 DEF WorkerTypes
      <3>3. CASE Len(batch[w]) = BatchCap
        <4>1. /\ UNCHANGED <<batch, ending>>
              /\ worker' = [worker EXCEPT ![w] = "flush"]
              /\ carry' = [carry EXCEPT ![w] = Head(queue)]
          BY <1>1, <3>1, <3>3 DEF WorkerTakes
        <4>2. QED  BY <2>1, <4>1 DEF WorkerTypes
      <3>4. QED  BY <1>1, <3>2, <3>3 DEF WorkerTakes
    <2>4. QED  BY <1>1, <2>2, <2>3 DEF WorkerTakes, controls
  <1>2. CASE \/ WorkerTicks(w) \/ WorkerChecksStarted(w) \/ WorkerFlushes(w)
    <2>1. /\ UNCHANGED <<batch, carry, ending, controls, pipes, caller, issued,
                         history>>
          /\ \E there \in {"loop", "tick", "beat", "flush", "send", "flushed"} :
               worker' = [worker EXCEPT ![w] = there]
      BY <1>2 DEF WorkerTicks, WorkerChecksStarted, WorkerFlushes, channels,
                  controls, pipes
    <2>2. WorkerTypes'  BY <2>1 DEF WorkerTypes
    <2>3. QED  BY <2>1, <2>2
  <1>3. CASE WorkerReportsUp(w)
    <2>1. WorkerTypes'  BY <1>3 DEF WorkerReportsUp, WorkerTypes
    <2>2. HistoryTypes'  BY <1>3 DEF WorkerReportsUp, HistoryTypes
    <2>3. QED
      BY <1>3, <2>1, <2>2 DEF WorkerReportsUp, channels, controls, pipes
  <1>4. CASE WorkerLeaves(w)
    <2>1. WorkerTypes'  BY <1>4 DEF WorkerLeaves, WorkerTypes
    <2>2. QED
      BY <1>4, <2>1 DEF WorkerLeaves, channels, controls, pipes
  <1>5. CASE WorkerSends(w)
    <2>1. WorkerTypes'  BY <1>5 DEF WorkerSends, WorkerTypes
    <2>2. HistoryTypes'
      <3>1. PICK n \in 0..Len(batch[w]) :
              /\ delivered' = delivered \o SubSeq(batch[w], 1, n)
              /\ failed' = failed
                   \union {batch[w][i] : i \in n + 1..Len(batch[w])}
        BY <1>5 DEF WorkerSends
      <3>2. batch[w] \in Seq(Message) /\ delivered \in Seq(Message)
        BY DEF WorkerTypes, HistoryTypes
      <3>3. delivered' \in Seq(Message)
        BY <3>1, <3>2, SendToSet
      <3>4. {batch[w][i] : i \in n + 1..Len(batch[w])} \subseteq Message
        <4>1. {batch[w][i] : i \in n + 1..Len(batch[w])}
                \subseteq ToSet(batch[w])
          BY <3>2, SendToSet
        <4>2. QED  BY <3>2, <4>1, ToSetType
      <3>5. QED  BY <1>5, <3>1, <3>3, <3>4 DEF WorkerSends, HistoryTypes
    <2>3. QED
      BY <1>5, <2>1, <2>2 DEF WorkerSends, channels, controls, pipes
  <1>6. CASE WorkerResumes(w)
    <2>1. WorkerTypes'
      <3>1. /\ <<>> \in Seq(Message) /\ Len(<<>>) = 0
            /\ carry[w] # NoMessage =>
                 <<carry[w]>> \in Seq(Message) /\ Len(<<carry[w]>>) = 1
        BY ToSetOfEmpty, ToSetOfOne DEF WorkerTypes
      <3>2. PICK b \in Seq(Message) : /\ batch' = [batch EXCEPT ![w] = b]
                                      /\ Len(b) <= BatchCap
        <4>1. batch' = [batch EXCEPT ![w] =
                IF carry[w] = NoMessage THEN <<>> ELSE <<carry[w]>>]
          BY <1>6 DEF WorkerResumes
        <4>2. 0 <= BatchCap /\ 1 <= BatchCap  OBVIOUS
        <4>3. CASE carry[w] = NoMessage
          <5>1. batch' = [batch EXCEPT ![w] = <<>>]  BY <4>1, <4>3
          <5>2. QED  BY <3>1, <4>2, <5>1, Zenon
        <4>4. CASE carry[w] # NoMessage
          <5>1. batch' = [batch EXCEPT ![w] = <<carry[w]>>]  BY <4>1, <4>4
          <5>2. QED  BY <3>1, <4>2, <4>4, <5>1, Zenon
        <4>5. QED  BY <4>3, <4>4
      <3>3. \E there \in {"loop", "ended"} :
              worker' = [worker EXCEPT ![w] = there]
        BY <1>6 DEF WorkerResumes
      <3>4. /\ carry' = [carry EXCEPT ![w] = NoMessage] /\ ending' = ending
        BY <1>6 DEF WorkerResumes
      <3>5. QED  BY <3>2, <3>3, <3>4 DEF WorkerTypes
    <2>2. QED
      BY <1>6, <2>1 DEF WorkerResumes, channels, controls, pipes
  <1>7. QED
    BY <1>1, <1>2, <1>3, <1>4, <1>5, <1>6 DEF WorkerStep

LEMMA NextType ==
    ASSUME TypeOK, ControlInv, BlockedInv, [Next]_vars
    PROVE  TypeOK'
  <1>1. CASE Cancel \/ Crash
    <2>1. ControlTypes'
      BY <1>1, TypeParts DEF Cancel, Crash, ControlTypes, channels
    <2>2. UNCHANGED <<pipes, workers, caller, issued, history>>
      BY <1>1 DEF Cancel, Crash, pipes, channels
    <2>3. QED  BY <2>1, <2>2, TypeParts, UnchangedTypes
  <1>2. CASE UNCHANGED vars
    BY <1>2, TypeParts, UnchangedTypes
    DEF vars, channels, controls, pipes
  <1>3. QED
    BY <1>1, <1>2, CallerStepType, ControllerStepType, RunStepType,
       WorkerStepType DEF Next

-----------------------------------------------------------------------------
(* The control: Start, Stop, the dispatcher and the workers. *)

\* What the callers do is no part of it.
LEMMA ControlFrame ==
    ASSUME ControlInv, UNCHANGED <<mtx, started, shutdown, ingressOpen,
                                   queueOpen, dispatcher, held, worker,
                                   controller>>
    PROVE  ControlInv'
  BY DEF ControlInv, AllEnded

LEMMA ControllerStepControl ==
    ASSUME TypeOK, ControlInv, NEW k \in Controllers, ControllerStep(k)
    PROVE  ControlInv'
  <1>1. /\ controller \in [Controllers -> {"idle", "closes", "waits", "panics"}]
        /\ mtx \in Controllers \union {NoOne} /\ NoOne \notin Controllers
        /\ started \in BOOLEAN /\ shutdown \in BOOLEAN
    BY NamesAssumption DEF TypeOK
  <1>2. CASE Start(k)
    <2>1. /\ mtx = NoOne /\ ~started /\ started' = TRUE
          /\ dispatcher' = "spawns" /\ UNCHANGED <<mtx, held, worker, controller>>
      BY <1>2 DEF Start, Free, workers
    <2>2. /\ \A l \in Controllers : controller[l] = "idle"
          /\ dispatcher = "ended" /\ held = NoMessage
          /\ \A w \in Workers : worker[w] = "ended"
      BY <2>1 DEF ControlInv, AllEnded
    <2>3. QED  BY <1>1, <2>1, <2>2 DEF ControlInv
  <1>3. CASE StopReportsDown(k)
    BY <1>1, <1>3 DEF StopReportsDown, ControlInv, AllEnded, Free, channels,
                      workers
  <1>4. CASE StopCloses(k)
    <2>1. CASE shutdown
      <3>1. /\ controller' = [controller EXCEPT ![k] = "panics"]
            /\ UNCHANGED <<mtx, started, shutdown, ingressOpen, queueOpen,
                           dispatcher, held, worker>>
        BY <1>4, <2>1 DEF StopCloses, workers
      <3>2. controller[k] = "closes"  BY <1>4 DEF StopCloses
      <3>3. QED  BY <1>1, <3>1, <3>2 DEF ControlInv, AllEnded
    <2>2. CASE ~shutdown
      <3>1. /\ controller' = [controller EXCEPT ![k] = "waits"]
            /\ mtx' = NoOne /\ shutdown' = TRUE
            /\ UNCHANGED <<started, queueOpen, dispatcher, held, worker>>
        BY <1>4, <2>2 DEF StopCloses, workers
      <3>2. controller[k] = "closes" /\ started
              /\ \A l \in Controllers : controller[l] # "waits"
        BY <1>4, <2>2 DEF StopCloses, ControlInv
      <3>3. QED  BY <1>1, <3>1, <3>2 DEF ControlInv, AllEnded
    <2>3. QED  BY <2>1, <2>2
  <1>5. CASE StopFinishes(k)
    <2>1. /\ controller[k] = "waits" /\ AllEnded /\ mtx = NoOne
          /\ queueOpen' = TRUE /\ ingressOpen' = TRUE /\ started' = FALSE
          /\ controller' = [controller EXCEPT ![k] = "idle"]
          /\ UNCHANGED <<mtx, shutdown, dispatcher, held, worker>>
      BY <1>5 DEF StopFinishes, Free, workers
    <2>2. \A l \in Controllers \ {k} : controller[l] = "idle"
      BY <1>1, <2>1 DEF ControlInv
    <2>3. QED  BY <1>1, <2>1, <2>2 DEF ControlInv, AllEnded
  <1>6. QED  BY <1>2, <1>3, <1>4, <1>5 DEF ControllerStep

LEMMA RunStepControl ==
    ASSUME TypeOK, ControlInv, Run
    PROVE  ControlInv'
  <1>1. started  BY DEF Run, RunSpawns, RunTakes, RunForwards, RunSheds,
                        RunEnds, ControlInv, AllEnded
  <1>2. UNCHANGED <<mtx, started, shutdown, controller>>
    BY DEF Run, RunSpawns, RunTakes, RunForwards, RunSheds, RunEnds, channels
  <1>3. (dispatcher = "forwards" <=> held # NoMessage)'
    <2>1. CASE RunTakes
      <3>1. Head(ingress) \in Message
        BY <2>1, TakeFromSet DEF RunTakes, TypeOK
      <3>2. QED  BY <2>1, <3>1, NoMessageAssumption DEF RunTakes
    <2>2. QED
      BY <2>1 DEF Run, RunSpawns, RunForwards, RunSheds, RunEnds, ControlInv
  <1>4. (dispatcher # "spawns")'
    BY DEF Run, RunSpawns, RunTakes, RunForwards, RunSheds, RunEnds
  <1>5. QED  BY <1>1, <1>2, <1>3, <1>4 DEF ControlInv

LEMMA NextControl ==
    ASSUME TypeOK, ControlInv, [Next]_vars
    PROVE  ControlInv'
  <1>1. ASSUME NEW w \in Workers, WorkerStep(w)  PROVE ControlInv'
    <2>1. worker[w] # "ended" /\ started /\ dispatcher # "spawns"
      BY <1>1 DEF WorkerStep, WorkerTakes, WorkerTicks, WorkerChecksStarted,
           WorkerReportsUp, WorkerLeaves, WorkerFlushes, WorkerSends,
           WorkerResumes, ControlInv, AllEnded
    <2>2. UNCHANGED <<mtx, started, shutdown, controller, dispatcher, held>>
      BY <1>1 DEF WorkerStep, WorkerTakes, WorkerTicks, WorkerChecksStarted,
           WorkerReportsUp, WorkerLeaves, WorkerFlushes, WorkerSends,
           WorkerResumes, channels
    <2>3. QED  BY <2>1, <2>2 DEF ControlInv
  <1>2. ASSUME \/ \E c \in Callers : CallerStep(c)
               \/ Cancel \/ Crash \/ UNCHANGED vars
        PROVE  ControlInv'
    BY <1>2, ControlFrame
    DEF CallerStep, Enqueue, EnqueueUnblocks, Cancel, Crash, vars, channels,
        workers
  <1>3. QED
    BY <1>1, <1>2, ControllerStepControl, RunStepControl DEF Next

LEMMA NextWorker ==
    ASSUME TypeOK, ControlInv, WorkerInv, [Next]_vars
    PROVE  WorkerInv'
  <1>1. ASSUME UNCHANGED workers  PROVE WorkerInv'
    BY <1>1 DEF WorkerInv, workers
  <1>2. CASE RunSpawns  BY <1>2 DEF RunSpawns, WorkerInv
  <1>3. ASSUME NEW w \in Workers, WorkerStep(w)  PROVE WorkerInv'
    <2> USE DEF WorkerInv
    <2>1. /\ worker \in [Workers -> {"loop", "tick", "beat", "flush", "send",
                                     "flushed", "ended"}]
          /\ carry \in [Workers -> Message \union {NoMessage}]
          /\ ending \in [Workers -> BOOLEAN]
      BY DEF TypeOK
    <2>2. CASE WorkerTakes(w)  BY <2>1, <2>2 DEF WorkerTakes
    <2>3. CASE WorkerTicks(w)  BY <2>1, <2>3 DEF WorkerTicks
    <2>4. CASE WorkerChecksStarted(w)  BY <2>1, <2>4 DEF WorkerChecksStarted
    <2>5. CASE WorkerReportsUp(w)  BY <2>1, <2>5 DEF WorkerReportsUp
    <2>6. CASE WorkerLeaves(w)  BY <2>1, <2>6 DEF WorkerLeaves
    <2>7. CASE WorkerFlushes(w)  BY <2>1, <2>7 DEF WorkerFlushes
    <2>8. CASE WorkerSends(w)  BY <2>1, <2>8 DEF WorkerSends
    <2>9. CASE WorkerResumes(w)
      <3>1. /\ carry' = [carry EXCEPT ![w] = NoMessage]
            /\ ending' = ending
            /\ worker' = [worker EXCEPT ![w] =
                 IF ending[w] THEN "ended" ELSE "loop"]
        BY <2>9 DEF WorkerResumes
      <3>2. QED  BY <2>1, <3>1
    <2>10. QED
      BY <1>3, <2>2, <2>3, <2>4, <2>5, <2>6, <2>7, <2>8, <2>9 DEF WorkerStep
  <1>4. QED
    BY <1>1, <1>2, <1>3
    DEF Next, CallerStep, Enqueue, EnqueueUnblocks, ControllerStep, Start,
        StopReportsDown, StopCloses, StopFinishes, Run, RunTakes, RunForwards,
        RunSheds, RunEnds, Cancel, Crash, vars

LEMMA NextBlocked ==
    ASSUME TypeOK, BlockedInv, [Next]_vars
    PROVE  BlockedInv'
  <1> USE DEF BlockedInv
  <1>1. /\ caller \in [Callers -> {"idle", "blocked", "panics"}]
        /\ issued \in [Callers -> 0..MaxMessages]
    BY DEF TypeOK
  <1>2. ASSUME NEW c \in Callers, CallerStep(c)  PROVE BlockedInv'
    <2>1. CASE Enqueue(c)
      <3>1. /\ issued' = [issued EXCEPT ![c] = issued[c] + 1]
            /\ \A d \in Callers \ {c} : caller'[d] = caller[d]
        BY <1>1, <2>1 DEF Enqueue
      <3>2. issued[c] + 1 >= 1  BY <1>1, SizesAssumption
      <3>3. QED  BY <1>1, <3>1, <3>2
    <2>2. CASE EnqueueUnblocks(c)
      BY <1>1, <2>2 DEF EnqueueUnblocks
    <2>3. QED  BY <1>2, <2>1, <2>2 DEF CallerStep
  <1>3. ASSUME NEW k \in Controllers, StopCloses(k)  PROVE BlockedInv'
    BY <1>1, <1>3 DEF StopCloses
  <1>4. ASSUME UNCHANGED <<caller, issued>>  PROVE BlockedInv'
    BY <1>4
  <1>5. QED
    BY <1>2, <1>3, <1>4
    DEF Next, ControllerStep, Start, StopReportsDown, StopFinishes, Run,
        RunSpawns, RunTakes, RunForwards, RunSheds, RunEnds, Cancel, Crash,
        WorkerStep, WorkerTakes, WorkerTicks, WorkerChecksStarted,
        WorkerReportsUp, WorkerLeaves, WorkerFlushes, WorkerSends,
        WorkerResumes, vars

-----------------------------------------------------------------------------
(* The stages.  A step that leaves the variables of a stage alone leaves the *)
(* stage alone.                                                              *)

Stages == AcceptedInv /\ ApartInv /\ OrderInv

LEMMA UnchangedStages ==
    /\ UNCHANGED delivered => Reported' = Reported
    /\ UNCHANGED queue => InQueue' = InQueue
    /\ UNCHANGED held => InHand' = InHand
    /\ UNCHANGED ingress => InIngress' = InIngress
    /\ UNCHANGED <<failed, shed, lost>> => GivenUp' = GivenUp
    /\ UNCHANGED <<caller, issued>> => Accepted' = Accepted
  BY DEF Reported, InQueue, InHand, InIngress, GivenUp, Accepted

LEMMA UnchangedWorkers ==
    ASSUME UNCHANGED <<worker, batch, carry>>
    PROVE  /\ \A w \in Workers : /\ Live(w)' = Live(w)
                                 /\ Carried(w)' = Carried(w)
                                 /\ Unsent(w)' = Unsent(w)
           /\ AtWorkers' = AtWorkers
  BY DEF Live, Carried, Unsent, AtWorkers

\* What the worker w has, and what the others have.
Others(w) == UNION {Unsent(v) : v \in Workers \ {w}}

LEMMA WorkersSplit ==
    ASSUME NEW w \in Workers
    PROVE  /\ AtWorkers = Unsent(w) \union Others(w)
           /\ AtWorkers' = Unsent(w)' \union Others(w)'
           /\ Workers = {w} => Others(w) = {} /\ Others(w)' = {}
           /\ Unsent(w) = Live(w) \union Carried(w)
           /\ Unsent(w)' = Live(w)' \union Carried(w)'
           /\ ApartInv => Unsent(w) \intersect Others(w) = {}
  <1>1. AtWorkers = Unsent(w) \union Others(w)  BY DEF AtWorkers, Others
  <1>2. AtWorkers' = Unsent(w)' \union Others(w)'  BY DEF AtWorkers, Others
  <1>3. Workers = {w} => Others(w) = {} /\ Others(w)' = {}  BY DEF Others
  <1>4. Unsent(w) = Live(w) \union Carried(w)  BY DEF Unsent, Live, Carried
  <1>5. Unsent(w)' = Live(w)' \union Carried(w)'  BY DEF Unsent, Live, Carried
  <1>6. ApartInv => Unsent(w) \intersect Others(w) = {}
    <2>1. ApartInv => \A v \in Workers \ {w} : Unsent(w) \intersect Unsent(v) = {}
      BY DEF ApartInv
    <2>2. QED  BY <2>1 DEF Others
  <1>7. QED  BY <1>1, <1>2, <1>3, <1>4, <1>5, <1>6

\* A step of worker w changes what w has and leaves the others alone.
LEMMA OtherWorkers ==
    ASSUME NEW w \in Workers,
           \A v \in Workers \ {w} : worker'[v] = worker[v]
                                    /\ batch'[v] = batch[v]
                                    /\ carry'[v] = carry[v]
    PROVE  /\ \A v \in Workers \ {w} : /\ Live(v)' = Live(v)
                                       /\ Carried(v)' = Carried(v)
                                       /\ Unsent(v)' = Unsent(v)
           /\ Others(w)' = Others(w)
  <1>1. \A v \in Workers \ {w} : /\ Live(v)' = Live(v)
                                 /\ Carried(v)' = Carried(v)
                                 /\ Unsent(v)' = Unsent(v)
    BY DEF Live, Carried, Unsent
  <1>2. QED  BY <1>1 DEF Others

\* A step that moves no message.
LEMMA StagesFrame ==
    ASSUME Stages,
           Reported' = Reported, InQueue' = InQueue, InHand' = InHand,
           InIngress' = InIngress, GivenUp' = GivenUp, Accepted' = Accepted,
           \A w \in Workers : /\ Live(w)' = Live(w) /\ Carried(w)' = Carried(w)
                              /\ Unsent(w)' = Unsent(w)
                              /\ batch'[w] = batch[w]
                              /\ worker'[w] \notin {"flushed", "ended"} =>
                                   worker[w] \notin {"flushed", "ended"},
           UNCHANGED <<delivered, queue, ingress>>
    PROVE  Stages'
  <1>1. AtWorkers' = AtWorkers  BY DEF AtWorkers
  <1>2. AcceptedInv'  BY <1>1 DEF Stages, AcceptedInv, InPipeline
  <1>3. ApartInv'
    <2>1. ApartInv  BY DEF Stages
    <2>2. (OneToOne(delivered) /\ OneToOne(queue) /\ OneToOne(ingress))'
      BY <2>1 DEF ApartInv
    <2>3. \A w \in Workers :
            worker'[w] \notin {"flushed", "ended"} => OneToOne(batch[w])'
      BY <2>1 DEF ApartInv, OneToOne
    <2>4. QED  BY <1>1, <2>1, <2>2, <2>3 DEF ApartInv
  <1>4. OrderInv'
    <2>1. SUFFICES ASSUME NEW w \in Workers, Workers = {w}
                   PROVE  /\ Before(Reported', Unsent(w)')
                          /\ Before(Live(w)', Carried(w)')
                          /\ Before(Reported' \union Unsent(w)', InQueue')
                          /\ Before(Reported' \union Unsent(w)' \union InQueue',
                                    InHand')
                          /\ Before(Reported' \union Unsent(w)' \union InQueue'
                                      \union InHand', InIngress')
                          /\ worker'[w] \notin {"flushed", "ended"} =>
                               Ordered(batch'[w])
                          /\ Ordered(delivered') /\ Ordered(queue')
                          /\ Ordered(ingress')
      BY DEF OrderInv, Before, Ordered
    <2>2. QED  BY <2>1 DEF Stages, OrderInv
  <1>5. QED  BY <1>2, <1>3, <1>4 DEF Stages

\* A step before the workers: what they and the transport have stays in order
\* and apart, the channels have to be looked at.
LEMMA FrontStages ==
    ASSUME Stages, UNCHANGED <<worker, batch, carry, delivered>>,
           Accepted' = InPipeline' \union GivenUp',
           InQueue' \intersect (Reported \union AtWorkers) = {},
           InHand' \intersect (Reported \union AtWorkers \union InQueue') = {},
           InIngress' \intersect (Reported \union AtWorkers \union InQueue'
                                    \union InHand') = {},
           OneToOne(queue') /\ OneToOne(ingress'),
           ASSUME NEW w \in Workers, Workers = {w}
           PROVE  /\ Before(Reported \union Unsent(w), InQueue')
                  /\ Before(Reported \union Unsent(w) \union InQueue', InHand')
                  /\ Before(Reported \union Unsent(w) \union InQueue'
                              \union InHand', InIngress')
                  /\ Ordered(queue') /\ Ordered(ingress')
    PROVE  Stages'
  <1>1. /\ \A w \in Workers : /\ Live(w)' = Live(w)
                              /\ Carried(w)' = Carried(w)
                              /\ Unsent(w)' = Unsent(w)
        /\ AtWorkers' = AtWorkers /\ Reported' = Reported
    BY UnchangedWorkers, UnchangedStages
  <1>2. AcceptedInv'  BY DEF AcceptedInv
  <1>3. ApartInv'
    <2>1. ApartInv  BY DEF Stages
    <2>2. (OneToOne(delivered) /\ OneToOne(queue) /\ OneToOne(ingress))'
      BY <2>1 DEF ApartInv, OneToOne
    <2>3. \A w \in Workers :
            worker'[w] \notin {"flushed", "ended"} => OneToOne(batch[w])'
      BY <2>1 DEF ApartInv, OneToOne
    <2>4. QED  BY <1>1, <2>1, <2>2, <2>3 DEF ApartInv
  <1>4. OrderInv'
    <2>1. SUFFICES ASSUME NEW w \in Workers, Workers = {w}
                   PROVE  /\ Before(Reported', Unsent(w)')
                          /\ Before(Live(w)', Carried(w)')
                          /\ Before(Reported' \union Unsent(w)', InQueue')
                          /\ Before(Reported' \union Unsent(w)' \union InQueue',
                                    InHand')
                          /\ Before(Reported' \union Unsent(w)' \union InQueue'
                                      \union InHand', InIngress')
                          /\ worker'[w] \notin {"flushed", "ended"} =>
                               Ordered(batch'[w])
                          /\ Ordered(delivered') /\ Ordered(queue')
                          /\ Ordered(ingress')
      BY DEF OrderInv, Before, Ordered
    <2>2. QED  BY <1>1, <2>1 DEF Stages, OrderInv
  <1>5. QED  BY <1>2, <1>3, <1>4 DEF Stages

\* The send of m on the ingress channel succeeded: m is newer than everything
\* its caller got rid of before.
LEMMA OfferStages ==
    ASSUME TypeOK, Stages, NEW m \in Message, m \notin Accepted,
           Accepted' = Accepted \union {m},
           \A n \in Accepted : n.by = m.by => n.seq < m.seq,
           ingress' = Append(ingress, m),
           UNCHANGED <<worker, batch, carry, delivered, queue, held, failed,
                       shed, lost>>
    PROVE  Stages'
  <1>1. /\ InQueue' = InQueue /\ InHand' = InHand /\ GivenUp' = GivenUp
        /\ Reported' = Reported /\ AtWorkers' = AtWorkers
    BY UnchangedStages, UnchangedWorkers
  <1>2. ingress \in Seq(Message)  BY DEF TypeOK
  <1>3. InIngress' = InIngress \union {m}
    BY <1>2, AppendToSet DEF InIngress
  <1>4. InPipeline \union GivenUp = Accepted  BY DEF Stages, AcceptedInv
  <1>5. m \notin InPipeline /\ \A n \in InPipeline : n.by = m.by => n.seq < m.seq
    BY <1>4
  <1>6. InIngress' \intersect (Reported \union AtWorkers \union InQueue'
                                 \union InHand') = {}
    BY <1>1, <1>3, <1>5 DEF Stages, ApartInv, InPipeline
  <1>7. OneToOne(ingress')
    BY <1>2, <1>5, AppendKeeps DEF InPipeline, InIngress, Stages, ApartInv
  <1>8. ASSUME NEW w \in Workers, Workers = {w}
        PROVE  /\ Before(Reported \union Unsent(w), InQueue')
               /\ Before(Reported \union Unsent(w) \union InQueue', InHand')
               /\ Before(Reported \union Unsent(w) \union InQueue'
                           \union InHand', InIngress')
               /\ Ordered(queue') /\ Ordered(ingress')
    <2>1. AtWorkers = Unsent(w)  BY <1>8, WorkersSplit
    <2>2. /\ Before(Reported \union Unsent(w), InQueue)
          /\ Before(Reported \union Unsent(w) \union InQueue, InHand)
          /\ Before(Reported \union Unsent(w) \union InQueue \union InHand,
                    InIngress)
          /\ Ordered(queue) /\ Ordered(ingress)
      BY <1>8 DEF Stages, OrderInv
    <2>3. Before(InPipeline, {m})  BY <1>5 DEF Before
    <2>4. Before(InIngress, {m})  BY <2>3 DEF Before, InPipeline
    <2>5. Before(Reported \union Unsent(w) \union InQueue \union InHand,
                 InIngress \union {m})
      BY <2>1, <2>2, <2>3 DEF Before, InPipeline
    <2>6. Ordered(ingress')
      BY <1>2, <2>2, <2>4, AppendKeeps DEF InIngress
    <2>7. QED  BY <1>1, <1>3, <2>2, <2>5, <2>6
  <1>9. Accepted' = InPipeline' \union GivenUp'
    BY <1>1, <1>3, <1>4 DEF InPipeline
  <1>10. OneToOne(queue')  BY DEF Stages, ApartInv
  <1>11. /\ InQueue' \intersect (Reported \union AtWorkers) = {}
         /\ InHand' \intersect (Reported \union AtWorkers \union InQueue') = {}
    BY <1>1 DEF Stages, ApartInv
  <1>12. QED
    BY <1>6, <1>7, <1>8, <1>9, <1>10, <1>11, FrontStages

LEMMA CallerStepStages ==
    ASSUME TypeOK, BlockedInv, Stages, NEW c \in Callers, CallerStep(c)
    PROVE  Stages'
  <1>1. /\ caller \in [Callers -> {"idle", "blocked", "panics"}]
        /\ issued \in [Callers -> 0..MaxMessages]
    BY DEF TypeOK
  <1>2. \A n \in Message : n.by \in Callers /\ n.seq \in 1..MaxMessages
    BY DEF Message
  <1>3. CASE Enqueue(c)
    <2> DEFINE m == [by |-> c, seq |-> issued[c] + 1]
    <2>1. m \in Message /\ m.by = c /\ m.seq = issued[c] + 1
      <3>1. issued[c] + 1 \in 1..MaxMessages
        BY <1>1, <1>3, SizesAssumption DEF Enqueue
      <3>2. QED  BY <3>1 DEF Message
    <2> HIDE DEF m
    <2>2. caller[c] = "idle" /\ issued' = [issued EXCEPT ![c] = issued[c] + 1]
      BY <1>3 DEF Enqueue
    <2>3. \A n \in Message : n.by = c /\ n.seq = issued[c] + 1 => n = m
      BY <2>1 DEF Message, m
    <2>4. CASE ingress' = Append(ingress, m) /\ UNCHANGED caller
      <3>1. ASSUME NEW n \in Message
            PROVE  n \in Accepted' <=> n \in Accepted \/ n = m
        <4>1. CASE n.by # c
          BY <1>1, <1>2, <2>1, <2>2, <2>4, <4>1 DEF Accepted
        <4>2. CASE n.by = c
          <5>1. n \in Accepted' <=> n.seq <= issued[c] + 1
            BY <1>1, <2>2, <2>4, <4>2 DEF Accepted
          <5>2. n \in Accepted <=> n.seq <= issued[c]
            BY <1>1, <2>2, <4>2 DEF Accepted
          <5>3. n = m <=> n.seq = issued[c] + 1
            BY <2>1, <2>3, <4>2
          <5>4. n.seq \in Nat /\ issued[c] \in Nat
            BY <1>1, <1>2, SizesAssumption
          <5>5. QED  BY <5>1, <5>2, <5>3, <5>4
        <4>3. QED  BY <4>1, <4>2
      <3>2. Accepted' = Accepted \union {m}
        BY <2>1, <3>1 DEF Accepted
      <3>3. ASSUME NEW n \in Accepted, n.by = m.by  PROVE n.seq < m.seq
        <4>1. n \in Message /\ n.seq <= issued[c]
          BY <2>1, <3>3 DEF Accepted
        <4>2. QED  BY <1>1, <1>2, <2>1, <4>1, SizesAssumption
      <3>4. m \notin Accepted
        <4>1. ~(m.seq < m.seq)  BY <1>1, <2>1, SizesAssumption
        <4>2. QED  BY <3>3, <4>1
      <3>5. UNCHANGED <<worker, batch, carry, delivered, queue, held, failed,
                        shed, lost>>
        BY <1>3 DEF Enqueue, workers, history
      <3>6. QED  BY <2>1, <2>4, <3>2, <3>3, <3>4, <3>5, OfferStages
    <2>5. CASE ingress' = ingress
                 /\ \E there \in {"panics", "blocked"} :
                      caller' = [caller EXCEPT ![c] = there]
      <3>1. ASSUME NEW n \in Message
            PROVE  n \in Accepted' <=> n \in Accepted
        <4>1. CASE n.by # c
          BY <1>1, <1>2, <2>2, <2>5, <4>1 DEF Accepted
        <4>2. CASE n.by = c
          <5>1. n \in Accepted' <=> n.seq <= issued[c] + 1
                                      /\ n.seq # issued[c] + 1
            BY <1>1, <2>2, <2>5, <4>2 DEF Accepted
          <5>2. n \in Accepted <=> n.seq <= issued[c]
            BY <1>1, <2>2, <4>2 DEF Accepted
          <5>3. n.seq \in Nat /\ issued[c] \in Nat
            BY <1>1, <1>2, SizesAssumption
          <5>4. QED  BY <5>1, <5>2, <5>3
        <4>3. QED  BY <4>1, <4>2
      <3>2. Accepted' = Accepted  BY <3>1 DEF Accepted
      <3>3. UNCHANGED <<worker, batch, carry, delivered, queue, held, failed,
                        shed, lost>>
        BY <1>3 DEF Enqueue, workers, history
      <3>4. QED
        BY <2>5, <3>2, <3>3, UnchangedStages, UnchangedWorkers, StagesFrame
    <2>6. QED  BY <1>3, <2>4, <2>5 DEF Enqueue, m
  <1>4. CASE EnqueueUnblocks(c)
    <2> DEFINE m == Latest(c)
    <2>1. /\ caller[c] = "blocked" /\ ingress' = Append(ingress, m)
          /\ caller' = [caller EXCEPT ![c] = "idle"] /\ UNCHANGED issued
          /\ UNCHANGED <<worker, batch, carry, delivered, queue, held, failed,
                         shed, lost>>
      BY <1>4 DEF EnqueueUnblocks, workers, history
    <2>2. m \in Message /\ m.by = c /\ m.seq = issued[c]
      BY <2>1, LatestIsMessage, TypeParts DEF Latest
    <2>3. \A n \in Message : n.by = c /\ n.seq = issued[c] => n = m
      BY <2>2 DEF Message, Latest
    <2> HIDE DEF m
    <2>4. ASSUME NEW n \in Message
          PROVE  n \in Accepted' <=> n \in Accepted \/ n = m
      <3>1. CASE n.by # c
        BY <1>1, <1>2, <2>1, <2>2, <3>1 DEF Accepted
      <3>2. CASE n.by = c
        <4>1. n \in Accepted' <=> n.seq <= issued[c]
          BY <1>1, <2>1, <3>2 DEF Accepted
        <4>2. n \in Accepted <=> n.seq <= issued[c] /\ n.seq # issued[c]
          BY <1>1, <2>1, <3>2 DEF Accepted
        <4>3. n = m <=> n.seq = issued[c]  BY <2>2, <2>3, <3>2
        <4>4. n.seq \in Nat /\ issued[c] \in Nat
          BY <1>1, <1>2, SizesAssumption
        <4>5. QED  BY <4>1, <4>2, <4>3, <4>4
      <3>3. QED  BY <3>1, <3>2
    <2>5. Accepted' = Accepted \union {m}  BY <2>2, <2>4 DEF Accepted
    <2>6. ASSUME NEW n \in Accepted, n.by = m.by  PROVE n.seq < m.seq
      <3>1. n \in Message /\ n.seq <= issued[c] /\ n.seq # issued[c]
        BY <2>1, <2>2, <2>6 DEF Accepted
      <3>2. QED  BY <1>1, <1>2, <2>2, <3>1, SizesAssumption
    <2>7. m \notin Accepted
      <3>1. ~(m.seq < m.seq)  BY <1>1, <2>2, SizesAssumption
      <3>2. QED  BY <2>6, <3>1
    <2>8. QED  BY <2>1, <2>2, <2>5, <2>6, <2>7, OfferStages
  <1>5. QED  BY <1>3, <1>4 DEF CallerStep

\* The dispatcher moves one message at a time; what it does not move is given
\* up.
LEMMA RunStages ==
    ASSUME TypeOK, ControlInv, WorkerInv, Stages, Run
    PROVE  Stages'
  <1>1. /\ ingress \in Seq(Message) /\ queue \in Seq(Message)
        /\ held \in Message \union {NoMessage}
    BY DEF TypeOK
  <1>2. CASE RunSpawns
    <2>1. \A w \in Workers : worker[w] = "ended" /\ carry[w] = NoMessage
      BY <1>2 DEF RunSpawns, ControlInv, WorkerInv
    <2>2. ASSUME NEW w \in Workers
          PROVE  /\ Live(w) = {} /\ Carried(w) = {} /\ Unsent(w) = {}
                 /\ Live(w)' = {} /\ Carried(w)' = {} /\ Unsent(w)' = {}
                 /\ OneToOne(batch'[w]) /\ Ordered(batch'[w])
      <3>1. batch'[w] = <<>> /\ carry'[w] = NoMessage  BY <1>2 DEF RunSpawns
      <3>2. QED
        BY <2>1, <3>1, ToSetOfEmpty DEF Live, Carried, Unsent
    <2>3. AtWorkers' = AtWorkers  BY <2>2 DEF AtWorkers
    <2>4. /\ Reported' = Reported /\ InQueue' = InQueue /\ InHand' = InHand
          /\ InIngress' = InIngress /\ GivenUp' = GivenUp
          /\ Accepted' = Accepted /\ UNCHANGED <<delivered, queue, ingress>>
      BY <1>2, UnchangedStages DEF RunSpawns, channels, history
    <2>5. AcceptedInv'
      BY <2>3, <2>4 DEF Stages, AcceptedInv, InPipeline
    <2>6. ApartInv'
      <3>1. (OneToOne(delivered) /\ OneToOne(queue) /\ OneToOne(ingress))'
        BY <2>4 DEF Stages, ApartInv, OneToOne
      <3>2. \A w \in Workers : OneToOne(batch[w])'
        BY <2>2 DEF OneToOne
      <3>3. QED  BY <2>2, <2>3, <2>4, <3>1, <3>2 DEF Stages, ApartInv
    <2>7. OrderInv'
      <3>1. SUFFICES ASSUME NEW w \in Workers, Workers = {w}
                     PROVE  /\ Before(Reported', Unsent(w)')
                            /\ Before(Live(w)', Carried(w)')
                            /\ Before(Reported' \union Unsent(w)', InQueue')
                            /\ Before(Reported' \union Unsent(w)'
                                        \union InQueue', InHand')
                            /\ Before(Reported' \union Unsent(w)'
                                        \union InQueue' \union InHand',
                                      InIngress')
                            /\ Ordered(batch'[w])
                            /\ Ordered(delivered') /\ Ordered(queue')
                            /\ Ordered(ingress')
        BY DEF OrderInv, Before, Ordered
      <3>2. QED  BY <2>2, <2>4, <3>1 DEF Stages, OrderInv
    <2>8. QED  BY <2>5, <2>6, <2>7 DEF Stages
  <1>3. CASE RunTakes
    <2> DEFINE m == Head(ingress)
    <2>1. /\ ingress' = Tail(ingress) /\ held = NoMessage /\ held' = m
          /\ UNCHANGED <<worker, batch, carry, delivered, queue, failed, shed,
                         lost, caller, issued>>
      BY <1>3 DEF RunTakes, ControlInv, workers, history
    <2>2. m \in Message /\ m # NoMessage /\ InIngress = {m} \union InIngress'
      BY <1>1, <1>3, <2>1, TakeFromSet, NoMessageAssumption
      DEF RunTakes, InIngress
    <2>3. InHand = {} /\ InHand' = {m}  BY <2>1, <2>2 DEF InHand
    <2>4. /\ OneToOne(ingress') /\ m \notin InIngress'
          /\ Ordered(ingress) =>
               Ordered(ingress') /\ Before({m}, InIngress')
      BY <1>1, <1>3, <2>1, TakeKeeps
      DEF RunTakes, Stages, ApartInv, InIngress
    <2> HIDE DEF m
    <2>5. /\ InQueue' = InQueue /\ GivenUp' = GivenUp /\ Accepted' = Accepted
          /\ Reported' = Reported /\ AtWorkers' = AtWorkers
      BY <2>1, UnchangedStages, UnchangedWorkers
    <2>6. Accepted' = InPipeline' \union GivenUp'
      BY <2>2, <2>3, <2>5 DEF Stages, AcceptedInv, InPipeline
    <2>7. /\ InQueue' \intersect (Reported \union AtWorkers) = {}
          /\ InHand' \intersect (Reported \union AtWorkers \union InQueue') = {}
          /\ InIngress' \intersect (Reported \union AtWorkers \union InQueue'
                                      \union InHand') = {}
      BY <2>2, <2>3, <2>4, <2>5 DEF Stages, ApartInv
    <2>8. OneToOne(queue')  BY <2>1 DEF Stages, ApartInv
    <2>9. ASSUME NEW w \in Workers, Workers = {w}
          PROVE  /\ Before(Reported \union Unsent(w), InQueue')
                 /\ Before(Reported \union Unsent(w) \union InQueue', InHand')
                 /\ Before(Reported \union Unsent(w) \union InQueue'
                             \union InHand', InIngress')
                 /\ Ordered(queue') /\ Ordered(ingress')
      <3>1. /\ Before(Reported \union Unsent(w), InQueue)
            /\ Before(Reported \union Unsent(w) \union InQueue \union InHand,
                      InIngress)
            /\ Ordered(queue) /\ Ordered(ingress)
        BY <2>9 DEF Stages, OrderInv
      <3>2. Before({m}, InIngress')  BY <2>4, <3>1
      <3>3. Before(Reported \union Unsent(w) \union InQueue', InHand')
        BY <2>2, <2>3, <2>5, <3>1 DEF Before
      <3>4. Before(Reported \union Unsent(w) \union InQueue' \union InHand',
                   InIngress')
        BY <2>2, <2>3, <2>5, <3>1, <3>2 DEF Before
      <3>5. QED  BY <2>1, <2>4, <2>5, <3>1, <3>3, <3>4
    <2>10. QED
      BY <2>1, <2>4, <2>6, <2>7, <2>8, <2>9, FrontStages
  <1>4. CASE RunForwards
    <2>1. /\ held \in Message /\ held # NoMessage /\ held' = NoMessage
          /\ queue' = Append(queue, held)
          /\ UNCHANGED <<worker, batch, carry, delivered, ingress, failed, shed,
                         lost, caller, issued>>
      BY <1>1, <1>4 DEF RunForwards, ControlInv, workers, history
    <2>2. InHand = {held} /\ InHand' = {}  BY <2>1 DEF InHand
    <2>3. InQueue' = InQueue \union {held}
      BY <1>1, <2>1, AppendToSet DEF InQueue
    <2>4. /\ InIngress' = InIngress /\ GivenUp' = GivenUp
          /\ Accepted' = Accepted /\ Reported' = Reported
          /\ AtWorkers' = AtWorkers
      BY <2>1, UnchangedStages, UnchangedWorkers
    <2>5. Accepted' = InPipeline' \union GivenUp'
      BY <2>2, <2>3, <2>4 DEF Stages, AcceptedInv, InPipeline
    <2>6. /\ InQueue' \intersect (Reported \union AtWorkers) = {}
          /\ InHand' \intersect (Reported \union AtWorkers \union InQueue') = {}
          /\ InIngress' \intersect (Reported \union AtWorkers \union InQueue'
                                      \union InHand') = {}
      BY <2>2, <2>3, <2>4 DEF Stages, ApartInv
    <2>7. OneToOne(ingress')  BY <2>1 DEF Stages, ApartInv
    <2>8. OneToOne(queue')
      <3>1. OneToOne(queue) /\ held \notin InQueue
        BY <2>2 DEF Stages, ApartInv
      <3>2. QED  BY <1>1, <2>1, <3>1, AppendKeeps DEF InQueue
    <2>9. ASSUME NEW w \in Workers, Workers = {w}
          PROVE  /\ Before(Reported \union Unsent(w), InQueue')
                 /\ Before(Reported \union Unsent(w) \union InQueue', InHand')
                 /\ Before(Reported \union Unsent(w) \union InQueue'
                             \union InHand', InIngress')
                 /\ Ordered(queue') /\ Ordered(ingress')
      <3>1. /\ Before(Reported \union Unsent(w), InQueue)
            /\ Before(Reported \union Unsent(w) \union InQueue, InHand)
            /\ Before(Reported \union Unsent(w) \union InQueue \union InHand,
                      InIngress)
            /\ Ordered(queue) /\ Ordered(ingress)
        BY <2>9 DEF Stages, OrderInv
      <3>2. Before(Reported \union Unsent(w), InQueue')
        BY <2>2, <2>3, <3>1 DEF Before
      <3>3. Before(Reported \union Unsent(w) \union InQueue', InHand')
        BY <2>2 DEF Before
      <3>4. Before(Reported \union Unsent(w) \union InQueue' \union InHand',
                   InIngress')
        BY <2>2, <2>3, <2>4, <3>1 DEF Before
      <3>5. Ordered(queue')
        <4>1. Before(InQueue, {held})  BY <2>2, <3>1 DEF Before
        <4>2. QED  BY <1>1, <2>1, <3>1, <4>1, AppendKeeps DEF InQueue
      <3>6. QED  BY <2>1, <3>1, <3>2, <3>3, <3>4, <3>5
    <2>10. QED
      BY <2>1, <2>5, <2>6, <2>7, <2>8, <2>9, FrontStages
  <1>5. CASE RunSheds \/ RunEnds
    <2>1. /\ held' = NoMessage
          /\ UNCHANGED <<worker, batch, carry, delivered, ingress, queue,
                         caller, issued>>
      BY <1>5 DEF RunSheds, RunEnds, channels, workers
    <2>2. GivenUp' = GivenUp \union InHand
      <3>1. CASE RunSheds
        <4>1. held # NoMessage  BY <3>1 DEF RunSheds, ControlInv
        <4>2. QED  BY <3>1, <4>1 DEF RunSheds, GivenUp, InHand
      <3>2. CASE RunEnds  BY <3>2 DEF RunEnds, GivenUp, InHand
      <3>3. QED  BY <1>5, <3>1, <3>2
    <2>3. InHand' = {}  BY <2>1 DEF InHand
    <2>4. /\ InIngress' = InIngress /\ InQueue' = InQueue
          /\ Accepted' = Accepted /\ Reported' = Reported
          /\ AtWorkers' = AtWorkers
      BY <2>1, UnchangedStages, UnchangedWorkers
    <2>5. Accepted' = InPipeline' \union GivenUp'
      BY <2>2, <2>3, <2>4 DEF Stages, AcceptedInv, InPipeline
    <2>6. /\ InQueue' \intersect (Reported \union AtWorkers) = {}
          /\ InHand' \intersect (Reported \union AtWorkers \union InQueue') = {}
          /\ InIngress' \intersect (Reported \union AtWorkers \union InQueue'
                                      \union InHand') = {}
      BY <2>3, <2>4 DEF Stages, ApartInv
    <2>7. OneToOne(ingress') /\ OneToOne(queue')
      BY <2>1 DEF Stages, ApartInv
    <2>8. ASSUME NEW w \in Workers, Workers = {w}
          PROVE  /\ Before(Reported \union Unsent(w), InQueue')
                 /\ Before(Reported \union Unsent(w) \union InQueue', InHand')
                 /\ Before(Reported \union Unsent(w) \union InQueue'
                             \union InHand', InIngress')
                 /\ Ordered(queue') /\ Ordered(ingress')
      <3>1. /\ Before(Reported \union Unsent(w), InQueue)
            /\ Before(Reported \union Unsent(w) \union InQueue \union InHand,
                      InIngress)
            /\ Ordered(queue) /\ Ordered(ingress)
        BY <2>8 DEF Stages, OrderInv
      <3>2. QED  BY <2>1, <2>3, <2>4, <3>1 DEF Before
    <2>9. QED
      BY <2>1, <2>5, <2>6, <2>7, <2>8, FrontStages
  <1>6. QED  BY <1>2, <1>3, <1>4, <1>5 DEF Run

\* A step of worker w: it takes from the queue, hands to the transport and
\* gives up, and what is behind the queue stays behind.
LEMMA BackStages ==
    ASSUME Stages, NEW w \in Workers,
           \A v \in Workers \ {w} : worker'[v] = worker[v]
                                    /\ batch'[v] = batch[v]
                                    /\ carry'[v] = carry[v],
           UNCHANGED <<held, ingress, caller, issued>>,
           Reported' \union Unsent(w)' \union InQueue' \union GivenUp'
             = Reported \union Unsent(w) \union InQueue \union GivenUp,
           Reported' \union Unsent(w)' \union InQueue'
             \subseteq Reported \union Unsent(w) \union InQueue,
           Reported' \intersect Unsent(w)' = {},
           InQueue' \intersect (Reported' \union Unsent(w)') = {},
           Live(w)' \intersect Carried(w)' = {},
           worker'[w] \notin {"flushed", "ended"} => OneToOne(batch'[w]),
           OneToOne(delivered') /\ OneToOne(queue'),
           Workers = {w} =>
             /\ Before(Reported', Unsent(w)')
             /\ Before(Live(w)', Carried(w)')
             /\ Before(Reported' \union Unsent(w)', InQueue')
             /\ worker'[w] \notin {"flushed", "ended"} => Ordered(batch'[w])
             /\ Ordered(delivered') /\ Ordered(queue')
    PROVE  Stages'
  <1>1. /\ InHand' = InHand /\ InIngress' = InIngress /\ Accepted' = Accepted
    BY UnchangedStages
  <1>2. /\ \A v \in Workers \ {w} : /\ Live(v)' = Live(v)
                                    /\ Carried(v)' = Carried(v)
                                    /\ Unsent(v)' = Unsent(v)
        /\ Others(w)' = Others(w)
    BY OtherWorkers
  <1>3. /\ AtWorkers = Unsent(w) \union Others(w)
        /\ AtWorkers' = Unsent(w)' \union Others(w)
        /\ Workers = {w} => Others(w) = {}
        /\ Unsent(w) \intersect Others(w) = {}
    BY <1>2, WorkersSplit DEF Stages
  <1>4. AcceptedInv'
    BY <1>1, <1>3 DEF Stages, AcceptedInv, InPipeline
  <1>5. ApartInv'
    <2>1. (Reported \union Unsent(w) \union InQueue) \intersect Others(w) = {}
      BY <1>3 DEF Stages, ApartInv
    <2>2. /\ Reported' \intersect AtWorkers' = {}
          /\ InQueue' \intersect (Reported' \union AtWorkers') = {}
      BY <1>3, <2>1
    <2>3. /\ InHand' \intersect (Reported' \union AtWorkers' \union InQueue') = {}
          /\ InIngress' \intersect (Reported' \union AtWorkers' \union InQueue'
                                      \union InHand') = {}
      BY <1>1, <1>3 DEF Stages, ApartInv
    <2>4. ASSUME NEW u \in Workers, NEW v \in Workers, u # v
          PROVE  Unsent(u)' \intersect Unsent(v)' = {}
      <3>1. CASE u # w /\ v # w  BY <1>2, <2>4, <3>1 DEF Stages, ApartInv
      <3>2. \A x \in Workers \ {w} : Unsent(x) \subseteq Others(w)
        BY DEF Others
      <3>3. Unsent(w)' \intersect Others(w) = {}  BY <2>1
      <3>4. QED  BY <1>2, <2>4, <3>1, <3>2, <3>3
    <2>5. ASSUME NEW v \in Workers
          PROVE  /\ Live(v)' \intersect Carried(v)' = {}
                 /\ worker'[v] \notin {"flushed", "ended"} => OneToOne(batch'[v])
      <3>1. CASE v = w  BY <3>1
      <3>2. CASE v # w  BY <1>2, <3>2 DEF Stages, ApartInv
      <3>3. QED  BY <3>1, <3>2
    <2>6. OneToOne(ingress')  BY DEF Stages, ApartInv
    <2>7. QED
      BY <2>2, <2>3, <2>4, <2>5, <2>6 DEF ApartInv, OneToOne
  <1>6. OrderInv'
    <2>1. SUFFICES ASSUME NEW v \in Workers, Workers = {v}
                   PROVE  /\ Before(Reported', Unsent(v)')
                          /\ Before(Live(v)', Carried(v)')
                          /\ Before(Reported' \union Unsent(v)', InQueue')
                          /\ Before(Reported' \union Unsent(v)' \union InQueue',
                                    InHand')
                          /\ Before(Reported' \union Unsent(v)' \union InQueue'
                                      \union InHand', InIngress')
                          /\ worker'[v] \notin {"flushed", "ended"} =>
                               Ordered(batch'[v])
                          /\ Ordered(delivered') /\ Ordered(queue')
                          /\ Ordered(ingress')
      BY DEF OrderInv, Before, Ordered
    <2>2. v = w  BY <2>1
    <2>3. /\ Before(Reported \union Unsent(w) \union InQueue, InHand)
          /\ Before(Reported \union Unsent(w) \union InQueue \union InHand,
                    InIngress)
          /\ Ordered(ingress)
      BY <2>1, <2>2 DEF Stages, OrderInv
    <2>4. Before(Reported' \union Unsent(w)' \union InQueue', InHand')
      BY <1>1, <2>3 DEF Before
    <2>5. Before(Reported' \union Unsent(w)' \union InQueue' \union InHand',
                 InIngress')
      BY <1>1, <2>3 DEF Before
    <2>6. QED  BY <2>1, <2>2, <2>3, <2>4, <2>5
  <1>7. QED  BY <1>4, <1>5, <1>6 DEF Stages

\* What Stages says of worker w, of the queue and of the transport.
LEMMA BackOf ==
    ASSUME TypeOK, Stages, NEW w \in Workers
    PROVE  /\ batch[w] \in Seq(Message) /\ queue \in Seq(Message)
           /\ delivered \in Seq(Message)
           /\ carry[w] \in Message \union {NoMessage}
           /\ Unsent(w) = Live(w) \union Carried(w)
           /\ Unsent(w)' = Live(w)' \union Carried(w)'
           /\ Reported \intersect Unsent(w) = {}
           /\ InQueue \intersect (Reported \union Unsent(w)) = {}
           /\ Live(w) \intersect Carried(w) = {}
           /\ OneToOne(delivered) /\ OneToOne(queue)
           /\ worker[w] \notin {"flushed", "ended"} => OneToOne(batch[w])
           /\ Workers = {w} =>
                /\ Before(Reported, Unsent(w))
                /\ Before(Live(w), Carried(w))
                /\ Before(Reported \union Unsent(w), InQueue)
                /\ worker[w] \notin {"flushed", "ended"} => Ordered(batch[w])
                /\ Ordered(delivered) /\ Ordered(queue)
  <1>1. /\ batch[w] \in Seq(Message) /\ queue \in Seq(Message)
        /\ delivered \in Seq(Message)
        /\ carry[w] \in Message \union {NoMessage}
    BY DEF TypeOK
  <1>2. /\ AtWorkers = Unsent(w) \union Others(w)
        /\ Unsent(w) = Live(w) \union Carried(w)
        /\ Unsent(w)' = Live(w)' \union Carried(w)'
    BY WorkersSplit
  <1>3. /\ Reported \intersect Unsent(w) = {}
        /\ InQueue \intersect (Reported \union Unsent(w)) = {}
        /\ Live(w) \intersect Carried(w) = {}
        /\ OneToOne(delivered) /\ OneToOne(queue)
        /\ worker[w] \notin {"flushed", "ended"} => OneToOne(batch[w])
    BY <1>2 DEF Stages, ApartInv
  <1>4. Workers = {w} =>
          /\ Before(Reported, Unsent(w))
          /\ Before(Live(w), Carried(w))
          /\ Before(Reported \union Unsent(w), InQueue)
          /\ worker[w] \notin {"flushed", "ended"} => Ordered(batch[w])
          /\ Ordered(delivered) /\ Ordered(queue)
    BY DEF Stages, OrderInv
  <1>5. QED  BY <1>1, <1>2, <1>3, <1>4

LEMMA TakesStages ==
    ASSUME TypeOK, WorkerInv, Stages, NEW w \in Workers, WorkerTakes(w)
    PROVE  Stages'
  <1> DEFINE m == Head(queue)
  <1>1. /\ worker[w] = "loop" /\ carry[w] = NoMessage /\ queue # <<>>
        /\ queue' = Tail(queue)
        /\ UNCHANGED <<held, ingress, caller, issued, delivered, failed, shed,
                       lost>>
    BY DEF WorkerTakes, WorkerInv, history
  <1>2. /\ batch \in [Workers -> Seq(Message)]
        /\ carry \in [Workers -> Message \union {NoMessage}]
        /\ worker \in [Workers -> {"loop", "tick", "beat", "flush", "send",
                                   "flushed", "ended"}]
    BY DEF TypeOK
  <1>3. /\ m \in Message /\ m # NoMessage /\ InQueue = {m} \union InQueue'
        /\ OneToOne(queue') /\ m \notin InQueue'
        /\ Ordered(queue) => Ordered(queue') /\ Before({m}, InQueue')
    <2>1. queue \in Seq(Message) /\ OneToOne(queue)  BY BackOf
    <2>2. m \in Message /\ ToSet(queue) = {m} \union ToSet(Tail(queue))
      BY <1>1, <2>1, TakeFromSet
    <2>3. /\ OneToOne(Tail(queue)) /\ m \notin ToSet(Tail(queue))
          /\ Ordered(queue) =>
               Ordered(Tail(queue)) /\ Before({m}, ToSet(Tail(queue)))
      BY <1>1, <2>1, TakeKeeps
    <2>4. m # NoMessage  BY <2>2, NoMessageAssumption
    <2>5. QED  BY <1>1, <2>2, <2>3, <2>4 DEF InQueue
  <1> HIDE DEF m
  <1>4. Live(w) = ToSet(batch[w]) /\ Carried(w) = {}
    BY <1>1 DEF Live, Carried
  <1>5. Reported' = Reported /\ GivenUp' = GivenUp
    BY <1>1, UnchangedStages
  <1>6. \A v \in Workers \ {w} : /\ worker'[v] = worker[v]
                                 /\ batch'[v] = batch[v]
                                 /\ carry'[v] = carry[v]
    BY <1>2 DEF WorkerTakes
  <1>7. \/ /\ batch'[w] = Append(batch[w], m)
           /\ worker'[w] = "loop" /\ carry'[w] = NoMessage
        \/ /\ batch'[w] = batch[w] /\ carry'[w] = m
           /\ worker'[w] = "flush"
    BY <1>1, <1>2 DEF WorkerTakes, m
  <1>8. \/ /\ Live(w)' = Live(w) \union {m} /\ Carried(w)' = {}
           /\ OneToOne(batch'[w])
           /\ Workers = {w} => Ordered(batch'[w])
        \/ /\ Live(w)' = Live(w) /\ Carried(w)' = {m}
           /\ OneToOne(batch'[w])
           /\ Workers = {w} => Ordered(batch'[w])
    <2>1. /\ batch[w] \in Seq(Message) /\ OneToOne(batch[w])
          /\ m \notin Live(w)
          /\ Workers = {w} => Ordered(batch[w]) /\ Before(Live(w), {m})
      BY <1>1, <1>3, BackOf DEF Before
    <2>2. CASE /\ batch'[w] = Append(batch[w], m)
               /\ worker'[w] = "loop" /\ carry'[w] = NoMessage
      <3>1. Live(w)' = Live(w) \union {m} /\ Carried(w)' = {}
        BY <1>3, <1>4, <2>1, <2>2, AppendToSet DEF Live, Carried
      <3>2. OneToOne(batch'[w]) /\ (Workers = {w} => Ordered(batch'[w]))
        BY <1>3, <1>4, <2>1, <2>2, AppendKeeps
      <3>3. QED  BY <3>1, <3>2
    <2>3. CASE /\ batch'[w] = batch[w] /\ carry'[w] = m
               /\ worker'[w] = "flush"
      <3>1. Live(w)' = Live(w) /\ Carried(w)' = {m}
        BY <1>3, <1>4, <2>3 DEF Live, Carried
      <3>2. QED  BY <2>1, <2>3, <3>1
    <2>4. QED  BY <1>7, <2>2, <2>3
  <1>9. /\ Unsent(w) = Live(w) /\ Unsent(w)' = Live(w) \union {m}
        /\ Live(w)' \intersect Carried(w)' = {}
        /\ Workers = {w} => Before(Live(w)', Carried(w)')
    <2>1. Unsent(w) = Live(w) /\ Unsent(w)' = Live(w) \union {m}
      BY <1>4, <1>8, WorkersSplit
    <2>2. /\ InQueue \intersect Unsent(w) = {}
          /\ Workers = {w} => Before(Unsent(w), InQueue)
      <3>1. /\ InQueue \intersect (Reported \union Unsent(w)) = {}
            /\ Workers = {w} => Before(Reported \union Unsent(w), InQueue)
        BY BackOf
      <3>2. QED  BY <3>1 DEF Before
    <2>3. Live(w)' \intersect Carried(w)' = {}
      BY <1>3, <1>8, <2>1, <2>2
    <2>4. Workers = {w} => Before(Live(w)', Carried(w)')
      BY <1>3, <1>8, <2>1, <2>2 DEF Before
    <2>5. QED  BY <2>1, <2>3, <2>4
  <1>10. /\ Reported' \union Unsent(w)' \union InQueue' \union GivenUp'
              = Reported \union Unsent(w) \union InQueue \union GivenUp
         /\ Reported' \union Unsent(w)' \union InQueue'
              \subseteq Reported \union Unsent(w) \union InQueue
    BY <1>3, <1>5, <1>9
  <1>11. /\ Reported' \intersect Unsent(w)' = {}
         /\ InQueue' \intersect (Reported' \union Unsent(w)') = {}
    BY <1>3, <1>5, <1>9, BackOf
  <1>12. Workers = {w} => /\ Before(Reported', Unsent(w)')
                          /\ Before(Reported' \union Unsent(w)', InQueue')
                          /\ Ordered(queue')
    BY <1>3, <1>5, <1>9, BackOf DEF Before
  <1>13. /\ OneToOne(delivered')
         /\ Workers = {w} => Ordered(delivered')
    BY <1>1, BackOf
  <1>14. QED
    BY <1>1, <1>3, <1>6, <1>8, <1>9, <1>10, <1>11, <1>12, <1>13, BackStages

LEMMA SendsStages ==
    ASSUME TypeOK, WorkerInv, Stages, NEW w \in Workers, WorkerSends(w)
    PROVE  Stages'
  <1>1. PICK n \in 0..Len(batch[w]) :
          /\ delivered' = delivered \o SubSeq(batch[w], 1, n)
          /\ failed' = failed \union {batch[w][i] : i \in n + 1..Len(batch[w])}
    BY DEF WorkerSends
  <1> DEFINE sent == {batch[w][i] : i \in 1..n}
             unsent == {batch[w][i] : i \in n + 1..Len(batch[w])}
  <1>2. /\ worker[w] = "send" /\ worker' = [worker EXCEPT ![w] = "flushed"]
        /\ UNCHANGED <<held, ingress, queue, caller, issued, batch, carry, shed,
                       lost>>
    BY DEF WorkerSends, channels
  <1>3. worker \in [Workers -> {"loop", "tick", "beat", "flush", "send",
                                "flushed", "ended"}]
    BY DEF TypeOK
  <1>4. /\ \A v \in Workers \ {w} : /\ worker'[v] = worker[v]
                                    /\ batch'[v] = batch[v]
                                    /\ carry'[v] = carry[v]
        /\ worker'[w] = "flushed"
    BY <1>2, <1>3
  <1>5. /\ Live(w) = ToSet(batch[w]) /\ Live(w)' = {}
        /\ Carried(w)' = Carried(w)
    BY <1>2, <1>4 DEF Live, Carried
  <1>6. batch[w] \in Seq(Message) /\ delivered \in Seq(Message)
    BY BackOf
  <1>7. Live(w) = sent \union unsent /\ Reported' = Reported \union sent
    <2>1. ToSet(delivered \o SubSeq(batch[w], 1, n)) = ToSet(delivered) \union sent
      BY <1>6, SendToSet
    <2>2. ToSet(batch[w]) = sent \union unsent
      BY <1>6 DEF ToSet
    <2>3. QED  BY <1>1, <1>5, <2>1, <2>2 DEF Reported
  <1>8. GivenUp' = GivenUp \union unsent
    BY <1>1, <1>2 DEF GivenUp
  <1>9. /\ OneToOne(delivered')
        /\ Workers = {w} => Ordered(delivered')
    <2>1. /\ OneToOne(delivered) /\ OneToOne(batch[w])
          /\ ToSet(delivered) \intersect ToSet(batch[w]) = {}
      <3>1. OneToOne(delivered) /\ OneToOne(batch[w])
        BY <1>2, BackOf
      <3>2. /\ Reported \intersect Unsent(w) = {}
            /\ Unsent(w) = Live(w) \union Carried(w)
        BY BackOf
      <3>3. QED  BY <1>5, <3>1, <3>2 DEF Reported
    <2>2. Workers = {w} => /\ Ordered(delivered) /\ Ordered(batch[w])
                           /\ Before(ToSet(delivered), ToSet(batch[w]))
      BY <1>2, <1>5, BackOf DEF Reported, Before
    <2>3. QED  BY <1>1, <1>6, <2>1, <2>2, SendKeeps
  <1> HIDE DEF sent, unsent
  <1>10. InQueue' = InQueue  BY <1>2, UnchangedStages
  <1>11. /\ Unsent(w) = sent \union unsent \union Carried(w)
         /\ Unsent(w)' = Carried(w)
    BY <1>5, <1>7, BackOf
  <1>12. /\ Reported' \union Unsent(w)' \union InQueue' \union GivenUp'
              = Reported \union Unsent(w) \union InQueue \union GivenUp
         /\ Reported' \union Unsent(w)' \union InQueue'
              \subseteq Reported \union Unsent(w) \union InQueue
    BY <1>7, <1>8, <1>10, <1>11
  <1>13. /\ Reported' \intersect Unsent(w)' = {}
         /\ InQueue' \intersect (Reported' \union Unsent(w)') = {}
         /\ Live(w)' \intersect Carried(w)' = {}
    <2>1. /\ Reported \intersect Unsent(w) = {}
          /\ InQueue \intersect (Reported \union Unsent(w)) = {}
          /\ Live(w) \intersect Carried(w) = {}
      BY BackOf
    <2>2. QED  BY <1>5, <1>7, <1>10, <1>11, <2>1
  <1>14. Workers = {w} => /\ Before(Reported', Unsent(w)')
                          /\ Before(Live(w)', Carried(w)')
                          /\ Before(Reported' \union Unsent(w)', InQueue')
    BY <1>5, <1>7, <1>10, <1>11, BackOf DEF Before
  <1>15. OneToOne(queue') /\ (Workers = {w} => Ordered(queue'))
    BY <1>2, BackOf
  <1>16. QED
    BY <1>2, <1>4, <1>9, <1>12, <1>13, <1>14, <1>15, BackStages

LEMMA ResumesStages ==
    ASSUME TypeOK, WorkerInv, Stages, NEW w \in Workers, WorkerResumes(w)
    PROVE  Stages'
  <1>1. /\ worker[w] = "flushed"
        /\ worker' = [worker EXCEPT ![w] =
             IF ending[w] THEN "ended" ELSE "loop"]
        /\ batch' = [batch EXCEPT ![w] =
             IF carry[w] = NoMessage THEN <<>> ELSE <<carry[w]>>]
        /\ carry' = [carry EXCEPT ![w] = NoMessage]
        /\ UNCHANGED <<held, ingress, queue, caller, issued, delivered, failed,
                       shed, lost>>
    BY DEF WorkerResumes, channels, history
  <1>2. /\ batch \in [Workers -> Seq(Message)]
        /\ carry \in [Workers -> Message \union {NoMessage}]
        /\ worker \in [Workers -> {"loop", "tick", "beat", "flush", "send",
                                   "flushed", "ended"}]
    BY DEF TypeOK
  <1>3. \A v \in Workers \ {w} : /\ worker'[v] = worker[v]
                                 /\ batch'[v] = batch[v]
                                 /\ carry'[v] = carry[v]
    BY <1>1, <1>2
  <1>4. carry'[w] = NoMessage /\ Carried(w)' = {} /\ Live(w) = {}
    BY <1>1, <1>2 DEF Carried, Live
  <1>5. /\ Live(w)' = Carried(w)
        /\ OneToOne(batch'[w]) /\ Ordered(batch'[w])
    <2>1. CASE carry[w] = NoMessage
      <3>1. batch'[w] = <<>>  BY <1>1, <1>2, <2>1
      <3>2. QED  BY <2>1, <3>1, ToSetOfEmpty DEF Live, Carried
    <2>2. CASE carry[w] # NoMessage
      <3>1. batch'[w] = <<carry[w]>>  BY <1>1, <1>2, <2>2
      <3>2. ~ending[w]  BY <2>2 DEF WorkerInv
      <3>3. worker'[w] = "loop"  BY <1>1, <1>2, <3>2
      <3>4. ToSet(batch'[w]) = {carry[w]} /\ OneToOne(batch'[w])
              /\ Ordered(batch'[w])
        BY <1>2, <2>2, <3>1, ToSetOfOne
      <3>5. QED  BY <2>2, <3>3, <3>4 DEF Live, Carried
    <2>3. QED  BY <2>1, <2>2
  <1>6. Unsent(w)' = Unsent(w)
    <2>1. /\ Unsent(w) = Live(w) \union Carried(w)
          /\ Unsent(w)' = Live(w)' \union Carried(w)'
      BY WorkersSplit
    <2>2. QED  BY <1>4, <1>5, <2>1
  <1>7. Reported' = Reported /\ GivenUp' = GivenUp /\ InQueue' = InQueue
    BY <1>1, UnchangedStages
  <1>8. /\ Reported' \intersect Unsent(w)' = {}
        /\ InQueue' \intersect (Reported' \union Unsent(w)') = {}
        /\ Live(w)' \intersect Carried(w)' = {}
        /\ OneToOne(delivered') /\ OneToOne(queue')
    BY <1>1, <1>4, <1>6, <1>7, BackOf
  <1>9. Workers = {w} =>
          /\ Before(Reported', Unsent(w)')
          /\ Before(Live(w)', Carried(w)')
          /\ Before(Reported' \union Unsent(w)', InQueue')
          /\ Ordered(delivered') /\ Ordered(queue')
    BY <1>1, <1>4, <1>6, <1>7, BackOf DEF Before
  <1>10. QED
    BY <1>1, <1>3, <1>5, <1>6, <1>7, <1>8, <1>9, BackStages

\* Stop gives up what the two channels still hold.
LEMMA FinishesStages ==
    ASSUME TypeOK, Stages, NEW k \in Controllers, StopFinishes(k)
    PROVE  Stages'
  <1>1. /\ queue' = <<>> /\ ingress' = <<>>
        /\ lost' = lost \union ToSet(ingress) \union ToSet(queue)
        /\ UNCHANGED <<worker, batch, carry, delivered, held, caller, issued,
                       failed, shed>>
    BY DEF StopFinishes, workers
  <1>2. /\ InQueue' = {} /\ InIngress' = {}
        /\ OneToOne(queue') /\ OneToOne(ingress')
        /\ Ordered(queue') /\ Ordered(ingress')
    BY <1>1, ToSetOfEmpty DEF InQueue, InIngress
  <1>3. GivenUp' = GivenUp \union InIngress \union InQueue
    BY <1>1 DEF GivenUp, InIngress, InQueue
  <1>4. /\ InHand' = InHand /\ Accepted' = Accepted /\ Reported' = Reported
        /\ AtWorkers' = AtWorkers
    BY <1>1, UnchangedStages, UnchangedWorkers
  <1>5. Accepted' = InPipeline' \union GivenUp'
    BY <1>2, <1>3, <1>4 DEF Stages, AcceptedInv, InPipeline
  <1>6. /\ InQueue' \intersect (Reported \union AtWorkers) = {}
        /\ InHand' \intersect (Reported \union AtWorkers \union InQueue') = {}
        /\ InIngress' \intersect (Reported \union AtWorkers \union InQueue'
                                    \union InHand') = {}
    BY <1>2, <1>4 DEF Stages, ApartInv
  <1>7. ASSUME NEW w \in Workers, Workers = {w}
        PROVE  /\ Before(Reported \union Unsent(w), InQueue')
               /\ Before(Reported \union Unsent(w) \union InQueue', InHand')
               /\ Before(Reported \union Unsent(w) \union InQueue'
                           \union InHand', InIngress')
               /\ Ordered(queue') /\ Ordered(ingress')
    <2>1. Before(Reported \union Unsent(w) \union InQueue, InHand)
      BY <1>7 DEF Stages, OrderInv
    <2>2. QED  BY <1>2, <1>4, <2>1 DEF Before
  <1>8. QED  BY <1>1, <1>2, <1>5, <1>6, <1>7, FrontStages

\* The steps that move no message.
LEMMA StillStages ==
    ASSUME TypeOK, Stages,
           \/ \E k \in Controllers :
                Start(k) \/ StopReportsDown(k) \/ StopCloses(k)
           \/ Cancel \/ Crash \/ UNCHANGED vars
    PROVE  Stages'
  <1>1. Accepted' = Accepted
    <2>1. ASSUME NEW k \in Controllers, StopCloses(k)
          PROVE  /\ UNCHANGED issued
                 /\ \A c \in Callers : caller'[c] # "idle" <=> caller[c] # "idle"
      BY <2>1 DEF StopCloses, TypeOK
    <2>2. \A m \in Message : m.by \in Callers  BY DEF Message
    <2>3. CASE \E k \in Controllers : StopCloses(k)
      BY <2>1, <2>2, <2>3 DEF Accepted
    <2>4. CASE UNCHANGED <<caller, issued>>  BY <2>4, UnchangedStages
    <2>5. QED
      BY <2>3, <2>4 DEF Start, StopReportsDown, Cancel, Crash, vars
  <1>2. UNCHANGED <<worker, batch, carry, delivered, queue, held, ingress,
                    failed, shed, lost>>
    BY DEF Start, StopReportsDown, StopCloses, Cancel, Crash, vars, channels,
           workers, history
  <1>3. QED  BY <1>1, <1>2, UnchangedStages, UnchangedWorkers, StagesFrame

LEMMA WorkerStages ==
    ASSUME TypeOK, WorkerInv, Stages, NEW w \in Workers, WorkerStep(w)
    PROVE  Stages'
  <1>1. CASE WorkerTakes(w)  BY <1>1, TakesStages
  <1>2. CASE WorkerSends(w)  BY <1>2, SendsStages
  <1>3. CASE WorkerResumes(w)  BY <1>3, ResumesStages
  <1>4. CASE \/ WorkerTicks(w) \/ WorkerChecksStarted(w) \/ WorkerReportsUp(w)
             \/ WorkerLeaves(w) \/ WorkerFlushes(w)
    <2>1. UNCHANGED <<batch, carry, delivered, queue, held, ingress, failed,
                      shed, lost, caller, issued>>
      BY <1>4 DEF WorkerTicks, WorkerChecksStarted, WorkerReportsUp,
                  WorkerLeaves, WorkerFlushes, channels, history
    <2>2. worker[w] \in {"loop", "tick", "beat", "flush"}
      BY <1>4 DEF WorkerTicks, WorkerChecksStarted, WorkerReportsUp,
                  WorkerLeaves, WorkerFlushes
    <2>3. /\ worker'[w] \notin {"flushed", "ended"} \/ batch[w] = <<>>
          /\ \A v \in Workers \ {w} : worker'[v] = worker[v]
      BY <1>4 DEF TypeOK, WorkerTicks, WorkerChecksStarted, WorkerReportsUp,
                  WorkerLeaves, WorkerFlushes
    <2>4. \A v \in Workers : Carried(v)' = Carried(v)
      BY <2>1 DEF Carried
    <2>5. \A v \in Workers : Live(v)' = Live(v)
      <3>1. Live(w)' = Live(w)
        BY <2>1, <2>2, <2>3, ToSetOfEmpty DEF Live
      <3>2. \A v \in Workers \ {w} : Live(v)' = Live(v)
        BY <2>1, <2>3 DEF Live
      <3>3. QED  BY <3>1, <3>2
    <2>6. \A v \in Workers : Unsent(v)' = Unsent(v)
      BY <2>4, <2>5, WorkersSplit
    <2>7. \A v \in Workers :
            worker'[v] \notin {"flushed", "ended"} =>
              worker[v] \notin {"flushed", "ended"}
      BY <2>2, <2>3
    <2>8. QED
      BY <2>1, <2>4, <2>5, <2>6, <2>7, UnchangedStages, StagesFrame
  <1>5. QED  BY <1>1, <1>2, <1>3, <1>4 DEF WorkerStep

LEMMA NextStages ==
    ASSUME TypeOK, ControlInv, WorkerInv, BlockedInv, Stages, [Next]_vars
    PROVE  Stages'
  <1>1. ASSUME NEW k \in Controllers, ControllerStep(k)  PROVE Stages'
    BY <1>1, FinishesStages, StillStages DEF ControllerStep
  <1>2. QED
    BY <1>1, CallerStepStages, RunStages, WorkerStages, StillStages DEF Next

-----------------------------------------------------------------------------
(* The theorems. *)

LEMMA Inductive == Spec => []IInv
  <1>1. IInv /\ [Next]_vars => IInv'
    <2>1. SUFFICES ASSUME IInv, [Next]_vars  PROVE IInv'
      OBVIOUS
    <2>2. TypeOK /\ ControlInv /\ WorkerInv /\ BlockedInv /\ Stages
      BY <2>1 DEF IInv, Stages
    <2>3. TypeOK'  BY <2>1, <2>2, NextType
    <2>4. ControlInv'  BY <2>1, <2>2, NextControl
    <2>5. WorkerInv'  BY <2>1, <2>2, NextWorker
    <2>6. BlockedInv'  BY <2>1, <2>2, NextBlocked
    <2>7. Stages'  BY <2>1, <2>2, NextStages
    <2>8. QED  BY <2>3, <2>4, <2>5, <2>6, <2>7 DEF IInv, Stages
  <1>2. QED  BY <1>1, InitIInv, PTL DEF Spec

\* Every variable keeps its type; the two channels never hold more than their
\* capacity and a batch never grows beyond what was allocated for it.
THEOREM ProcessorTypeCorrect == Spec => []TypeOK
  <1>1. IInv => TypeOK  BY DEF IInv
  <1>2. QED  BY <1>1, Inductive, PTL

\* A message whose send on the ingress channel succeeded never disappears from
\* a running pipeline: it is in a channel, in the dispatcher's hand, with a
\* worker or with the transport, or it was given up in one of the ways the
\* code names (queue full, refused by the transport, shut down).
THEOREM NoMessageVanishes == Spec => []NothingVanishes
  <1>1. IInv => NothingVanishes
    <2>1. SUFFICES ASSUME IInv, NEW m \in Accepted
                   PROVE  m \in Underway \union ToSet(delivered) \union failed
                                  \union shed \union lost
      BY DEF NothingVanishes
    <2>2. m \in InPipeline \union GivenUp
      BY <2>1 DEF IInv, AcceptedInv
    <2>3. QED
      BY <2>2 DEF InPipeline, GivenUp, Underway, Reported, AtWorkers, InQueue,
                  InHand, InIngress
  <1>2. QED  BY <1>1, Inductive, PTL

\* The transport gets no message twice, and none it got is still on its way to
\* it, however many workers share the queue.
THEOREM NoMessageTwice == Spec => []NothingTwice
  <1>1. IInv => NothingTwice
    <2>1. SUFFICES ASSUME IInv  PROVE NothingTwice
      OBVIOUS
    <2>2. OneToOne(delivered) /\ delivered \in Seq(Message)
      BY <2>1 DEF IInv, ApartInv, TypeOK
    <2>3. \A i, j \in DOMAIN delivered : i # j => delivered[i] # delivered[j]
      BY <2>2 DEF OneToOne
    <2>4. Underway = InIngress \union InQueue \union InHand \union AtWorkers
      BY DEF Underway, InIngress, InQueue, InHand, AtWorkers
    <2>5. Reported \intersect Underway = {}
      BY <2>1, <2>4 DEF IInv, ApartInv
    <2>6. QED  BY <2>3, <2>5 DEF NothingTwice, Reported
  <1>2. QED  BY <1>1, Inductive, PTL

\* A processor that is not started has ended all goroutines of its last life
\* and has fresh, open channels: Start needs to look at nothing but the flag.
THEOREM StoppedProcessorIsReusable == Spec => []StoppedIsReusable
  <1>1. IInv => StoppedIsReusable
    BY DEF IInv, ControlInv, StoppedIsReusable, AllEnded
  <1>2. QED  BY <1>1, Inductive, PTL

\* With one worker the transport sees the messages of a caller in the order
\* they were made, whatever was shed, refused or lost between them and however
\* often the processor was stopped and started.
THEOREM OneWorkerIsInOrder == Spec => []OneWorkerKeepsOrder
  <1>1. IInv => OneWorkerKeepsOrder
    <2>1. SUFFICES ASSUME IInv, Cardinality(Workers) = 1,
                          NEW i \in DOMAIN delivered, NEW j \in DOMAIN delivered,
                          i < j, delivered[i].by = delivered[j].by
                   PROVE  delivered[i].seq < delivered[j].seq
      BY DEF OneWorkerKeepsOrder
    <2>2. PICK w : Workers = {w}
      BY <2>1, WorkersAssumption, FS_Singleton
    <2>3. Ordered(delivered) /\ delivered \in Seq(Message)
      BY <2>1, <2>2 DEF IInv, OrderInv, TypeOK
    <2>4. QED  BY <2>1, <2>3 DEF Ordered
  <1>2. QED  BY <1>1, Inductive, PTL

=============================================================================
