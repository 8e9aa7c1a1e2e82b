------------------------- MODULE MetricsProcessor -------------------------
(***************************************************************************)
(* metrics/processor.go: the pipeline every metric goes through.  A        *)
(* metric's Set/Add puts a message on the ingress channel, the dispatcher  *)
(* (run) forwards it to the message queue, the workers (processWorker)     *)
(* collect messages into batches and hand them to the transport; Start and *)
(* Stop open and close the pipeline and may be called again.               *)
(*                                                                         *)
(* Go's channels are modelled by a sequence and an "open" flag.  A send on *)
(* a closed channel and a close of a closed channel panic, which ends the  *)
(* program: nothing happens after `crashed`.                               *)
(*                                                                         *)
(* Left out: tags, the registry (MetricMap); sampling and derived metrics  *)
(* are those of DerivedMetrics.                                            *)
(***************************************************************************)
EXTENDS Naturals, Sequences, FiniteSets, SequencesExt

CONSTANTS
    Callers,        \* goroutines of the game server that set metrics
    Controllers,    \* goroutines that call Start and Stop
    Workers,        \* processWorker goroutines (maxWorkers of them)
    NoOne,          \* nobody holds mtx
    NoMessage,      \* no message is held
    IngressSize,    \* capacity of ingressChannel
    BufferSize,     \* capacity of messageQueue
    BatchCap,       \* capacity of a worker's batch (1024 in the code)
    MaxMessages,    \* bound: messages per caller
    MaxStarts,      \* bound: successful calls of Start
    Cancellable     \* whether the context given to Start can be cancelled

ASSUME SizesAssumption ==
    /\ IngressSize \in Nat \ {0} /\ BufferSize \in Nat \ {0}
    /\ BatchCap \in Nat \ {0} /\ MaxMessages \in Nat /\ MaxStarts \in Nat
    /\ Cancellable \in BOOLEAN
ASSUME NamesAssumption == NoOne \notin Controllers
\* maxWorkers is an int.
ASSUME WorkersAssumption == IsFiniteSet(Workers)

Message == [by : Callers, seq : 1..MaxMessages]
ASSUME NoMessageAssumption == NoMessage \notin Message

VARIABLES
    mtx,            \* who holds p.mtx across a blocking step
    started,        \* p.started
    shutdown,       \* p.shutdown has been closed
    cancelled,      \* the context given to Start is done
    ingress,        \* contents of p.ingressChannel
    ingressOpen,
    queue,          \* contents of p.messageQueue
    queueOpen,
    dispatcher,     \* where run is
    held,           \* the message run took from ingress
    worker,         \* where each processWorker is
    batch,          \* its messages
    carry,          \* the message that did not fit its batch
    ending,         \* it returns after the flush it is in
    caller,         \* where each caller is
    issued,         \* messages each caller has made
    controller,     \* where each controller is
    crashed,        \* a goroutine panicked
    starts,         \* history: successful calls of Start
    up,             \* history: the last "up" value given to the transport
    delivered,      \* history: what the transport accepted, in order
    shed,           \* history: dropped because the queue was full
    failed,         \* history: given to a Send that returned an error
    lost            \* history: still in the pipeline when it shut down

channels == <<ingress, ingressOpen, queue, queueOpen, shutdown, cancelled>>
workers == <<worker, batch, carry, ending>>
history == <<starts, up, delivered, shed, failed, lost>>
vars == <<mtx, started, channels, dispatcher, held, workers, caller, issued,
          controller, crashed, history>>

Free == mtx = NoOne
Stopping == shutdown \/ cancelled

Init ==
    /\ mtx = NoOne /\ started = FALSE
    /\ shutdown = FALSE /\ cancelled = FALSE
    /\ ingress = <<>> /\ ingressOpen = TRUE
    /\ queue = <<>> /\ queueOpen = TRUE
    /\ dispatcher = "ended" /\ held = NoMessage
    /\ worker = [w \in Workers |-> "ended"]
    /\ batch = [w \in Workers |-> <<>>]
    /\ carry = [w \in Workers |-> NoMessage]
    /\ ending = [w \in Workers |-> FALSE]
    /\ caller = [c \in Callers |-> "idle"]
    /\ issued = [c \in Callers |-> 0]
    /\ controller = [k \in Controllers |-> "idle"]
    /\ crashed = FALSE /\ starts = 0
    /\ up = 0 /\ delivered = <<>>
    /\ shed = {} /\ failed = {} /\ lost = {}

-----------------------------------------------------------------------------
(* Callers: enqueueMetric is a plain channel send. *)

Latest(c) == [by |-> c, seq |-> issued[c]]

\* A caller makes a message and sends it: the send panics on a closed
\* channel, succeeds when there is room, and blocks otherwise.
Enqueue(c) ==
    LET m == [by |-> c, seq |-> issued[c] + 1] IN
    /\ caller[c] = "idle" /\ issued[c] < MaxMessages
    /\ issued' = [issued EXCEPT ![c] = @ + 1]
    /\ \/ /\ ~ingressOpen
          /\ caller' = [caller EXCEPT ![c] = "panics"]
          /\ UNCHANGED ingress
       \/ /\ ingressOpen /\ Len(ingress) < IngressSize
          /\ ingress' = Append(ingress, m)
          /\ UNCHANGED caller
       \/ /\ ingressOpen /\ Len(ingress) = IngressSize
          /\ caller' = [caller EXCEPT ![c] = "blocked"]
          /\ UNCHANGED ingress
    /\ UNCHANGED <<mtx, started, shutdown, cancelled, ingressOpen, queue,
                   queueOpen, dispatcher, held, workers, controller, crashed,
                   history>>

\* A blocked send completes once there is room.
EnqueueUnblocks(c) ==
    /\ caller[c] = "blocked" /\ Len(ingress) < IngressSize
    /\ ingress' = Append(ingress, Latest(c))
    /\ caller' = [caller EXCEPT ![c] = "idle"]
    /\ UNCHANGED <<mtx, started, shutdown, cancelled, ingressOpen, queue,
                   queueOpen, dispatcher, held, workers, issued, controller,
                   crashed, history>>

\* A panic in any goroutine ends the program.
Crash ==
    /\ \/ \E c \in Callers : caller[c] = "panics"
       \/ \E k \in Controllers : controller[k] = "panics"
    /\ crashed' = TRUE
    /\ UNCHANGED <<mtx, started, channels, dispatcher, held, workers, caller,
                   issued, controller, history>>

-----------------------------------------------------------------------------
(* Start and Stop. *)

\* Start: an error when already started; otherwise a new shutdown channel and
\* the dispatcher.  The critical section does not block.
Start(k) ==
    /\ controller[k] = "idle" /\ Free /\ ~started /\ starts < MaxStarts
    /\ started' = TRUE /\ shutdown' = FALSE /\ cancelled' = FALSE
    /\ dispatcher' = "spawns" /\ starts' = starts + 1
    /\ UNCHANGED <<mtx, ingress, ingressOpen, queue, queueOpen, held, workers,
                   caller, issued, controller, crashed, up, delivered, shed,
                   failed, lost>>

\* The context given to Start is cancelled by its owner.
Cancel ==
    /\ Cancellable /\ started /\ ~cancelled
    /\ cancelled' = TRUE
    /\ UNCHANGED <<mtx, started, shutdown, ingress, ingressOpen, queue,
                   queueOpen, dispatcher, held, workers, caller, issued,
                   controller, crashed, history>>

\* Stop takes mtx and, when started, sends up=0 while holding it.
StopReportsDown(k) ==
    /\ controller[k] = "idle" /\ Free /\ started
    /\ mtx' = k
    /\ up' = 0
    /\ controller' = [controller EXCEPT ![k] = "closes"]
    /\ UNCHANGED <<started, channels, dispatcher, held, workers, caller,
                   issued, crashed, starts, delivered, shed, failed, lost>>

(* Mutant: stop keeps mtx while it waits. *)
StopClosesKeepsLock(k) ==
    /\ controller[k] = "closes" /\ ~shutdown
    /\ shutdown' = TRUE /\ ingressOpen' = FALSE
    /\ caller' = [c \in Callers |->
         IF caller[c] = "blocked" THEN "panics" ELSE caller[c]]
    /\ controller' = [controller EXCEPT ![k] = "waits"]
    /\ UNCHANGED <<mtx, started, cancelled, ingress, queue, queueOpen,
                   dispatcher, held, workers, issued, crashed, history>>

\* Stop closes shutdown and ingressChannel and releases mtx.  A caller
\* blocked on the channel panics; closing it a second time panics here.
StopCloses(k) ==
    /\ controller[k] = "closes"
    /\ IF shutdown
       THEN /\ controller' = [controller EXCEPT ![k] = "panics"]
            /\ UNCHANGED <<mtx, shutdown, ingressOpen, caller>>
       ELSE /\ shutdown' = TRUE /\ ingressOpen' = FALSE
            /\ caller' = [c \in Callers |->
                 IF caller[c] = "blocked" THEN "panics" ELSE caller[c]]
            /\ mtx' = NoOne
            /\ controller' = [controller EXCEPT ![k] = "waits"]
    /\ UNCHANGED <<started, cancelled, ingress, queue, queueOpen, dispatcher,
                   held, workers, issued, crashed, history>>

AllEnded == dispatcher = "ended" /\ \A w \in Workers : worker[w] = "ended"

(* Mutant: stop does not make a new ingress channel. *)
StopFinishesKeepsIngress(k) ==
    /\ controller[k] = "waits" /\ AllEnded /\ Free
    /\ queue' = <<>> /\ queueOpen' = TRUE
    /\ ingress' = <<>> /\ ingressOpen' = FALSE
    /\ lost' = lost \union ToSet(ingress) \union ToSet(queue)
    /\ started' = FALSE
    /\ controller' = [controller EXCEPT ![k] = "idle"]
    /\ UNCHANGED <<mtx, shutdown, cancelled, dispatcher, held, workers, caller,
                   issued, crashed, starts, up, delivered, shed, failed>>

\* wg.Wait returned: Stop takes mtx again, makes fresh channels, closes the
\* transport and is done.  What the old channels held is gone.
StopFinishes(k) ==
    /\ controller[k] = "waits" /\ AllEnded /\ Free
    /\ queue' = <<>> /\ queueOpen' = TRUE
    /\ ingress' = <<>> /\ ingressOpen' = TRUE
    /\ lost' = lost \union ToSet(ingress) \union ToSet(queue)
    /\ started' = FALSE
    /\ controller' = [controller EXCEPT ![k] = "idle"]
    /\ UNCHANGED <<mtx, shutdown, cancelled, dispatcher, held, workers, caller,
                   issued, crashed, starts, up, delivered, shed, failed>>

-----------------------------------------------------------------------------
(* run: the dispatcher. *)

RunSpawns ==
    /\ dispatcher = "spawns"
    /\ dispatcher' = "loop"
    /\ worker' = [w \in Workers |-> "loop"]
    /\ batch' = [w \in Workers |-> <<>>]
    /\ carry' = [w \in Workers |-> NoMessage]
    /\ ending' = [w \in Workers |-> FALSE]
    /\ UNCHANGED <<mtx, started, channels, held, caller, issued, controller,
                   crashed, history>>

\* A message is ready on ingress.
RunTakes ==
    /\ dispatcher = "loop" /\ ingress # <<>>
    /\ held' = Head(ingress) /\ ingress' = Tail(ingress)
    /\ dispatcher' = "forwards"
    /\ UNCHANGED <<mtx, started, shutdown, cancelled, ingressOpen, queue,
                   queueOpen, workers, caller, issued, controller, crashed,
                   history>>

\* The inner select: queue the message when there is room ...
RunForwards ==
    /\ dispatcher = "forwards" /\ Len(queue) < BufferSize
    /\ queue' = Append(queue, held) /\ held' = NoMessage
    /\ dispatcher' = "loop"
    /\ UNCHANGED <<mtx, started, shutdown, cancelled, ingress, ingressOpen,
                   queueOpen, workers, caller, issued, controller, crashed,
                   history>>

\* ... or, by its default case, drop it silently when nothing is ready.
RunSheds ==
    /\ dispatcher = "forwards" /\ Len(queue) = BufferSize /\ ~Stopping
    /\ shed' = shed \union {held} /\ held' = NoMessage
    /\ dispatcher' = "loop"
    /\ UNCHANGED <<mtx, started, channels, workers, caller, issued, controller,
                   crashed, starts, up, delivered, failed, lost>>

\* Shutdown, a cancelled context or a closed, empty ingress channel: close
\* the queue and return; a held message is lost.
RunEnds ==
    /\ \/ dispatcher \in {"loop", "forwards"} /\ Stopping
       \/ dispatcher = "loop" /\ ingress = <<>> /\ ~ingressOpen
    /\ queueOpen' = FALSE
    /\ held' = NoMessage /\ lost' = lost \union ({held} \ {NoMessage})
    /\ dispatcher' = "ended"
    /\ UNCHANGED <<mtx, started, shutdown, cancelled, ingress, ingressOpen,
                   queue, workers, caller, issued, controller, crashed, starts,
                   up, delivered, shed, failed>>

-----------------------------------------------------------------------------
(* processWorker. *)

(* Mutant: the full batch is not flushed before the next message is appended. *)
WorkerTakesAlways(w) ==
    /\ worker[w] = "loop" /\ queue # <<>>
    /\ queue' = Tail(queue)
    /\ batch' = [batch EXCEPT ![w] = Append(@, Head(queue))]
    /\ UNCHANGED <<mtx, started, shutdown, cancelled, ingress, ingressOpen,
                   queueOpen, dispatcher, held, worker, carry, ending, caller,
                   issued, controller, crashed, history>>

(* Mutant: the message that did not fit goes ahead of its batch. *)
WorkerTakesAhead(w) ==
    /\ worker[w] = "loop" /\ queue # <<>>
    /\ queue' = Tail(queue)
    /\ \/ /\ Len(batch[w]) < BatchCap
          /\ batch' = [batch EXCEPT ![w] = Append(@, Head(queue))]
          /\ UNCHANGED <<worker, carry>>
       \/ /\ Len(batch[w]) = BatchCap
          /\ carry' = [carry EXCEPT ![w] = Head(batch[w])]
          /\ batch' = [batch EXCEPT ![w] = Append(Tail(@), Head(queue))]
          /\ worker' = [worker EXCEPT ![w] = "flush"]
    /\ UNCHANGED <<mtx, started, shutdown, cancelled, ingress, ingressOpen,
                   queueOpen, dispatcher, held, ending, caller, issued,
                   controller, crashed, history>>

\* A message is ready: append it, or flush first when the batch is full.
WorkerTakes(w) ==
    /\ worker[w] = "loop" /\ queue # <<>>
    /\ queue' = Tail(queue)
    /\ \/ /\ Len(batch[w]) < BatchCap
          /\ batch' = [batch EXCEPT ![w] = Append(@, Head(queue))]
          /\ UNCHANGED <<worker, carry>>
       \/ /\ Len(batch[w]) = BatchCap
          /\ carry' = [carry EXCEPT ![w] = Head(queue)]
          /\ worker' = [worker EXCEPT ![w] = "flush"]
          /\ UNCHANGED batch
    /\ UNCHANGED <<mtx, started, shutdown, cancelled, ingress, ingressOpen,
                   queueOpen, dispatcher, held, ending, caller, issued,
                   controller, crashed, history>>

\* The ticker fires: sendServerUpHeartbeat first, which wants mtx.
WorkerTicks(w) ==
    /\ worker[w] = "loop"
    /\ worker' = [worker EXCEPT ![w] = "tick"]
    /\ UNCHANGED <<mtx, started, channels, dispatcher, held, batch, carry,
                   ending, caller, issued, controller, crashed, history>>

(* Mutant: a worker does not flush when its ticker fires. *)
WorkerChecksStartedOnly(w) ==
    /\ worker[w] = "tick" /\ Free
    /\ worker' = [worker EXCEPT ![w] = "loop"]
    /\ UNCHANGED <<mtx, started, channels, dispatcher, held, batch, carry,
                   ending, caller, issued, controller, crashed, history>>

\* It reads `started` under mtx and releases mtx before it sends.
WorkerChecksStarted(w) ==
    /\ worker[w] = "tick" /\ Free
    /\ worker' = [worker EXCEPT ![w] = IF started THEN "beat" ELSE "flush"]
    /\ UNCHANGED <<mtx, started, channels, dispatcher, held, batch, carry,
                   ending, caller, issued, controller, crashed, history>>

WorkerReportsUp(w) ==
    /\ worker[w] = "beat"
    /\ up' = 1
    /\ worker' = [worker EXCEPT ![w] = "flush"]
    /\ UNCHANGED <<mtx, started, channels, dispatcher, held, batch, carry,
                   ending, caller, issued, controller, crashed, starts,
                   delivered, shed, failed, lost>>

\* Shutdown, a cancelled context or a closed, empty queue: one last flush.
WorkerLeaves(w) ==
    /\ worker[w] = "loop"
    /\ Stopping \/ (queue = <<>> /\ ~queueOpen)
    /\ ending' = [ending EXCEPT ![w] = TRUE]
    /\ worker' = [worker EXCEPT ![w] = "flush"]
    /\ UNCHANGED <<mtx, started, channels, dispatcher, held, batch, carry,
                   caller, issued, controller, crashed, history>>

\* flushMessages: nothing to do for an empty batch; otherwise the tags and the
\* derived metrics are read under mtx before the send.
WorkerFlushes(w) ==
    /\ worker[w] = "flush" /\ (batch[w] # <<>> => Free)
    /\ worker' = [worker EXCEPT ![w] =
         IF batch[w] # <<>> THEN "send" ELSE "flushed"]
    /\ UNCHANGED <<mtx, started, channels, dispatcher, held, batch, carry,
                   ending, caller, issued, controller, crashed, history>>

\* Transport.Send accepts the messages one by one and stops at the first
\* error (metrics/transport.go); the rest of the batch is not sent again.
WorkerSends(w) ==
    /\ worker[w] = "send"
    /\ \E n \in 0..Len(batch[w]) :
         /\ delivered' = delivered \o SubSeq(batch[w], 1, n)
         /\ failed' = failed \union {batch[w][i] : i \in n + 1..Len(batch[w])}
    /\ worker' = [worker EXCEPT ![w] = "flushed"]
    /\ UNCHANGED <<mtx, started, channels, dispatcher, held, batch, carry,
                   ending, caller, issued, controller, crashed, starts, up,
                   shed, lost>>

(* Mutant: the batch is not emptied after the flush. *)
WorkerResumesKeepsBatch(w) ==
    /\ worker[w] = "flushed"
    /\ batch' = [batch EXCEPT ![w] =
         IF carry[w] = NoMessage THEN @ ELSE <<carry[w]>>]
    /\ carry' = [carry EXCEPT ![w] = NoMessage]
    /\ worker' = [worker EXCEPT ![w] = IF ending[w] THEN "ended" ELSE "loop"]
    /\ UNCHANGED <<mtx, started, channels, dispatcher, held, ending, caller,
                   issued, controller, crashed, history>>

(* Mutant: the message that did not fit is forgotten. *)
WorkerResumesForgetsCarry(w) ==
    /\ worker[w] = "flushed"
    /\ batch' = [batch EXCEPT ![w] = <<>>]
    /\ carry' = [carry EXCEPT ![w] = NoMessage]
    /\ worker' = [worker EXCEPT ![w] = IF ending[w] THEN "ended" ELSE "loop"]
    /\ UNCHANGED <<mtx, started, channels, dispatcher, held, ending, caller,
                   issued, controller, crashed, history>>

\* After the flush: return, or empty the batch and append what did not fit.
WorkerResumes(w) ==
    /\ worker[w] = "flushed"
    /\ batch' = [batch EXCEPT ![w] =
         IF carry[w] = NoMessage THEN <<>> ELSE <<carry[w]>>]
    /\ carry' = [carry EXCEPT ![w] = NoMessage]
    /\ worker' = [worker EXCEPT ![w] = IF ending[w] THEN "ended" ELSE "loop"]
    /\ UNCHANGED <<mtx, started, channels, dispatcher, held, ending, caller,
                   issued, controller, crashed, history>>

-----------------------------------------------------------------------------
CallerStep(c) == Enqueue(c) \/ EnqueueUnblocks(c)
ControllerStep(k) ==
    Start(k) \/ StopReportsDown(k) \/ StopCloses(k) \/ StopFinishes(k)
Run == RunSpawns \/ RunTakes \/ RunForwards \/ RunSheds \/ RunEnds
WorkerStep(w) ==
    \/ WorkerTakes(w) \/ WorkerTicks(w) \/ WorkerChecksStarted(w)
    \/ WorkerReportsUp(w) \/ WorkerLeaves(w) \/ WorkerFlushes(w)
    \/ WorkerSends(w) \/ WorkerResumes(w)

Next ==
    /\ ~crashed
    /\ \/ \E c \in Callers : CallerStep(c)
       \/ \E k \in Controllers : ControllerStep(k)
       \/ Run \/ Cancel \/ Crash
       \/ \E w \in Workers : WorkerStep(w)

Spec == Init /\ [][Next]_vars

\* Every goroutine runs.  A select with several ready cases picks one at
\* random, so a case that is ready over and over is taken in the end.
FairSpec ==
    /\ Spec
    /\ WF_vars(~crashed /\ Run)
    /\ \A c \in Callers : WF_vars(~crashed /\ EnqueueUnblocks(c))
    /\ \A k \in Controllers :
         WF_vars(~crashed /\ (StopCloses(k) \/ StopFinishes(k)))
    /\ \A w \in Workers :
         /\ WF_vars(~crashed /\ WorkerStep(w))
         /\ SF_vars(~crashed /\ WorkerTakes(w))
         /\ SF_vars(~crashed /\ WorkerLeaves(w))

-----------------------------------------------------------------------------
(* Properties. *)

\* Every variable has its type; a channel never exceeds its capacity, a batch
\* never grows beyond what was allocated (processor.go:534 and 568).
TypeOK ==
    /\ mtx \in Controllers \union {NoOne}
    /\ started \in BOOLEAN /\ shutdown \in BOOLEAN /\ cancelled \in BOOLEAN
    /\ ingressOpen \in BOOLEAN /\ queueOpen \in BOOLEAN /\ crashed \in BOOLEAN
    /\ ingress \in Seq(Message) /\ Len(ingress) <= IngressSize
    /\ queue \in Seq(Message) /\ Len(queue) <= BufferSize
    /\ dispatcher \in {"spawns", "loop", "forwards", "ended"}
    /\ held \in Message \union {NoMessage}
    /\ worker \in [Workers -> {"loop", "tick", "beat", "flush", "send",
                               "flushed", "ended"}]
    /\ batch \in [Workers -> Seq(Message)]
    /\ \A w \in Workers : Len(batch[w]) <= BatchCap
    /\ carry \in [Workers -> Message \union {NoMessage}]
    /\ ending \in [Workers -> BOOLEAN]
    /\ caller \in [Callers -> {"idle", "blocked", "panics"}]
    /\ issued \in [Callers -> 0..MaxMessages]
    /\ controller \in [Controllers -> {"idle", "closes", "waits", "panics"}]
    /\ starts \in 0..MaxStarts /\ up \in {0, 1}
    /\ delivered \in Seq(Message)
    /\ shed \subseteq Message /\ failed \subseteq Message /\ lost \subseteq Message

\* Messages worker w still has to hand to the transport.
Unsent(w) ==
    (IF worker[w] \in {"flushed", "ended"} THEN {} ELSE ToSet(batch[w]))
        \union ({carry[w]} \ {NoMessage})

Underway ==
    ToSet(ingress) \union ToSet(queue) \union ({held} \ {NoMessage})
        \union UNION {Unsent(w) : w \in Workers}

\* Messages whose send on the ingress channel succeeded.
Accepted ==
    {m \in Message : m.seq <= issued[m.by]
                     /\ ~(caller[m.by] # "idle" /\ m.seq = issued[m.by])}

\* No message a caller got rid of vanishes inside a running pipeline: it is
\* underway, delivered, refused by the transport, dropped because the queue
\* was full (processor.go:518) or was there when the pipeline shut down.  It
\* goes through two channels, ten workers and three kinds of flush.
NothingVanishes ==
    \A m \in Accepted :
        m \in Underway \union ToSet(delivered) \union failed \union shed
                \union lost

\* No message is reported twice: what was delivered is neither delivered
\* again nor still underway (a batch is emptied after every flush but the
\* last, processor.go:559 and 573).
NothingTwice ==
    /\ \A i, j \in DOMAIN delivered : i # j => delivered[i] # delivered[j]
    /\ ToSet(delivered) \intersect Underway = {}

\* With one worker (WithMaxWorkers(1)) the transport sees the messages of a
\* caller in the order the caller made them, across overflows, restarts and
\* losses.  With more workers it need not, and a gauge may end at an old value.
OneWorkerKeepsOrder ==
    Cardinality(Workers) = 1 =>
        \A i, j \in DOMAIN delivered :
            i < j /\ delivered[i].by = delivered[j].by
                => delivered[i].seq < delivered[j].seq

\* A processor that is not started can be started: every goroutine of its last
\* life has ended and both channels are open (processor.go:416-429).
StoppedIsReusable ==
    ~started => AllEnded /\ ingressOpen /\ queueOpen /\ held = NoMessage

\* Stop comes back (or the program is gone): the goroutines it waits for need
\* mtx for the heartbeat and for the flush, so it must not hold it meanwhile.
StopReturns ==
    \A k \in Controllers :
        controller[k] = "waits" ~> (controller[k] = "idle" \/ crashed)

\* An accepted message is settled in the end, if the processor runs.
EveryMessageSettles ==
    \A m \in Message :
        (m \in Accepted /\ started)
            ~> (m \notin Underway \/ crashed \/ cancelled)

\* processor.go:294 says the processor ingests "in a non-blocking manner": a
\* call that sets a metric comes back.  It does not once nobody drains the
\* ingress channel: after Stop, after the context is cancelled.
EnqueueReturns ==
    \A c \in Callers :
        (caller[c] = "blocked" /\ starts > 0)
            ~> (caller[c] = "idle" \/ crashed)

\* processor.go:389 says up=0 is sent before any shutdown activity, as the
\* last word on the server: once stopped, the last report is up=0.
StoppedServerIsDown == ~started => up = 0

\* processor.go:58 says enqueueMetric adds the message to the queue: setting a
\* metric never brings the program down.  A Stop at that moment does.
EnqueueNeverPanics == \A c \in Callers : caller[c] # "panics"

\* processor_test.go:690 says a second Stop returns nil; one that comes while
\* the first still waits closes the closed shutdown channel.
SecondStopIsHarmless == \A k \in Controllers : controller[k] # "panics"

=============================================================================
