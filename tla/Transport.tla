------------------------------ MODULE Transport ------------------------------
(***************************************************************************)
(* The AMQP transport of analyzer-ng: two consumer threads that acknowledge *)
(* a message as soon as it parses (amqp/consumer.py), a worker pool that    *)
(* drains a bounded priority queue with retries, a watchdog and a           *)
(* dead-letter path (amqp/dispatcher.py), the publisher thread that owns    *)
(* the outbound connection (amqp/client.py), and the service's ordered      *)
(* shutdown (service.py, main.py).                                          *)
(*                                                                         *)
(* Every thread is a program counter; a step of this specification is what  *)
(* one thread does between two points at which another may interleave.      *)
(***************************************************************************)
EXTENDS Integers, Sequences, FiniteSets

CONSTANTS
    Message,        \* what the service-api publishes on the fanout exchange
    Worker,         \* the worker threads (ANALYZER_NG_WORKERS)
    WellFormed,     \* the messages whose body parses as JSON
    Route,          \* Message -> class of the routing key
    ReplyTo,        \* the messages that carry a reply_to property
    Header,         \* Message -> timestamp_in_ms header, or NoHeader
    Clock,          \* the values time.time() can take at arrival
    ResultExchange, \* is AMQP_RESULT_EXCHANGE configured?
    QueueSize,      \* ANALYZER_NG_QUEUE_SIZE
    Prefetch,       \* ANALYZER_NG_PREFETCH
    MaxRetries,     \* AMQP_HANDLER_MAX_RETRIES
    MaxLosses,      \* bound: consumer connections lost in a behaviour
    MaxPubFaults,   \* bound: failed publish attempts in a behaviour
    ShutdownAllowed, \* may a SIGTERM arrive?
    None            \* Python's None

\* The two durable queues and their consumers, in the order shutdown stops them.
Consumer == {"all", "train"}

\* Routing keys by how the transport treats them: RESULT_QUEUE_ROUTES, the other
\* replying routes, routes without a serializer, train_models (also without
\* one), and keys absent from the table.
RouteClass == {"analyze", "rpc", "silent", "train_models", "unknown"}

NoHeader == -1

\* ProcessingItem; routing key, reply_to and body are those of msg.
Item == [msg : Message, prio : Nat, num : Nat \ {0}, src : Consumer]

\* _Reply, _ResultPublish and _DeadLetter: num is 0 for a message dead-lettered
\* before it became an item, retries is the x-retries header.
Kind == {"reply", "result", "dead"}
Out  == [kind : Kind, msg : Message, src : Consumer, num : Nat, retries : Nat]

ASSUME TransportAssumption ==
    /\ WellFormed \subseteq Message
    /\ ReplyTo \subseteq Message
    /\ Route \in [Message -> RouteClass]
    /\ Clock \subseteq Nat
    /\ Clock # {}
    /\ Header \in [Message -> Nat \cup {NoHeader}]
    /\ ResultExchange \in BOOLEAN
    /\ ShutdownAllowed \in BOOLEAN
    /\ QueueSize \in Nat \ {0}
    /\ Prefetch \in Nat \ {0}
    /\ MaxRetries \in Nat
    /\ MaxLosses \in Nat
    /\ MaxPubFaults \in Nat
    /\ None \notin Message \cup Item \cup Out

VARIABLES
    inq,        \* broker: messages of each queue not on a channel
    pend,       \* delivered on a channel, callback not run yet
    acking,     \* ack or nack written, perhaps not seen by the broker yet
    conn,       \* each consumer's connection
    cpc,        \* consumer threads: program counter
    hand,       \* the item a consumer is submitting
    bad,        \* the malformed message a consumer is about to nack
    cstop,      \* Consumer._stop
    sched,      \* stop_consuming scheduled on the consumer's connection
    seq,        \* AnalyzerService._seq: the next arrival number
    queue,      \* WorkerPool._queue
    wpc,        \* worker threads: program counter
    item,       \* the item a worker processes
    attempt,    \* its attempt counter (item.retries equals it)
    pstop,      \* WorkerPool._stop
    quiet,      \* items finished with nothing to publish
    abandoned,  \* items given up mid-retry because of _stop
    outbox,     \* ReplyPublisher._outbox
    ppc,        \* publisher thread: program counter
    cur,        \* the message it is publishing
    pubstop,    \* ReplyPublisher._stop
    sent,       \* what the broker accepted from the publisher
    phase,      \* AnalyzerService.shutdown: how far it got
    overran,    \* the joins of shutdown that timed out
    losses,     \* consumer connections lost so far
    pubFaults   \* publish attempts failed so far

brokerVars == <<inq, pend, acking>>
consVars   == <<conn, cpc, hand, bad, cstop, sched, seq>>
poolVars   == <<wpc, item, attempt, pstop, quiet, abandoned>>
pubVars    == <<ppc, cur, pubstop, sent, pubFaults>>
mainVars   == <<phase, overran>>
vars == <<brokerVars, consVars, queue, poolVars, outbox, pubVars, mainVars, losses>>

-----------------------------------------------------------------------------
(* Data *)

\* get_priority: the header when it parses, the arrival clock otherwise.
Priorities(m) == IF Header[m] = NoHeader THEN Clock ELSE {Header[m]}

\* The dataclass order of ProcessingItem: (priority, number).
Before(i, j) == i.prio < j.prio \/ (i.prio = j.prio /\ i.num < j.num)

\* Variant: the "all" consumer does not drop train_models.
KeepsTrainTwice(c, m) == c = "all" \/ Route[m] = "train_models"

\* The route filters of the two consumers.
Keeps(c, m) == IF c = "train" THEN Route[m] = "train_models"
                              ELSE Route[m] # "train_models"

OutOf(kind, i, n) == [kind |-> kind, msg |-> i.msg, src |-> i.src,
                      num |-> i.num, retries |-> n]

\* What a handler can hand back: None, a list that serializes to "[]", content.
Result(m) == CASE Route[m] \in {"silent", "train_models"} -> {"none"}
               [] Route[m] = "unknown"                    -> {}
               [] OTHER                                   -> {"none", "empty", "full"}

\* WorkerPool._publish_reply: what one result puts on the outbox.
PublishReply(i, r) ==
    IF r = "none" THEN <<>>
    ELSE IF i.msg \in ReplyTo THEN <<OutOf("reply", i, 0)>>
    ELSE IF Route[i.msg] = "analyze" /\ ResultExchange /\ r = "full"
         THEN <<OutOf("result", i, 0)>>
    ELSE <<>>

\* After AnalyzerService.shutdown the interpreter exits and its daemon threads
\* with it.
Alive == phase # "down"

-----------------------------------------------------------------------------
(* The broker, as the consumers use it (external) *)

\* Delivery on an open channel. basic_qos: the broker sends no more than Prefetch
\* deliveries it has not seen settled, so a full window means it has seen acks.
Deliver(c, m) ==
    /\ conn[c] = "up"
    /\ cpc[c] \in {"consume", "nack", "submit"}
    /\ m \in inq[c]
    /\ \E unseen \in SUBSET acking[c] :
          /\ Cardinality(pend[c]) + Cardinality(unseen) < Prefetch
          /\ acking' = [acking EXCEPT ![c] = unseen]
    /\ inq' = [inq EXCEPT ![c] = @ \ {m}]
    /\ pend' = [pend EXCEPT ![c] = @ \cup {m}]
    /\ UNCHANGED <<consVars, queue, poolVars, outbox, pubVars, mainVars, losses>>

\* A connection dies: unhandled deliveries are ready again, and so are the
\* messages whose ack or nack the broker has not seen.
LoseConnection(c) ==
    /\ Alive
    /\ conn[c] = "up"
    /\ losses < MaxLosses
    /\ losses' = losses + 1
    /\ conn' = [conn EXCEPT ![c] = "down"]
    /\ \E unseen \in SUBSET acking[c] :
          inq' = [inq EXCEPT ![c] = @ \cup pend[c] \cup unseen]
    /\ pend' = [pend EXCEPT ![c] = {}]
    /\ acking' = [acking EXCEPT ![c] = {}]
    /\ UNCHANGED <<cpc, hand, bad, cstop, sched, seq, queue, poolVars, outbox, pubVars, mainVars>>

-----------------------------------------------------------------------------
(* Consumer threads: Consumer._run and Consumer._on_message *)

\* while not self._stop.is_set()
ConsumerCheck(c) ==
    /\ Alive
    /\ cpc[c] = "check"
    /\ cpc' = [cpc EXCEPT ![c] = IF cstop[c] THEN "exit" ELSE "connect"]
    /\ UNCHANGED <<brokerVars, conn, hand, bad, cstop, sched, seq, queue, poolVars, outbox, pubVars, mainVars, losses>>

\* From ensure_exchange to start_consuming. Connecting may take up to
\* AMQP_MAX_RETRY_TIME, and the stop flag is not read again on the way.
Connect(c) ==
    /\ Alive
    /\ cpc[c] = "connect"
    /\ cpc' = [cpc EXCEPT ![c] = "consume"]
    /\ conn' = [conn EXCEPT ![c] = "up"]
    /\ UNCHANGED <<brokerVars, hand, bad, cstop, sched, seq, queue, poolVars, outbox, pubVars, mainVars, losses>>

\* Variant: the thread ends instead of reconnecting.
EndOnLoss == "exit"

AfterLoss == "check"

\* start_consuming raises on the dead connection; the loop goes round.
NoticeLoss(c) ==
    /\ Alive
    /\ cpc[c] = "consume"
    /\ conn[c] = "down"
    /\ cpc' = [cpc EXCEPT ![c] = AfterLoss]
    /\ UNCHANGED <<brokerVars, conn, hand, bad, cstop, sched, seq, queue, poolVars, outbox, pubVars, mainVars, losses>>

\* The scheduled stop_consuming runs: unhandled deliveries are requeued,
\* start_consuming returns, the loop ends.
StopConsuming(c) ==
    /\ Alive
    /\ cpc[c] = "consume"
    /\ conn[c] = "up"
    /\ sched[c]
    /\ cpc' = [cpc EXCEPT ![c] = "exit"]
    /\ inq' = [inq EXCEPT ![c] = @ \cup pend[c]]
    /\ pend' = [pend EXCEPT ![c] = {}]
    /\ UNCHANGED <<acking, conn, hand, bad, cstop, sched, seq, queue, poolVars, outbox, pubVars, mainVars, losses>>

\* Variant: a body that does not parse is nacked without a dead letter.
OnMalformedDropped(c, m) ==
    /\ Alive
    /\ cpc[c] = "consume"
    /\ conn[c] = "up"
    /\ m \in pend[c] \ WellFormed
    /\ cpc' = [cpc EXCEPT ![c] = "nack"]
    /\ bad' = [bad EXCEPT ![c] = m]
    /\ UNCHANGED <<brokerVars, conn, hand, cstop, sched, seq, queue, poolVars, outbox, pubVars, mainVars, losses>>

\* _on_message, body does not parse: the dead letter is put on the outbox ...
OnMalformed(c, m) ==
    /\ Alive
    /\ cpc[c] = "consume"
    /\ conn[c] = "up"
    /\ m \in pend[c] \ WellFormed
    /\ outbox' = Append(outbox, [kind |-> "dead", msg |-> m, src |-> c, num |-> 0, retries |-> 0])
    /\ cpc' = [cpc EXCEPT ![c] = "nack"]
    /\ bad' = [bad EXCEPT ![c] = m]
    /\ UNCHANGED <<brokerVars, conn, hand, cstop, sched, seq, queue, poolVars, pubVars, mainVars, losses>>

\* ... and then basic_nack(requeue=False), which raises on a dead connection.
Nack(c) ==
    /\ Alive
    /\ cpc[c] = "nack"
    /\ bad' = [bad EXCEPT ![c] = None]
    /\ IF conn[c] = "up"
       THEN /\ pend' = [pend EXCEPT ![c] = @ \ {bad[c]}]
            /\ acking' = [acking EXCEPT ![c] = @ \cup {bad[c]}]
            /\ cpc' = [cpc EXCEPT ![c] = "consume"]
       ELSE /\ cpc' = [cpc EXCEPT ![c] = "check"]
            /\ UNCHANGED <<pend, acking>>
    /\ UNCHANGED <<inq, conn, hand, cstop, sched, seq, queue, poolVars, outbox, pubVars, mainVars, losses>>

\* _on_message, body parses: basic_ack, the route filter, and a new item. (An
\* ack that raises leaves what LoseConnection leaves: the message is requeued.)
OnMessage(c, m) ==
    /\ Alive
    /\ cpc[c] = "consume"
    /\ conn[c] = "up"
    /\ m \in pend[c] \cap WellFormed
    /\ pend' = [pend EXCEPT ![c] = @ \ {m}]
    /\ acking' = [acking EXCEPT ![c] = @ \cup {m}]
    /\ IF Keeps(c, m)
       THEN \E p \in Priorities(m) :
               /\ hand' = [hand EXCEPT ![c] = [msg |-> m, prio |-> p, num |-> seq, src |-> c]]
               /\ seq' = seq + 1
               /\ cpc' = [cpc EXCEPT ![c] = "submit"]
       ELSE UNCHANGED <<hand, seq, cpc>>
    /\ UNCHANGED <<inq, conn, bad, cstop, sched, queue, poolVars, outbox, pubVars, mainVars, losses>>

\* Variant: put_nowait with queue.Full swallowed.
SubmitOrDrop(c) ==
    /\ Alive
    /\ cpc[c] = "submit"
    /\ queue' = IF Cardinality(queue) < QueueSize THEN queue \cup {hand[c]} ELSE queue
    /\ hand' = [hand EXCEPT ![c] = None]
    /\ cpc' = [cpc EXCEPT ![c] = "consume"]
    /\ UNCHANGED <<brokerVars, conn, bad, cstop, sched, seq, poolVars, outbox, pubVars, mainVars, losses>>

\* WorkerPool.submit: put(block=True) waits while the queue is full.
Submit(c) ==
    /\ Alive
    /\ cpc[c] = "submit"
    /\ Cardinality(queue) < QueueSize
    /\ queue' = queue \cup {hand[c]}
    /\ hand' = [hand EXCEPT ![c] = None]
    /\ cpc' = [cpc EXCEPT ![c] = "consume"]
    /\ UNCHANGED <<brokerVars, conn, bad, cstop, sched, seq, poolVars, outbox, pubVars, mainVars, losses>>

-----------------------------------------------------------------------------
(* Worker threads: WorkerPool._run and WorkerPool._process_bound *)

\* Variant: while True.
LoopForever == FALSE

LoopEnds == pstop

\* while not self._stop.is_set()
WorkerCheck(w) ==
    /\ Alive
    /\ wpc[w] = "check"
    /\ wpc' = [wpc EXCEPT ![w] = IF LoopEnds THEN "exit" ELSE "get"]
    /\ UNCHANGED <<brokerVars, consVars, queue, item, attempt, pstop, quiet, abandoned, outbox, pubVars, mainVars, losses>>

\* queue.get(timeout=0.1) times out on an empty queue.
GetEmpty(w) ==
    /\ Alive
    /\ wpc[w] = "get"
    /\ queue = {}
    /\ wpc' = [wpc EXCEPT ![w] = "check"]
    /\ UNCHANGED <<brokerVars, consVars, queue, item, attempt, pstop, quiet, abandoned, outbox, pubVars, mainVars, losses>>

\* queue.get returns the least item and its first attempt starts.
GetItem(w) ==
    /\ Alive
    /\ wpc[w] = "get"
    /\ \E i \in queue :
          /\ \A j \in queue \ {i} : Before(i, j)
          /\ queue' = queue \ {i}
          /\ item' = [item EXCEPT ![w] = i]
    /\ wpc' = [wpc EXCEPT ![w] = "run"]
    /\ attempt' = [attempt EXCEPT ![w] = 0]
    /\ UNCHANGED <<brokerVars, consVars, pstop, quiet, abandoned, outbox, pubVars, mainVars, losses>>

\* _process_bound returns: the worker lets go of its item and goes round.
Finish(w) ==
    /\ wpc' = [wpc EXCEPT ![w] = "check"]
    /\ item' = [item EXCEPT ![w] = None]

\* _fail and _dead_letter; item.retries is the attempt counter.
Fail(w) ==
    /\ outbox' = Append(outbox, OutOf("dead", item[w], attempt[w]))
    /\ UNCHANGED quiet

\* The handler returned r in time: _publish_reply.
Succeed(w, r) ==
    /\ outbox' = outbox \o PublishReply(item[w], r)
    /\ quiet' = IF PublishReply(item[w], r) = <<>> THEN quiet \cup {item[w]} ELSE quiet

\* The handler returns; if the watchdog has fired by then it fails all the same.
HandlerReturns(w) ==
    /\ Alive
    /\ wpc[w] = "run"
    /\ \E r \in Result(item[w].msg) : Succeed(w, r) \/ Fail(w)
    /\ Finish(w)
    /\ UNCHANGED <<brokerVars, consVars, queue, attempt, pstop, abandoned, pubVars, mainVars, losses>>

\* _NON_RETRYABLE: a ValidationError, or the TaskTimeout of raise_if_cancelled.
HandlerRejects(w) ==
    /\ Alive
    /\ wpc[w] = "run"
    /\ Route[item[w].msg] # "unknown"
    /\ Fail(w)
    /\ Finish(w)
    /\ UNCHANGED <<brokerVars, consVars, queue, attempt, pstop, abandoned, pubVars, mainVars, losses>>

\* UnknownRoutingKey: neither reply nor dead letter.
UnknownKey(w) ==
    /\ Alive
    /\ wpc[w] = "run"
    /\ Route[item[w].msg] = "unknown"
    /\ quiet' = quiet \cup {item[w]}
    /\ Finish(w)
    /\ UNCHANGED <<brokerVars, consVars, queue, attempt, pstop, abandoned, outbox, pubVars, mainVars, losses>>

RetriesLeft(w) == ~(attempt[w] >= MaxRetries)

\* Any other exception. Every attempt's store connections get the time left of
\* its budget as statement_timeout, so an attempt that used up its budget in SQL
\* arrives here too, as psycopg's QueryCanceled.
HandlerRaises(w) ==
    /\ Alive
    /\ wpc[w] = "run"
    /\ Route[item[w].msg] # "unknown"
    /\ IF RetriesLeft(w)
       THEN /\ attempt' = [attempt EXCEPT ![w] = @ + 1]
            /\ wpc' = [wpc EXCEPT ![w] = "backoff"]
            /\ UNCHANGED <<item, outbox, quiet>>
       ELSE Fail(w) /\ Finish(w) /\ UNCHANGED attempt
    /\ UNCHANGED <<brokerVars, consVars, queue, pstop, abandoned, pubVars, mainVars, losses>>

\* self._stop.wait(delay) ran out: the next attempt, with a fresh watchdog.
BackoffOver(w) ==
    /\ Alive
    /\ wpc[w] = "backoff"
    /\ wpc' = [wpc EXCEPT ![w] = "run"]
    /\ UNCHANGED <<brokerVars, consVars, queue, item, attempt, pstop, quiet, abandoned, outbox, pubVars, mainVars, losses>>

\* Variant: the item is dead-lettered but the retry loop goes on.
BackoffStoppedGoesOn(w) ==
    /\ Alive
    /\ wpc[w] = "backoff"
    /\ pstop
    /\ Fail(w)
    /\ wpc' = [wpc EXCEPT ![w] = "run"]
    /\ UNCHANGED <<brokerVars, consVars, queue, item, attempt, pstop, abandoned, pubVars, mainVars, losses>>

\* self._stop.wait(delay) saw the flag: the item is given up without a dead letter.
BackoffStopped(w) ==
    /\ Alive
    /\ wpc[w] = "backoff"
    /\ pstop
    /\ abandoned' = abandoned \cup {item[w]}
    /\ Finish(w)
    /\ UNCHANGED <<brokerVars, consVars, queue, attempt, pstop, quiet, outbox, pubVars, mainVars, losses>>

-----------------------------------------------------------------------------
(* The publisher thread: ReplyPublisher._run and ReplyPublisher._publish *)

\* _outbox.get returns a message, or the None that shutdown put there.
PubGet ==
    /\ Alive
    /\ ppc = "get"
    /\ outbox # <<>>
    /\ outbox' = Tail(outbox)
    /\ IF Head(outbox) = None
       THEN /\ ppc' = IF pubstop /\ Tail(outbox) = <<>> THEN "exit" ELSE "get"
            /\ UNCHANGED cur
       ELSE /\ ppc' = "try1"
            /\ cur' = Head(outbox)
    /\ UNCHANGED <<brokerVars, consVars, queue, poolVars, pubstop, sent, pubFaults, mainVars, losses>>

\* _outbox.get(timeout=0.1) raises queue.Empty ...
PubEmpty ==
    /\ Alive
    /\ ppc = "get"
    /\ outbox = <<>>
    /\ ppc' = "empty"
    /\ UNCHANGED <<brokerVars, consVars, queue, poolVars, outbox, cur, pubstop, sent, pubFaults, mainVars, losses>>

\* ... and only then is the stop flag read.
PubEmptyCheck ==
    /\ Alive
    /\ ppc = "empty"
    /\ ppc' = IF pubstop THEN "exit" ELSE "get"
    /\ UNCHANGED <<brokerVars, consVars, queue, poolVars, outbox, cur, pubstop, sent, pubFaults, mainVars, losses>>

Try == IF ppc = "try1" THEN 1 ELSE 2

\* basic_publish and channel.close succeed.
PublishOk ==
    /\ Alive
    /\ ppc \in {"try1", "try2"}
    /\ sent' = sent \cup {<<cur, Try>>}
    /\ cur' = None
    /\ ppc' = "get"
    /\ UNCHANGED <<brokerVars, consVars, queue, poolVars, outbox, pubstop, pubFaults, mainVars, losses>>

\* The connection drops before the broker has the message, or after it has it
\* but before channel.close returns; both raise and the second try follows.
\* After the second failure _run logs and drops the message.
PublishFails ==
    /\ Alive
    /\ ppc \in {"try1", "try2"}
    /\ pubFaults < MaxPubFaults
    /\ pubFaults' = pubFaults + 1
    /\ \/ UNCHANGED sent
       \/ sent' = sent \cup {<<cur, Try>>}
    /\ IF ppc = "try1" THEN ppc' = "try2" /\ UNCHANGED cur
                       ELSE ppc' = "get" /\ cur' = None
    /\ UNCHANGED <<brokerVars, consVars, queue, poolVars, outbox, pubstop, mainVars, losses>>

\* _connect_with_retry gives up: AmqpConnectionError is not retried by _publish.
ConnectGivesUp ==
    /\ Alive
    /\ ppc \in {"try1", "try2"}
    /\ pubFaults < MaxPubFaults
    /\ pubFaults' = pubFaults + 1
    /\ ppc' = "get"
    /\ cur' = None
    /\ UNCHANGED <<brokerVars, consVars, queue, poolVars, outbox, pubstop, sent, mainVars, losses>>

-----------------------------------------------------------------------------
(* The main thread: main.run and AnalyzerService.shutdown *)

Stopping(c) == IF c = "all" THEN "stop_all" ELSE "stop_train"
Joining(c)  == IF c = "all" THEN "join_all" ELSE "join_train"

Sigterm ==
    /\ ShutdownAllowed
    /\ phase = "running"
    /\ phase' = "stop_all"
    /\ UNCHANGED <<brokerVars, consVars, queue, poolVars, outbox, pubVars, overran, losses>>

\* Consumer.stop, first half: the flag, and stop_consuming if the channel is open.
StopConsumer(c) ==
    /\ phase = Stopping(c)
    /\ phase' = Joining(c)
    /\ cstop' = [cstop EXCEPT ![c] = TRUE]
    /\ sched' = [sched EXCEPT ![c] = conn[c] = "up" /\ cpc[c] \in {"consume", "nack", "submit"}]
    /\ UNCHANGED <<brokerVars, conn, cpc, hand, bad, seq, queue, poolVars, outbox, pubVars, overran, losses>>

\* Consumer.stop, second half: join(timeout), then close the connection.
JoinConsumer(c) ==
    /\ phase = Joining(c)
    /\ phase' = IF c = "all" THEN "stop_train" ELSE "stop_pool"
    /\ overran' = IF cpc[c] = "exit" THEN overran ELSE overran \cup {c}
    /\ conn' = [conn EXCEPT ![c] = "down"]
    /\ inq' = [inq EXCEPT ![c] = @ \cup pend[c]]
    /\ pend' = [pend EXCEPT ![c] = {}]
    /\ UNCHANGED <<acking, cpc, hand, bad, cstop, sched, seq, queue, poolVars, outbox, pubVars, losses>>

\* WorkerPool.shutdown: the flag ...
StopPool ==
    /\ phase = "stop_pool"
    /\ phase' = "join_pool"
    /\ pstop' = TRUE
    /\ UNCHANGED <<brokerVars, consVars, queue, wpc, item, attempt, quiet, abandoned, outbox, pubVars, overran, losses>>

\* ... and the joins up to the common deadline.
JoinPool ==
    /\ phase = "join_pool"
    /\ phase' = "stop_pub"
    /\ overran' = IF \A w \in Worker : wpc[w] = "exit" THEN overran ELSE overran \cup {"pool"}
    /\ UNCHANGED <<brokerVars, consVars, queue, poolVars, outbox, pubVars, losses>>

\* ReplyPublisher.shutdown: the flag and the None ...
StopPublisher ==
    /\ phase = "stop_pub"
    /\ phase' = "join_pub"
    /\ pubstop' = TRUE
    /\ outbox' = Append(outbox, None)
    /\ UNCHANGED <<brokerVars, consVars, queue, poolVars, ppc, cur, sent, pubFaults, overran, losses>>

\* The interpreter exits and the broker sees what connections it had close.
Exit ==
    /\ phase' = "down"
    /\ conn' = [c \in Consumer |-> "down"]
    /\ inq' = [c \in Consumer |-> inq[c] \cup pend[c]]
    /\ pend' = [c \in Consumer |-> {}]
    /\ UNCHANGED <<acking, cpc, hand, bad, cstop, sched, seq, queue, poolVars, outbox, pubVars, losses>>

\* ... and the join, after which run returns.
JoinPublisher ==
    /\ phase = "join_pub"
    /\ overran' = IF ppc = "exit" THEN overran ELSE overran \cup {"publisher"}
    /\ Exit

\* A second signal raises SystemExit out of whatever shutdown is waiting for.
SecondSignal ==
    /\ phase \notin {"running", "down"}
    /\ Exit
    /\ UNCHANGED overran

-----------------------------------------------------------------------------
\* AnalyzerService.start has started the publisher, the pool and the consumers.
Init ==
    /\ inq = [c \in Consumer |-> Message]
    /\ pend = [c \in Consumer |-> {}]
    /\ acking = [c \in Consumer |-> {}]
    /\ conn = [c \in Consumer |-> "down"]
    /\ cpc = [c \in Consumer |-> "connect"]
    /\ hand = [c \in Consumer |-> None]
    /\ bad = [c \in Consumer |-> None]
    /\ cstop = [c \in Consumer |-> FALSE]
    /\ sched = [c \in Consumer |-> FALSE]
    /\ seq = 1
    /\ queue = {}
    /\ wpc = [w \in Worker |-> "check"]
    /\ item = [w \in Worker |-> None]
    /\ attempt = [w \in Worker |-> 0]
    /\ pstop = FALSE
    /\ quiet = {}
    /\ abandoned = {}
    /\ outbox = <<>>
    /\ ppc = "get"
    /\ cur = None
    /\ pubstop = FALSE
    /\ sent = {}
    /\ phase = "running"
    /\ overran = {}
    /\ losses = 0
    /\ pubFaults = 0

Broker ==
    \/ \E c \in Consumer, m \in Message : Deliver(c, m)
    \/ \E c \in Consumer : LoseConnection(c)

ConsumerStep(c) ==
    \/ ConsumerCheck(c) \/ Connect(c) \/ NoticeLoss(c) \/ StopConsuming(c)
    \/ Nack(c) \/ Submit(c)
    \/ \E m \in Message : OnMalformed(c, m) \/ OnMessage(c, m)

WorkerStep(w) ==
    \/ WorkerCheck(w) \/ GetEmpty(w) \/ GetItem(w)
    \/ HandlerReturns(w) \/ HandlerRejects(w) \/ UnknownKey(w) \/ HandlerRaises(w)
    \/ BackoffOver(w) \/ BackoffStopped(w)

PublisherStep ==
    PubGet \/ PubEmpty \/ PubEmptyCheck \/ PublishOk \/ PublishFails \/ ConnectGivesUp

MainStep ==
    \/ \E c \in Consumer : StopConsumer(c) \/ JoinConsumer(c)
    \/ StopPool \/ JoinPool \/ StopPublisher \/ JoinPublisher

Next ==
    \/ Broker
    \/ \E c \in Consumer : ConsumerStep(c)
    \/ \E w \in Worker : WorkerStep(w)
    \/ PublisherStep
    \/ Sigterm
    \/ SecondSignal
    \/ MainStep

Spec == Init /\ [][Next]_vars

\* Threads keep running, the broker delivers what is ready and handlers return.
\* Faults and signals are not promised, and neither are the joins' timeouts: what
\* is shown to end does so on its own account.
Fairness ==
    /\ \A c \in Consumer : WF_vars(\E m \in Message : Deliver(c, m))
    /\ \A c \in Consumer : WF_vars(ConsumerStep(c))
    /\ \A w \in Worker : WF_vars(WorkerStep(w))
    /\ WF_vars(PublisherStep)
    /\ WF_vars(MainStep /\ UNCHANGED overran)

FairSpec == Spec /\ Fairness

-----------------------------------------------------------------------------
(* Properties *)

Phase == {"running", "stop_all", "join_all", "stop_train", "join_train",
          "stop_pool", "join_pool", "stop_pub", "join_pub", "down"}

BrokerType ==
    /\ inq \in [Consumer -> SUBSET Message]
    /\ pend \in [Consumer -> SUBSET Message]
    /\ acking \in [Consumer -> SUBSET Message]

ConsumerType ==
    /\ conn \in [Consumer -> {"up", "down"}]
    /\ cpc \in [Consumer -> {"check", "connect", "consume", "nack", "submit", "exit"}]
    /\ hand \in [Consumer -> Item \cup {None}]
    /\ bad \in [Consumer -> Message \cup {None}]
    /\ \A c \in Consumer : (hand[c] # None) <=> (cpc[c] = "submit")
    /\ \A c \in Consumer : (bad[c] # None) <=> (cpc[c] = "nack")
    /\ cstop \in [Consumer -> BOOLEAN]
    /\ sched \in [Consumer -> BOOLEAN]
    /\ seq \in Nat \ {0}

PoolType ==
    /\ queue \in SUBSET Item
    /\ wpc \in [Worker -> {"check", "get", "run", "backoff", "exit"}]
    /\ item \in [Worker -> Item \cup {None}]
    /\ \A w \in Worker : (item[w] # None) <=> (wpc[w] \in {"run", "backoff"})
    /\ attempt \in [Worker -> 0..MaxRetries]
    /\ pstop \in BOOLEAN
    /\ quiet \in SUBSET Item
    /\ abandoned \in SUBSET Item

PublisherType ==
    /\ outbox \in Seq(Out \cup {None})
    /\ ppc \in {"get", "empty", "try1", "try2", "exit"}
    /\ cur \in Out \cup {None}
    /\ (cur # None) <=> (ppc \in {"try1", "try2"})
    /\ pubstop \in BOOLEAN
    /\ sent \in SUBSET (Out \X {1, 2})
    /\ pubFaults \in Nat

MainType ==
    /\ phase \in Phase
    /\ overran \in SUBSET {"all", "train", "pool", "publisher"}
    /\ losses \in Nat

\* The type invariant: which threads hold what at which point of their code, and
\* no attempt beyond AMQP_HANDLER_MAX_RETRIES.
TypeOK == BrokerType /\ ConsumerType /\ PoolType /\ PublisherType /\ MainType

\* Where a record r with a num field says arrival n is.
Is(r, n) == r # None /\ r.num = n

\* The outbound messages that left the outbox.
Gone == ({cur} \cup {s[1] : s \in sent}) \ {None}

Custodians(n) ==
      Cardinality({c \in Consumer : Is(hand[c], n)})
    + Cardinality({i \in queue : i.num = n})
    + Cardinality({w \in Worker : Is(item[w], n)})
    + Cardinality({i \in quiet \cup abandoned : i.num = n})
    + Cardinality({k \in 1..Len(outbox) : Is(outbox[k], n)})
    + Cardinality({o \in Gone : o.num = n})

\* An acknowledged message, once an item, is the business of exactly one thread,
\* queue or outbox entry from then on, and ends as one reply, one result, one
\* dead letter, or nothing: never two of them, and never none while publishing
\* does not fail. It covers _on_message, submit, _run, the retry loop, _fail,
\* _publish_reply and the publisher together, through a shutdown as well.
Custody == \A n \in 1..(seq - 1) :
    /\ Custodians(n) <= 1
    /\ pubFaults = 0 => Custodians(n) = 1

\* What the process knows of an arrival, whether it is still an item or already
\* an outbound message: the message, the consumer that took it, its number.
Trace(r) == <<r.msg, r.src, r.num>>

HandTraces   == {Trace(hand[c]) : c \in {d \in Consumer : hand[d] # None}}
QueueTraces  == {Trace(i) : i \in queue}
WorkerTraces == {Trace(item[w]) : w \in {v \in Worker : item[v] # None}}
DoneTraces   == {Trace(i) : i \in quiet \cup abandoned}
OutboxTraces == {Trace(outbox[k]) : k \in {j \in DOMAIN outbox : outbox[j] # None}}
GoneTraces   == {Trace(o) : o \in Gone}
Traces == HandTraces \cup QueueTraces \cup WorkerTraces \cup DoneTraces
          \cup OutboxTraces \cup GoneTraces

\* A message that left the broker's queue for good has not vanished: the
\* consumer in charge of it (both, when it does not parse) has left a trace of
\* it. The ack precedes the work and the dead letter precedes the nack, so this
\* is about their order, about the route filters, and about redelivery.
NoSilentLoss ==
    pubFaults = 0 =>
    \A c \in Consumer : \A m \in Message \ (inq[c] \cup pend[c]) :
        (m \notin WellFormed \/ Keeps(c, m)) =>
            \E t \in Traces : t[1] = m /\ t[2] = c

\* The fanout exchange copies every message to both queues. As long as no
\* connection is lost each well-formed message is still processed once, by one
\* consumer's item; only redelivery makes two of it.
OnceWithoutRedelivery ==
    losses = 0 =>
    \A t, u \in Traces : (t[1] = u[1] /\ t[1] \in WellFormed) => t = u

Settled(m) ==
    IF m \in WellFormed THEN \/ \E s \in sent : s[1].msg = m
                             \/ \E i \in quiet : i.msg = m
    ELSE \E s \in sent : s[1].msg = m

\* Every message is eventually answered, dead-lettered or finished without an
\* answer, whatever the order of arrival, the retries, a full queue or a lost
\* consumer connection (no shutdown, no publish failure).
EverythingSettles == \A m \in Message : <>Settled(m)

\* WorkerPool.shutdown gets every worker out of its loop, of a handler and of a
\* backoff, without the help of the join's timeout, unless the process ends first.
WorkersQuit == pstop ~> (phase = "down" \/ \A w \in Worker : wpc[w] = "exit")

\* "Flush pending replies/dead-letters" (service.py): when every join but the
\* publisher's returned in time and the publisher thread has ended, nothing is
\* left on its outbox.
FlushComplete ==
    (ppc = "exit" /\ overran \subseteq {"publisher"}) =>
        \A k \in DOMAIN outbox : outbox[k] = None
=============================================================================
