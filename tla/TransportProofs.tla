--------------------------- MODULE TransportProofs ---------------------------
(***************************************************************************)
(* Proofs about Transport, for every set of messages and workers and every *)
(* bound.                                                                  *)
(***************************************************************************)
EXTENDS Transport, FiniteSetTheorems, TLAPS

-----------------------------------------------------------------------------
(* The data of the model *)

\* None is not an item, an outbound message or a message.
LEMMA NoneIsNothing == None \notin Item /\ None \notin Out /\ None \notin Message
BY TransportAssumption

\* What a worker puts on the outbox about its item is an outbound message.
LEMMA OutOfType ==
    ASSUME NEW kind \in Kind, NEW i \in Item, NEW n \in Nat
    PROVE  OutOf(kind, i, n) \in Out
BY DEF OutOf, Out, Item

\* _publish_reply puts at most one message on the outbox.
LEMMA PublishReplyType ==
    ASSUME NEW i \in Item, NEW r
    PROVE  \/ PublishReply(i, r) = <<>>
           \/ \E o \in Out : PublishReply(i, r) = <<o>>
BY OutOfType DEF PublishReply, Kind

-----------------------------------------------------------------------------
(* Type correctness *)

\* The type invariant is inductive.
LEMMA TypeStep == TypeOK /\ [Next]_vars => TypeOK'
<1> SUFFICES ASSUME TypeOK, [Next]_vars PROVE TypeOK'
    OBVIOUS
<1> USE DEF TypeOK, brokerVars, consVars, poolVars, pubVars, mainVars
<1>0. /\ UNCHANGED brokerVars => BrokerType'
      /\ UNCHANGED consVars => ConsumerType'
      /\ UNCHANGED <<queue, poolVars>> => PoolType'
      /\ UNCHANGED <<outbox, pubVars>> => PublisherType'
      /\ UNCHANGED <<mainVars, losses>> => MainType'
  <2>1. UNCHANGED brokerVars => BrokerType'
    BY DEF BrokerType
  <2>2. UNCHANGED consVars => ConsumerType'
    BY DEF ConsumerType
  <2>3. UNCHANGED <<queue, poolVars>> => PoolType'
    BY DEF PoolType
  <2>4. UNCHANGED <<outbox, pubVars>> => PublisherType'
    BY DEF PublisherType
  <2>5. UNCHANGED <<mainVars, losses>> => MainType'
    BY DEF MainType
  <2> QED
    BY <2>1, <2>2, <2>3, <2>4, <2>5
<1>1. ASSUME NEW c \in Consumer, NEW m \in Message, Deliver(c, m) PROVE TypeOK'
  <2>1. BrokerType'
    BY <1>1 DEF Deliver, BrokerType
  <2>2. QED
    BY <1>0, <1>1, <2>1 DEF Deliver
<1>2. ASSUME NEW c \in Consumer, LoseConnection(c) PROVE TypeOK'
  <2>1. BrokerType'
    BY <1>2 DEF LoseConnection, BrokerType
  <2>2. ConsumerType'
    BY <1>2, NoneIsNothing, TransportAssumption DEF LoseConnection, ConsumerType, Consumer
  <2>3. MainType'
    BY <1>2 DEF LoseConnection, MainType, Phase
  <2>4. QED
    BY <1>0, <1>2, <2>1, <2>2, <2>3 DEF LoseConnection
<1>3. ASSUME NEW c \in Consumer, ConsumerCheck(c) PROVE TypeOK'
  <2>1. ConsumerType'
    BY <1>3, NoneIsNothing, TransportAssumption DEF ConsumerCheck, ConsumerType, Consumer
  <2>2. QED
    BY <1>0, <1>3, <2>1 DEF ConsumerCheck
<1>4. ASSUME NEW c \in Consumer, Connect(c) PROVE TypeOK'
  <2>1. ConsumerType'
    BY <1>4, NoneIsNothing, TransportAssumption DEF Connect, ConsumerType, Consumer
  <2>2. QED
    BY <1>0, <1>4, <2>1 DEF Connect
<1>5. ASSUME NEW c \in Consumer, NoticeLoss(c) PROVE TypeOK'
  <2>1. ConsumerType'
    BY <1>5, NoneIsNothing, TransportAssumption DEF NoticeLoss, AfterLoss, ConsumerType, Consumer
  <2>2. QED
    BY <1>0, <1>5, <2>1 DEF NoticeLoss
<1>6. ASSUME NEW c \in Consumer, StopConsuming(c) PROVE TypeOK'
  <2>1. BrokerType'
    BY <1>6 DEF StopConsuming, BrokerType
  <2>2. ConsumerType'
    BY <1>6, NoneIsNothing, TransportAssumption DEF StopConsuming, ConsumerType, Consumer
  <2>3. QED
    BY <1>0, <1>6, <2>1, <2>2 DEF StopConsuming
<1>7. ASSUME NEW c \in Consumer, Nack(c) PROVE TypeOK'
  <2>1. BrokerType'
    BY <1>7 DEF Nack, BrokerType, ConsumerType
  <2>2. ConsumerType'
    BY <1>7, NoneIsNothing, TransportAssumption DEF Nack, ConsumerType, Consumer
  <2>3. QED
    BY <1>0, <1>7, <2>1, <2>2 DEF Nack
<1>8. ASSUME NEW c \in Consumer, Submit(c) PROVE TypeOK'
  <2>1. ConsumerType'
    BY <1>8, NoneIsNothing, TransportAssumption DEF Submit, ConsumerType, Consumer
  <2>2. PoolType'
    BY <1>8, NoneIsNothing, TransportAssumption DEF Submit, PoolType, ConsumerType
  <2>3. QED
    BY <1>0, <1>8, <2>1, <2>2 DEF Submit
<1>9. ASSUME NEW c \in Consumer, NEW m \in Message, OnMalformed(c, m) PROVE TypeOK'
  <2>1. ConsumerType'
    BY <1>9, NoneIsNothing, TransportAssumption DEF OnMalformed, ConsumerType, BrokerType, Item, Priorities, Consumer
  <2>2. PublisherType'
    BY <1>9, NoneIsNothing, OutOfType, PublishReplyType, TransportAssumption DEF OnMalformed, PublisherType, Kind, BrokerType, Out
  <2>3. QED
    BY <1>0, <1>9, <2>1, <2>2 DEF OnMalformed
<1>10. ASSUME NEW c \in Consumer, NEW m \in Message, OnMessage(c, m) PROVE TypeOK'
  <2>1. BrokerType'
    BY <1>10 DEF OnMessage, BrokerType
  <2>2. ConsumerType'
    BY <1>10, NoneIsNothing, TransportAssumption DEF OnMessage, ConsumerType, BrokerType, Item, Priorities, Consumer
  <2>3. QED
    BY <1>0, <1>10, <2>1, <2>2 DEF OnMessage
<1>11. ASSUME NEW c \in Consumer, StopConsumer(c) PROVE TypeOK'
  <2>1. ConsumerType'
    BY <1>11, NoneIsNothing, TransportAssumption DEF StopConsumer, Stopping, Joining, ConsumerType, Consumer
  <2>2. MainType'
    BY <1>11 DEF StopConsumer, Stopping, Joining, MainType, Phase
  <2>3. QED
    BY <1>0, <1>11, <2>1, <2>2 DEF StopConsumer, Stopping, Joining
<1>12. ASSUME NEW c \in Consumer, JoinConsumer(c) PROVE TypeOK'
  <2>1. BrokerType'
    BY <1>12 DEF JoinConsumer, Stopping, Joining, BrokerType
  <2>2. ConsumerType'
    BY <1>12, NoneIsNothing, TransportAssumption DEF JoinConsumer, Stopping, Joining, ConsumerType, Consumer
  <2>3. MainType'
    BY <1>12 DEF JoinConsumer, Joining, MainType, Phase, Consumer
  <2>4. QED
    BY <1>0, <1>12, <2>1, <2>2, <2>3 DEF JoinConsumer, Stopping, Joining
<1>13. ASSUME NEW w \in Worker, WorkerCheck(w) PROVE TypeOK'
  <2>1. PoolType'
    BY <1>13, NoneIsNothing, TransportAssumption DEF WorkerCheck, LoopEnds, PoolType
  <2>2. QED
    BY <1>0, <1>13, <2>1 DEF WorkerCheck
<1>14. ASSUME NEW w \in Worker, GetEmpty(w) PROVE TypeOK'
  <2>1. PoolType'
    BY <1>14, NoneIsNothing, TransportAssumption DEF GetEmpty, PoolType
  <2>2. QED
    BY <1>0, <1>14, <2>1 DEF GetEmpty
<1>15. ASSUME NEW w \in Worker, GetItem(w) PROVE TypeOK'
  <2>1. PoolType'
    BY <1>15, NoneIsNothing, TransportAssumption DEF GetItem, PoolType
  <2>2. QED
    BY <1>0, <1>15, <2>1 DEF GetItem
<1>16. ASSUME NEW w \in Worker, HandlerReturns(w) PROVE TypeOK'
  <2>1. PoolType'
    BY <1>16, NoneIsNothing, TransportAssumption DEF HandlerReturns, Fail, Succeed, Finish, PoolType
  <2>2. PublisherType'
    <3>1. item[w] \in Item /\ attempt[w] \in Nat
        BY <1>16, TransportAssumption DEF HandlerReturns, PoolType
    <3>2. \/ \E r : outbox' = outbox \o PublishReply(item[w], r)
          \/ outbox' = Append(outbox, OutOf("dead", item[w], attempt[w]))
        BY <1>16 DEF HandlerReturns, Succeed, Fail
    <3>3. outbox' = outbox \/ \E o \in Out : outbox' = Append(outbox, o)
        <4>1. ASSUME NEW r, outbox' = outbox \o PublishReply(item[w], r)
              PROVE  outbox' = outbox \/ \E o \in Out : outbox' = Append(outbox, o)
            BY <4>1, <3>1, PublishReplyType DEF PublisherType
        <4>2. QED
            BY <4>1, <3>1, <3>2, OutOfType DEF Kind
    <3>4. outbox' \in Seq(Out \cup {None})
        BY <3>3 DEF PublisherType
    <3>5. QED
        BY <1>16, <3>4 DEF HandlerReturns, PublisherType
  <2>3. QED
    BY <1>0, <1>16, <2>1, <2>2 DEF HandlerReturns, Fail, Succeed, Finish
<1>17. ASSUME NEW w \in Worker, HandlerRejects(w) PROVE TypeOK'
  <2>1. PoolType'
    BY <1>17, NoneIsNothing, TransportAssumption DEF HandlerRejects, Fail, Finish, PoolType
  <2>2. PublisherType'
    BY <1>17, NoneIsNothing, OutOfType, PublishReplyType, TransportAssumption DEF HandlerRejects, Fail, Finish, PublisherType, Kind, PoolType, Out
  <2>3. QED
    BY <1>0, <1>17, <2>1, <2>2 DEF HandlerRejects, Fail, Finish
<1>18. ASSUME NEW w \in Worker, UnknownKey(w) PROVE TypeOK'
  <2>1. PoolType'
    BY <1>18, NoneIsNothing, TransportAssumption DEF UnknownKey, Finish, PoolType
  <2>2. QED
    BY <1>0, <1>18, <2>1 DEF UnknownKey, Finish
<1>19. ASSUME NEW w \in Worker, HandlerRaises(w) PROVE TypeOK'
  <2>1. PoolType'
    <3>1. CASE ~RetriesLeft(w)
        BY <1>19, <3>1, NoneIsNothing DEF HandlerRaises, Fail, Finish, PoolType
    <3>2. CASE RetriesLeft(w)
        <4>1. attempt' \in [Worker -> 0..MaxRetries]
            BY <1>19, <3>2, TransportAssumption DEF HandlerRaises, RetriesLeft, PoolType
        <4>2. QED
            BY <1>19, <3>2, <4>1 DEF HandlerRaises, RetriesLeft, PoolType
    <3>3. QED
        BY <3>1, <3>2
  <2>2. PublisherType'
    <3>1. item[w] \in Item /\ attempt[w] \in Nat
        BY <1>19, TransportAssumption DEF HandlerRaises, RetriesLeft, PoolType
    <3>2. outbox' = outbox \/ \E o \in Out : outbox' = Append(outbox, o)
        BY <1>19, <3>1, OutOfType DEF HandlerRaises, Fail, Kind
    <3>3. outbox' \in Seq(Out \cup {None})
        BY <3>2 DEF PublisherType
    <3>4. QED
        BY <1>19, <3>3 DEF HandlerRaises, PublisherType
  <2>3. QED
    BY <1>0, <1>19, <2>1, <2>2 DEF HandlerRaises, Fail, Finish
<1>20. ASSUME NEW w \in Worker, BackoffOver(w) PROVE TypeOK'
  <2>1. PoolType'
    BY <1>20, NoneIsNothing, TransportAssumption DEF BackoffOver, PoolType
  <2>2. QED
    BY <1>0, <1>20, <2>1 DEF BackoffOver
<1>21. ASSUME NEW w \in Worker, BackoffStopped(w) PROVE TypeOK'
  <2>1. PoolType'
    BY <1>21, NoneIsNothing, TransportAssumption DEF BackoffStopped, Finish, PoolType
  <2>2. QED
    BY <1>0, <1>21, <2>1 DEF BackoffStopped, Finish
<1>22. ASSUME PubGet PROVE TypeOK'
  <2>1. PublisherType'
    BY <1>22, NoneIsNothing, OutOfType, PublishReplyType, TransportAssumption DEF PubGet, PublisherType, Kind, BrokerType, Out
  <2>2. QED
    BY <1>0, <1>22, <2>1 DEF PubGet
<1>23. ASSUME PubEmpty PROVE TypeOK'
  <2>1. PublisherType'
    BY <1>23, NoneIsNothing, OutOfType, PublishReplyType, TransportAssumption DEF PubEmpty, PublisherType, Kind, BrokerType, Out
  <2>2. QED
    BY <1>0, <1>23, <2>1 DEF PubEmpty
<1>24. ASSUME PubEmptyCheck PROVE TypeOK'
  <2>1. PublisherType'
    BY <1>24, NoneIsNothing, OutOfType, PublishReplyType, TransportAssumption DEF PubEmptyCheck, PublisherType, Kind, BrokerType, Out
  <2>2. QED
    BY <1>0, <1>24, <2>1 DEF PubEmptyCheck
<1>25. ASSUME PublishOk PROVE TypeOK'
  <2>1. PublisherType'
    BY <1>25, NoneIsNothing, OutOfType, PublishReplyType, TransportAssumption DEF PublishOk, Try, PublisherType, Kind, BrokerType, Out
  <2>2. QED
    BY <1>0, <1>25, <2>1 DEF PublishOk, Try
<1>26. ASSUME PublishFails PROVE TypeOK'
  <2>1. PublisherType'
    BY <1>26, NoneIsNothing, OutOfType, PublishReplyType, TransportAssumption DEF PublishFails, Try, PublisherType, Kind, BrokerType, Out
  <2>2. QED
    BY <1>0, <1>26, <2>1 DEF PublishFails, Try
<1>27. ASSUME ConnectGivesUp PROVE TypeOK'
  <2>1. PublisherType'
    BY <1>27, NoneIsNothing, OutOfType, PublishReplyType, TransportAssumption DEF ConnectGivesUp, PublisherType, Kind, BrokerType, Out
  <2>2. QED
    BY <1>0, <1>27, <2>1 DEF ConnectGivesUp
<1>28. ASSUME Sigterm PROVE TypeOK'
  <2>1. MainType'
    BY <1>28 DEF Sigterm, MainType, Phase
  <2>2. QED
    BY <1>0, <1>28, <2>1 DEF Sigterm
<1>29. ASSUME SecondSignal PROVE TypeOK'
  <2>1. BrokerType'
    BY <1>29 DEF SecondSignal, Exit, BrokerType
  <2>2. ConsumerType'
    BY <1>29, NoneIsNothing, TransportAssumption DEF SecondSignal, Exit, ConsumerType, Consumer
  <2>3. MainType'
    BY <1>29 DEF SecondSignal, Exit, MainType, Phase
  <2>4. QED
    BY <1>0, <1>29, <2>1, <2>2, <2>3 DEF SecondSignal, Exit
<1>30. ASSUME StopPool PROVE TypeOK'
  <2>1. PoolType'
    BY <1>30, NoneIsNothing, TransportAssumption DEF StopPool, PoolType
  <2>2. MainType'
    BY <1>30 DEF StopPool, MainType, Phase
  <2>3. QED
    BY <1>0, <1>30, <2>1, <2>2 DEF StopPool
<1>31. ASSUME JoinPool PROVE TypeOK'
  <2>1. MainType'
    BY <1>31 DEF JoinPool, MainType, Phase
  <2>2. QED
    BY <1>0, <1>31, <2>1 DEF JoinPool
<1>32. ASSUME StopPublisher PROVE TypeOK'
  <2>1. PublisherType'
    BY <1>32, NoneIsNothing, OutOfType, PublishReplyType, TransportAssumption DEF StopPublisher, PublisherType, Kind, BrokerType, Out
  <2>2. MainType'
    BY <1>32 DEF StopPublisher, MainType, Phase
  <2>3. QED
    BY <1>0, <1>32, <2>1, <2>2 DEF StopPublisher
<1>33. ASSUME JoinPublisher PROVE TypeOK'
  <2>1. BrokerType'
    BY <1>33 DEF JoinPublisher, Exit, BrokerType
  <2>2. ConsumerType'
    BY <1>33, NoneIsNothing, TransportAssumption DEF JoinPublisher, Exit, ConsumerType, Consumer
  <2>3. MainType'
    BY <1>33 DEF JoinPublisher, Exit, MainType, Phase
  <2>4. QED
    BY <1>0, <1>33, <2>1, <2>2, <2>3 DEF JoinPublisher, Exit
<1>34. CASE UNCHANGED vars
    BY <1>0, <1>34 DEF vars
<1>35. QED
    BY <1>1, <1>2, <1>3, <1>4, <1>5, <1>6, <1>7, <1>8, <1>9, <1>10, <1>11, <1>12, <1>13, <1>14, <1>15, <1>16, <1>17, <1>18, <1>19, <1>20, <1>21, <1>22, <1>23, <1>24, <1>25, <1>26, <1>27, <1>28, <1>29, <1>30, <1>31, <1>32, <1>33, <1>34 DEF Next, Broker, ConsumerStep, WorkerStep, PublisherStep, MainStep

\* The threads start in a typed state.
LEMMA TypeInit == Init => TypeOK
<1> SUFFICES ASSUME Init PROVE TypeOK
  OBVIOUS
<1>1. BrokerType
  BY DEF Init, BrokerType
<1>2. ConsumerType
  BY DEF Init, ConsumerType
<1>3. PoolType
  <2>1. attempt \in [Worker -> 0..MaxRetries]
      BY TransportAssumption DEF Init
  <2>2. pstop \in BOOLEAN
      BY DEF Init
  <2>3. /\ item \in [Worker -> Item \cup {None}]
        /\ wpc \in [Worker -> {"check", "get", "run", "backoff", "exit"}]
        /\ \A w \in Worker : item[w] = None /\ wpc[w] = "check"
      BY DEF Init
  <2>4. queue \in SUBSET Item /\ quiet \in SUBSET Item /\ abandoned \in SUBSET Item
      BY DEF Init
  <2>5. QED
      BY <2>1, <2>2, <2>3, <2>4 DEF PoolType
<1>4. PublisherType
  <2>1. outbox \in Seq(Out \cup {None}) /\ sent \in SUBSET (Out \X {1, 2})
      BY DEF Init
  <2>2. QED
      BY <2>1 DEF Init, PublisherType
<1>5. MainType
  BY DEF Init, MainType, Phase
<1>6. QED
  BY <1>1, <1>2, <1>3, <1>4, <1>5 DEF TypeOK

\* Transport never leaves its types: in particular a thread holds an item exactly
\* between taking it and passing it on, and no item is attempted more than
\* 1 + MaxRetries times.
THEOREM TypeCorrect == Spec => []TypeOK
BY TypeInit, TypeStep, PTL DEF Spec

-----------------------------------------------------------------------------
(* Traces: where an arrival is known of *)

\* An outbound message leaves the same trace as the item it is about.
LEMMA TraceOfOut ==
    ASSUME NEW kind, NEW i \in Item, NEW n
    PROVE  Trace(OutOf(kind, i, n)) = Trace(i)
BY DEF Trace, OutOf

\* Putting a message on the outbox adds its trace; putting None adds nothing.
LEMMA OutboxAppend ==
    ASSUME outbox \in Seq(Out \cup {None}), NEW o \in Out \cup {None},
           outbox' = Append(outbox, o)
    PROVE  OutboxTraces' = OutboxTraces \cup (IF o = None THEN {} ELSE {Trace(o)})
<1>1. /\ Len(outbox') = Len(outbox) + 1
      /\ DOMAIN outbox = 1..Len(outbox)
      /\ DOMAIN outbox' = 1..(Len(outbox) + 1)
      /\ Len(outbox) \in Nat
      /\ outbox'[Len(outbox) + 1] = o
      /\ \A k \in 1..Len(outbox) : outbox'[k] = outbox[k]
    OBVIOUS
<1>2. ASSUME NEW t \in OutboxTraces' PROVE t \in OutboxTraces \cup (IF o = None THEN {} ELSE {Trace(o)})
  <2>1. PICK k \in DOMAIN outbox' : outbox'[k] # None /\ t = Trace(outbox'[k])
    BY DEF OutboxTraces
  <2>2. CASE k = Len(outbox) + 1
    BY <1>1, <2>1, <2>2
  <2>3. CASE k \in 1..Len(outbox)
    BY <1>1, <2>1, <2>3 DEF OutboxTraces
  <2>4. QED
    BY <1>1, <2>1, <2>2, <2>3
<1>3. OutboxTraces \subseteq OutboxTraces'
    BY <1>1 DEF OutboxTraces
<1>4. o # None => Trace(o) \in OutboxTraces'
  <2>1. SUFFICES ASSUME o # None PROVE Trace(o) \in OutboxTraces'
    OBVIOUS
  <2>2. Len(outbox) + 1 \in {j \in DOMAIN outbox' : outbox'[j] # None}
    BY <1>1, <2>1
  <2>3. QED
    BY <1>1, <2>2 DEF OutboxTraces
<1>5. QED
    BY <1>2, <1>3, <1>4

\* Taking the head off the outbox takes off its trace, and only that.
LEMMA OutboxTail ==
    ASSUME outbox \in Seq(Out \cup {None}), outbox # <<>>, outbox' = Tail(outbox)
    PROVE  OutboxTraces = OutboxTraces'
                \cup (IF Head(outbox) = None THEN {} ELSE {Trace(Head(outbox))})
<1>1. /\ Len(outbox) \in Nat \ {0}
      /\ DOMAIN outbox = 1..Len(outbox)
      /\ DOMAIN outbox' = 1..(Len(outbox) - 1)
      /\ Head(outbox) = outbox[1]
      /\ \A k \in 1..(Len(outbox) - 1) : outbox'[k] = outbox[k + 1]
    OBVIOUS
<1>2. ASSUME NEW t \in OutboxTraces
      PROVE  t \in OutboxTraces' \cup (IF Head(outbox) = None THEN {} ELSE {Trace(Head(outbox))})
  <2>1. PICK k \in DOMAIN outbox : outbox[k] # None /\ t = Trace(outbox[k])
    BY DEF OutboxTraces
  <2>2. CASE k = 1
    BY <1>1, <2>1, <2>2
  <2>3. CASE k # 1
    <3>1. k - 1 \in {j \in DOMAIN outbox' : outbox'[j] # None} /\ outbox'[k - 1] = outbox[k]
        BY <1>1, <2>1, <2>3
    <3>2. QED
        BY <2>1, <3>1 DEF OutboxTraces
  <2>4. QED
    BY <2>2, <2>3
<1>3. ASSUME NEW t \in OutboxTraces' PROVE t \in OutboxTraces
  <2>1. PICK k \in DOMAIN outbox' : outbox'[k] # None /\ t = Trace(outbox'[k])
    BY DEF OutboxTraces
  <2>2. k + 1 \in {j \in DOMAIN outbox : outbox[j] # None} /\ outbox[k + 1] = outbox'[k]
    BY <1>1, <2>1
  <2>3. QED
    BY <2>1, <2>2 DEF OutboxTraces
<1>4. Head(outbox) # None => Trace(Head(outbox)) \in OutboxTraces
  <2>1. SUFFICES ASSUME Head(outbox) # None PROVE Trace(Head(outbox)) \in OutboxTraces
    OBVIOUS
  <2>2. 1 \in {j \in DOMAIN outbox : outbox[j] # None}
    BY <1>1, <2>1
  <2>3. QED
    BY <1>1, <2>2 DEF OutboxTraces
<1>5. QED
    BY <1>2, <1>3, <1>4

\* A worker that lets go of its item takes its trace with it; the other workers
\* keep theirs.
LEMMA WorkerLetsGo ==
    ASSUME NEW w \in Worker, TypeOK, item[w] # None, item' = [item EXCEPT ![w] = None]
    PROVE  WorkerTraces = WorkerTraces' \cup {Trace(item[w])}
<1>1. \A v \in Worker : v # w => item'[v] = item[v]
    BY DEF TypeOK, PoolType
<1>2. item'[w] = None
    BY DEF TypeOK, PoolType
<1>3. QED
    BY <1>1, <1>2 DEF WorkerTraces

\* The part of the state that traces are read from.
traceVars == <<hand, queue, item, quiet, abandoned, outbox, cur, sent>>

\* Steps that leave these variables alone leave the traces alone.
LEMMA TracesFrame == UNCHANGED traceVars => Traces' = Traces
BY DEF traceVars, Traces, HandTraces, QueueTraces, WorkerTraces, DoneTraces,
       OutboxTraces, GoneTraces, Gone

\* A worker that is done with its item leaves the trace in the outbox or among
\* the finished items.
LEMMA WorkerTracesMove ==
    ASSUME TypeOK, NEW w \in Worker, wpc[w] \in {"run", "backoff"}, Finish(w),
           UNCHANGED <<hand, queue, cur, sent>>,
           \/ /\ DoneTraces' = DoneTraces \cup {Trace(item[w])}
              /\ OutboxTraces' = OutboxTraces
           \/ /\ DoneTraces' = DoneTraces
              /\ OutboxTraces' = OutboxTraces \cup {Trace(item[w])}
    PROVE  Traces' = Traces
<1>1. WorkerTraces = WorkerTraces' \cup {Trace(item[w])}
    BY WorkerLetsGo DEF Finish, TypeOK, PoolType
<1>2. HandTraces' = HandTraces /\ QueueTraces' = QueueTraces /\ GoneTraces' = GoneTraces
    BY DEF HandTraces, QueueTraces, GoneTraces, Gone
<1>3. QED
    BY <1>1, <1>2 DEF Traces

\* _fail: the dead letter takes over from the item.
LEMMA FailMoves ==
    ASSUME TypeOK, NEW w \in Worker, wpc[w] = "run", Fail(w), Finish(w),
           UNCHANGED <<hand, queue, cur, sent, abandoned>>
    PROVE  Traces' = Traces
<1>1. item[w] \in Item /\ attempt[w] \in Nat
    BY TransportAssumption DEF TypeOK, PoolType
<1>2. OutboxTraces' = OutboxTraces \cup {Trace(item[w])}
    BY <1>1, OutboxAppend, OutOfType, TraceOfOut, NoneIsNothing
       DEF Fail, TypeOK, PublisherType, Kind
<1>3. DoneTraces' = DoneTraces
    BY DEF Fail, DoneTraces
<1>4. QED
    BY <1>2, <1>3, WorkerTracesMove

\* _publish_reply: the reply or result takes over, or the item is finished.
LEMMA SucceedMoves ==
    ASSUME TypeOK, NEW w \in Worker, wpc[w] = "run", NEW r, Succeed(w, r), Finish(w),
           UNCHANGED <<hand, queue, cur, sent, abandoned>>
    PROVE  Traces' = Traces
<1>1. item[w] \in Item
    BY DEF TypeOK, PoolType
<1>2. CASE PublishReply(item[w], r) = <<>>
  <2>1. outbox' = outbox /\ quiet' = quiet \cup {item[w]}
    BY <1>2 DEF Succeed, TypeOK, PublisherType
  <2>2. OutboxTraces' = OutboxTraces /\ DoneTraces' = DoneTraces \cup {Trace(item[w])}
    BY <2>1 DEF OutboxTraces, DoneTraces
  <2>3. QED
    BY <2>2, WorkerTracesMove
<1>3. CASE PublishReply(item[w], r) # <<>>
  <2>1. PICK kind \in Kind : PublishReply(item[w], r) = <<OutOf(kind, item[w], 0)>>
    BY <1>3 DEF PublishReply, Kind
  <2>2. outbox' = Append(outbox, OutOf(kind, item[w], 0)) /\ quiet' = quiet
    BY <1>3, <2>1 DEF Succeed, TypeOK, PublisherType
  <2>3. OutOf(kind, item[w], 0) \in Out /\ Trace(OutOf(kind, item[w], 0)) = Trace(item[w])
    BY <1>1, OutOfType, TraceOfOut
  <2>4. OutboxTraces' = OutboxTraces \cup {Trace(item[w])}
    BY <2>2, <2>3, OutboxAppend, NoneIsNothing DEF TypeOK, PublisherType
  <2>5. DoneTraces' = DoneTraces
    BY <2>2 DEF DoneTraces
  <2>6. QED
    BY <2>4, <2>5, WorkerTracesMove
<1>4. QED
    BY <1>2, <1>3

\* Only _on_message makes a trace, only a failed publish loses one, and every
\* other step of every thread passes the traces on unchanged.
LEMMA TracesStep ==
    ASSUME TypeOK, [Next]_vars
    PROVE  \/ Traces' = Traces
           \/ \E c \in Consumer, m \in Message :
                 OnMessage(c, m) /\ Keeps(c, m) /\ Traces' = Traces \cup {<<m, c, seq>>}
           \/ \E c \in Consumer, m \in Message :
                 OnMalformed(c, m) /\ Traces' = Traces \cup {<<m, c, 0>>}
           \/ /\ PublishFails \/ ConnectGivesUp
              /\ Traces' \subseteq Traces
<1> DEFINE Goal == \/ Traces' = Traces
                   \/ \E c \in Consumer, m \in Message :
                         OnMessage(c, m) /\ Keeps(c, m) /\ Traces' = Traces \cup {<<m, c, seq>>}
                   \/ \E c \in Consumer, m \in Message :
                         OnMalformed(c, m) /\ Traces' = Traces \cup {<<m, c, 0>>}
                   \/ /\ PublishFails \/ ConnectGivesUp
                      /\ Traces' \subseteq Traces
<1> USE DEF TypeOK, brokerVars, consVars, poolVars, pubVars, mainVars
<1>1. ASSUME NEW c \in Consumer, Submit(c) PROVE Traces' = Traces
  <2>1. \A d \in Consumer : d # c => hand'[d] = hand[d]
    BY <1>1 DEF Submit, ConsumerType
  <2>2. hand'[c] = None /\ hand[c] # None
    BY <1>1 DEF Submit, ConsumerType
  <2>3. HandTraces = HandTraces' \cup {Trace(hand[c])}
    BY <2>1, <2>2 DEF HandTraces
  <2>4. QueueTraces' = QueueTraces \cup {Trace(hand[c])}
    BY <1>1 DEF Submit, QueueTraces
  <2>5. WorkerTraces' = WorkerTraces /\ DoneTraces' = DoneTraces
        /\ OutboxTraces' = OutboxTraces /\ GoneTraces' = GoneTraces
    BY <1>1 DEF Submit, WorkerTraces, DoneTraces, OutboxTraces, GoneTraces, Gone
  <2>6. QED
    BY <2>3, <2>4, <2>5 DEF Traces
<1>2. ASSUME NEW c \in Consumer, NEW m \in Message, OnMessage(c, m) PROVE Goal
  <2>1. CASE ~Keeps(c, m)
    BY <1>2, <2>1, TracesFrame DEF OnMessage, traceVars
  <2>2. CASE Keeps(c, m)
    <3>1. PICK p \in Priorities(m) :
             hand' = [hand EXCEPT ![c] = [msg |-> m, prio |-> p, num |-> seq, src |-> c]]
        BY <1>2, <2>2 DEF OnMessage
    <3>2. /\ hand'[c] = [msg |-> m, prio |-> p, num |-> seq, src |-> c]
          /\ hand[c] = None
          /\ \A d \in Consumer : d # c => hand'[d] = hand[d]
        BY <1>2, <3>1 DEF OnMessage, ConsumerType
    <3>3. hand'[c] # None /\ Trace(hand'[c]) = <<m, c, seq>>
        <4>1. ConsumerType'
            BY <1>2, TypeStep DEF vars, Next, ConsumerStep
        <4>2. cpc'[c] = "submit"
            BY <1>2, <2>2 DEF OnMessage, ConsumerType
        <4>3. QED
            BY <3>2, <4>1, <4>2 DEF ConsumerType, Trace
    <3>4. HandTraces' = HandTraces \cup {<<m, c, seq>>}
        BY <3>2, <3>3 DEF HandTraces
    <3>5. QueueTraces' = QueueTraces /\ WorkerTraces' = WorkerTraces /\ DoneTraces' = DoneTraces
          /\ OutboxTraces' = OutboxTraces /\ GoneTraces' = GoneTraces
        BY <1>2 DEF OnMessage, QueueTraces, WorkerTraces, DoneTraces, OutboxTraces, GoneTraces, Gone
    <3>6. QED
        BY <1>2, <2>2, <3>4, <3>5 DEF Traces
  <2>3. QED
    BY <2>1, <2>2
<1>3. ASSUME NEW c \in Consumer, NEW m \in Message, OnMalformed(c, m) PROVE Goal
  <2> DEFINE o == [kind |-> "dead", msg |-> m, src |-> c, num |-> 0, retries |-> 0]
  <2>1. o \in Out /\ Trace(o) = <<m, c, 0>>
    BY DEF Out, Kind, Trace
  <2>2. OutboxTraces' = OutboxTraces \cup {<<m, c, 0>>}
    BY <1>3, <2>1, OutboxAppend, NoneIsNothing DEF OnMalformed, PublisherType
  <2>3. HandTraces' = HandTraces /\ QueueTraces' = QueueTraces /\ WorkerTraces' = WorkerTraces
        /\ DoneTraces' = DoneTraces /\ GoneTraces' = GoneTraces
    BY <1>3 DEF OnMalformed, HandTraces, QueueTraces, WorkerTraces, DoneTraces, GoneTraces, Gone
  <2>4. Traces' = Traces \cup {<<m, c, 0>>}
    BY <2>2, <2>3 DEF Traces
  <2>5. QED
    BY <1>3, <2>4
<1>4. ASSUME NEW w \in Worker, GetItem(w) PROVE Traces' = Traces
  <2>1. PICK i \in queue : queue' = queue \ {i} /\ item' = [item EXCEPT ![w] = i]
    BY <1>4 DEF GetItem
  <2>2. /\ item'[w] = i /\ i # None /\ item[w] = None
        /\ \A v \in Worker : v # w => item'[v] = item[v]
    BY <1>4, <2>1, NoneIsNothing DEF GetItem, PoolType
  <2>3. WorkerTraces' = WorkerTraces \cup {Trace(i)}
    BY <2>2 DEF WorkerTraces
  <2>4. QueueTraces = QueueTraces' \cup {Trace(i)}
    BY <2>1 DEF QueueTraces
  <2>5. HandTraces' = HandTraces /\ DoneTraces' = DoneTraces
        /\ OutboxTraces' = OutboxTraces /\ GoneTraces' = GoneTraces
    BY <1>4 DEF GetItem, HandTraces, DoneTraces, OutboxTraces, GoneTraces, Gone
  <2>6. QED
    BY <2>3, <2>4, <2>5 DEF Traces
<1>5. ASSUME NEW w \in Worker, HandlerReturns(w) PROVE Traces' = Traces
    BY <1>5, FailMoves, SucceedMoves DEF HandlerReturns
<1>6. ASSUME NEW w \in Worker, HandlerRejects(w) PROVE Traces' = Traces
    BY <1>6, FailMoves DEF HandlerRejects
<1>7. ASSUME NEW w \in Worker, UnknownKey(w) PROVE Traces' = Traces
  <2>1. DoneTraces' = DoneTraces \cup {Trace(item[w])} /\ OutboxTraces' = OutboxTraces
    BY <1>7 DEF UnknownKey, DoneTraces, OutboxTraces
  <2>2. QED
    BY <1>7, <2>1, WorkerTracesMove DEF UnknownKey
<1>8. ASSUME NEW w \in Worker, HandlerRaises(w) PROVE Traces' = Traces
  <2>1. CASE ~RetriesLeft(w)
    BY <1>8, <2>1, FailMoves DEF HandlerRaises
  <2>2. CASE RetriesLeft(w)
    BY <1>8, <2>2, TracesFrame DEF HandlerRaises, traceVars
  <2>3. QED
    BY <2>1, <2>2
<1>9. ASSUME NEW w \in Worker, BackoffStopped(w) PROVE Traces' = Traces
  <2>1. DoneTraces' = DoneTraces \cup {Trace(item[w])} /\ OutboxTraces' = OutboxTraces
    BY <1>9 DEF BackoffStopped, DoneTraces, OutboxTraces
  <2>2. QED
    BY <1>9, <2>1, WorkerTracesMove DEF BackoffStopped
<1>10. ASSUME PubGet PROVE Traces' = Traces
  <2>1. OutboxTraces = OutboxTraces'
            \cup (IF Head(outbox) = None THEN {} ELSE {Trace(Head(outbox))})
    BY <1>10, OutboxTail DEF PubGet, PublisherType
  <2>2. GoneTraces' = GoneTraces \cup (IF Head(outbox) = None THEN {} ELSE {Trace(Head(outbox))})
    BY <1>10 DEF PubGet, PublisherType, GoneTraces, Gone
  <2>3. HandTraces' = HandTraces /\ QueueTraces' = QueueTraces /\ WorkerTraces' = WorkerTraces
        /\ DoneTraces' = DoneTraces
    BY <1>10 DEF PubGet, HandTraces, QueueTraces, WorkerTraces, DoneTraces
  <2>4. QED
    BY <2>1, <2>2, <2>3 DEF Traces
<1>11. ASSUME PublishOk \/ PublishFails \/ ConnectGivesUp PROVE Goal
  <2>1. PublishOk => GoneTraces' = GoneTraces
    <3> SUFFICES ASSUME PublishOk PROVE Gone' = Gone
        BY DEF GoneTraces
    <3>1. cur \in Out /\ cur # None
        BY NoneIsNothing DEF PublishOk, PublisherType
    <3>2. {s[1] : s \in sent'} = {s[1] : s \in sent} \cup {cur}
        <4> DEFINE p == <<cur, Try>>
        <4>1. sent' = sent \cup {p}
            BY DEF PublishOk
        <4>2. p[1] = cur
            OBVIOUS
        <4> HIDE DEF p
        <4>3. QED
            BY <4>1, <4>2
    <3>3. cur' = None
        BY DEF PublishOk
    <3>4. QED
        BY <3>1, <3>2, <3>3 DEF Gone
  <2>2. PublishFails \/ ConnectGivesUp => GoneTraces' \subseteq GoneTraces
    BY NoneIsNothing DEF PublishFails, ConnectGivesUp, PublisherType, GoneTraces, Gone
  <2>3. HandTraces' = HandTraces /\ QueueTraces' = QueueTraces /\ WorkerTraces' = WorkerTraces
        /\ DoneTraces' = DoneTraces /\ OutboxTraces' = OutboxTraces
    BY <1>11 DEF PublishOk, PublishFails, ConnectGivesUp,
                 HandTraces, QueueTraces, WorkerTraces, DoneTraces, OutboxTraces
  <2>4. QED
    BY <1>11, <2>1, <2>2, <2>3 DEF Traces
<1>12. ASSUME StopPublisher PROVE Traces' = Traces
  <2>1. OutboxTraces' = OutboxTraces
    BY <1>12, OutboxAppend DEF StopPublisher, PublisherType
  <2>2. QED
    BY <1>12, <2>1 DEF StopPublisher, Traces, HandTraces, QueueTraces, WorkerTraces,
                       DoneTraces, GoneTraces, Gone
<1>13. ASSUME NEW c \in Consumer,
              \/ \E m \in Message : Deliver(c, m)
              \/ LoseConnection(c) \/ ConsumerCheck(c) \/ Connect(c)
              \/ NoticeLoss(c) \/ StopConsuming(c) \/ Nack(c) \/ StopConsumer(c) \/ JoinConsumer(c)
       PROVE  Traces' = Traces
    BY <1>13, TracesFrame DEF Deliver, LoseConnection, ConsumerCheck, Connect, NoticeLoss,
                              StopConsuming, Nack, StopConsumer, JoinConsumer, traceVars
<1>14. ASSUME NEW w \in Worker, WorkerCheck(w) \/ GetEmpty(w) \/ BackoffOver(w)
       PROVE  Traces' = Traces
    BY <1>14, TracesFrame DEF WorkerCheck, GetEmpty, BackoffOver, traceVars
<1>15. ASSUME \/ PubEmpty \/ PubEmptyCheck \/ Sigterm \/ SecondSignal \/ StopPool \/ JoinPool
              \/ JoinPublisher \/ UNCHANGED vars
       PROVE  Traces' = Traces
    BY <1>15, TracesFrame DEF PubEmpty, PubEmptyCheck, Sigterm, SecondSignal, StopPool, JoinPool,
                              JoinPublisher, Exit, traceVars, vars
<1>16. QED
    BY <1>1, <1>2, <1>3, <1>4, <1>5, <1>6, <1>7, <1>8, <1>9, <1>10, <1>11, <1>12, <1>13, <1>14, <1>15
       DEF Next, Broker, ConsumerStep, WorkerStep, PublisherStep, MainStep

-----------------------------------------------------------------------------
(* No message is lost silently, and none is processed twice without redelivery *)

\* The dead letter of a message about to be nacked has been put on the outbox.
NackAfterDeadLetter ==
    \A c \in Consumer : cpc[c] = "nack" =>
        /\ bad[c] \notin WellFormed
        /\ pubFaults = 0 => \E t \in Traces : t[1] = bad[c] /\ t[2] = c

\* What traces say: an arrival number belongs to a parsed message, and to the
\* consumer whose filter keeps it.
TracesAreOwned ==
    \A t \in Traces : /\ t \in Message \X Consumer \X Nat
                      /\ t[1] \in WellFormed => Keeps(t[2], t[1])

\* A queue offers a message once; until a connection is lost it never offers one
\* its consumer has already taken.
TakenOnce ==
    /\ \A c \in Consumer : inq[c] \cap pend[c] = {}
    /\ losses = 0 => \A t \in Traces :
          t[1] \in WellFormed => t[1] \notin inq[t[2]] \cup pend[t[2]]

TransportInv == /\ TypeOK /\ NackAfterDeadLetter /\ TracesAreOwned /\ TakenOnce
                /\ NoSilentLoss /\ OnceWithoutRedelivery

\* The filters split the routing keys: no message is kept by both consumers.
LEMMA OneKeeper ==
    ASSUME NEW c \in Consumer, NEW d \in Consumer, NEW m, Keeps(c, m), Keeps(d, m)
    PROVE  c = d
BY DEF Keeps, Consumer

\* What one step does to what the broker still offers a consumer: without a lost
\* connection nothing comes back, and a message leaves by being acked or nacked.
LEMMA OfferStep ==
    ASSUME TypeOK, [Next]_vars, NEW c \in Consumer
    PROVE  /\ losses' \in Nat /\ (losses' = 0 => losses = 0)
           /\ pubFaults' \in Nat /\ (pubFaults' = 0 => pubFaults = 0)
           /\ losses' = 0 => inq'[c] \cup pend'[c] \subseteq inq[c] \cup pend[c]
           /\ inq[c] \cap pend[c] = {} => inq'[c] \cap pend'[c] = {}
           /\ \A m \in (inq[c] \cup pend[c]) \ (inq'[c] \cup pend'[c]) :
                 OnMessage(c, m) \/ (cpc[c] = "nack" /\ m = bad[c])
<1> DEFINE Goal == /\ losses' \in Nat /\ (losses' = 0 => losses = 0)
                   /\ pubFaults' \in Nat /\ (pubFaults' = 0 => pubFaults = 0)
                   /\ losses' = 0 => inq'[c] \cup pend'[c] \subseteq inq[c] \cup pend[c]
                   /\ inq[c] \cap pend[c] = {} => inq'[c] \cap pend'[c] = {}
                   /\ \A m \in (inq[c] \cup pend[c]) \ (inq'[c] \cup pend'[c]) :
                         OnMessage(c, m) \/ (cpc[c] = "nack" /\ m = bad[c])
<1> USE DEF TypeOK, BrokerType, MainType, PublisherType, brokerVars, consVars, poolVars, pubVars, mainVars
<1>1. ASSUME NEW d \in Consumer, NEW m \in Message, Deliver(d, m) PROVE Goal
    BY <1>1 DEF Deliver
<1>2. ASSUME NEW d \in Consumer, LoseConnection(d) PROVE Goal
    BY <1>2 DEF LoseConnection
<1>3. ASSUME NEW d \in Consumer, StopConsuming(d) PROVE Goal
    BY <1>3 DEF StopConsuming
<1>4. ASSUME NEW d \in Consumer, JoinConsumer(d) PROVE Goal
    BY <1>4 DEF JoinConsumer
<1>5. ASSUME JoinPublisher \/ SecondSignal PROVE Goal
    BY <1>5 DEF JoinPublisher, SecondSignal, Exit
<1>6. ASSUME NEW d \in Consumer, Nack(d) PROVE Goal
    BY <1>6 DEF Nack
<1>7. ASSUME NEW d \in Consumer, NEW m \in Message, OnMessage(d, m) PROVE Goal
  <2>1. CASE d # c
    BY <1>7, <2>1 DEF OnMessage
  <2>2. CASE d = c
    <3>1. inq' = inq /\ pend'[c] = pend[c] \ {m} /\ UNCHANGED <<losses, pubFaults>>
        BY <1>7, <2>2 DEF OnMessage
    <3>2. QED
        BY <1>7, <2>2, <3>1
  <2>3. QED
    BY <2>1, <2>2
<1>8. ASSUME PublishFails \/ ConnectGivesUp PROVE Goal
    BY <1>8 DEF PublishFails, ConnectGivesUp
<1>9. ASSUME UNCHANGED <<inq, pend, losses, pubFaults>> PROVE Goal
    BY <1>9
<1>10. ASSUME NEW d \in Consumer,
              \/ ConsumerCheck(d) \/ Connect(d) \/ NoticeLoss(d) \/ Submit(d) \/ StopConsumer(d)
              \/ \E m \in Message : OnMalformed(d, m)
       PROVE  Goal
    BY <1>9, <1>10 DEF ConsumerCheck, Connect, NoticeLoss, Submit, StopConsumer, OnMalformed
<1>11. ASSUME NEW w \in Worker, WorkerStep(w) PROVE Goal
    BY <1>9, <1>11 DEF WorkerStep, WorkerCheck, GetEmpty, GetItem, HandlerReturns, HandlerRejects,
                       UnknownKey, HandlerRaises, BackoffOver, BackoffStopped
<1>12. ASSUME \/ PubGet \/ PubEmpty \/ PubEmptyCheck \/ PublishOk
              \/ Sigterm \/ StopPool \/ JoinPool \/ StopPublisher \/ UNCHANGED vars
       PROVE  Goal
    BY <1>9, <1>12 DEF PubGet, PubEmpty, PubEmptyCheck, PublishOk, Sigterm, StopPool, JoinPool,
                       StopPublisher, vars
<1>13. QED
    BY <1>1, <1>2, <1>3, <1>4, <1>5, <1>6, <1>7, <1>8, <1>10, <1>11, <1>12
       DEF Next, Broker, ConsumerStep, PublisherStep, MainStep

\* A consumer comes to its nack from putting the dead letter on the outbox.
LEMMA NackStep ==
    ASSUME TypeOK, [Next]_vars, NEW c \in Consumer, cpc'[c] = "nack"
    PROVE  \/ cpc[c] = "nack" /\ bad'[c] = bad[c]
           \/ \E m \in Message : OnMalformed(c, m) /\ bad'[c] = m
<1> DEFINE Goal == \/ cpc[c] = "nack" /\ bad'[c] = bad[c]
                   \/ \E m \in Message : OnMalformed(c, m) /\ bad'[c] = m
<1> USE DEF TypeOK, ConsumerType, brokerVars, consVars, poolVars, pubVars, mainVars
<1>1. ASSUME NEW d \in Consumer, NEW m \in Message, OnMalformed(d, m) PROVE Goal
    BY <1>1 DEF OnMalformed
<1>2. ASSUME NEW d \in Consumer, NEW m \in Message, OnMessage(d, m) PROVE Goal
    BY <1>2 DEF OnMessage
<1>3. ASSUME NEW d \in Consumer, Nack(d) PROVE Goal
    BY <1>3 DEF Nack
<1>4. ASSUME NEW d \in Consumer,
             ConsumerCheck(d) \/ Connect(d) \/ NoticeLoss(d) \/ StopConsuming(d) \/ Submit(d)
      PROVE  Goal
    BY <1>4 DEF ConsumerCheck, Connect, NoticeLoss, AfterLoss, StopConsuming, Submit
<1>5. ASSUME UNCHANGED <<cpc, bad>> PROVE Goal
    BY <1>5
<1>6. ASSUME NEW d \in Consumer,
             \/ LoseConnection(d) \/ StopConsumer(d) \/ JoinConsumer(d)
             \/ \E m \in Message : Deliver(d, m)
      PROVE  Goal
    BY <1>5, <1>6 DEF LoseConnection, StopConsumer, JoinConsumer, Deliver
<1>7. ASSUME NEW w \in Worker, WorkerStep(w) PROVE Goal
    BY <1>5, <1>7 DEF WorkerStep, WorkerCheck, GetEmpty, GetItem, HandlerReturns, HandlerRejects,
                      UnknownKey, HandlerRaises, BackoffOver, BackoffStopped
<1>8. ASSUME \/ PublisherStep \/ Sigterm \/ SecondSignal \/ StopPool \/ JoinPool \/ StopPublisher
             \/ JoinPublisher \/ UNCHANGED vars
      PROVE  Goal
    BY <1>5, <1>8 DEF PublisherStep, PubGet, PubEmpty, PubEmptyCheck, PublishOk, PublishFails,
                      ConnectGivesUp, Sigterm, SecondSignal, StopPool, JoinPool, StopPublisher,
                      JoinPublisher, Exit, vars
<1>9. QED
    BY <1>1, <1>2, <1>3, <1>4, <1>6, <1>7, <1>8 DEF Next, Broker, ConsumerStep, MainStep

\* The inductive invariant is preserved.
LEMMA TransportInvStep == TransportInv /\ [Next]_vars => TransportInv'
<1> SUFFICES ASSUME TransportInv, [Next]_vars PROVE TransportInv'
    OBVIOUS
<1> USE DEF TransportInv
<1>1. TypeOK'
    BY TypeStep
<1>2. ASSUME NEW t \in Traces', t \notin Traces
      PROVE  \/ \E c \in Consumer, m \in Message :
                   OnMessage(c, m) /\ Keeps(c, m) /\ t = <<m, c, seq>>
             \/ \E c \in Consumer, m \in Message : OnMalformed(c, m) /\ t = <<m, c, 0>>
    BY <1>2, TracesStep
<1>3. pubFaults' = 0 => Traces \subseteq Traces'
  <2>1. PublishFails \/ ConnectGivesUp => pubFaults' # 0
    BY DEF PublishFails, ConnectGivesUp, TypeOK, PublisherType
  <2>2. QED
    BY <2>1, TracesStep
<1>4. TracesAreOwned'
  <2> SUFFICES ASSUME NEW t \in Traces'
               PROVE  t \in Message \X Consumer \X Nat /\ (t[1] \in WellFormed => Keeps(t[2], t[1]))
    BY DEF TracesAreOwned, Keeps
  <2>1. CASE t \in Traces
    BY <2>1 DEF TracesAreOwned
  <2>2. ASSUME NEW c \in Consumer, NEW m \in Message, OnMessage(c, m), Keeps(c, m), t = <<m, c, seq>>
        PROVE  t \in Message \X Consumer \X Nat /\ (t[1] \in WellFormed => Keeps(t[2], t[1]))
    BY <2>2 DEF TypeOK, ConsumerType
  <2>3. ASSUME NEW c \in Consumer, NEW m \in Message, OnMalformed(c, m), t = <<m, c, 0>>
        PROVE  t \in Message \X Consumer \X Nat /\ (t[1] \in WellFormed => Keeps(t[2], t[1]))
    BY <2>3 DEF OnMalformed
  <2>4. QED
    BY <1>2, <2>1, <2>2, <2>3
<1>5. TakenOnce'
  <2>1. ASSUME NEW c \in Consumer PROVE inq'[c] \cap pend'[c] = {}
    BY <2>1, OfferStep DEF TakenOnce
  <2>2. ASSUME losses' = 0, NEW t \in Traces', t[1] \in WellFormed
        PROVE  t[1] \notin inq'[t[2]] \cup pend'[t[2]]
    <3>1. t[2] \in Consumer
        BY <1>4 DEF TracesAreOwned
    <3>2. CASE t \in Traces
        BY <2>2, <3>1, <3>2, OfferStep DEF TakenOnce
    <3>3. ASSUME NEW c \in Consumer, NEW m \in Message, OnMessage(c, m), t = <<m, c, seq>>
          PROVE  t[1] \notin inq'[t[2]] \cup pend'[t[2]]
        BY <3>3 DEF OnMessage, TakenOnce, TypeOK, BrokerType
    <3>4. ASSUME NEW c \in Consumer, NEW m \in Message, OnMalformed(c, m), t = <<m, c, 0>>
          PROVE  FALSE
        BY <2>2, <3>4 DEF OnMalformed
    <3>5. QED
        BY <1>2, <3>2, <3>3, <3>4
  <2>3. QED
    BY <2>1, <2>2 DEF TakenOnce
<1>6. NackAfterDeadLetter'
  <2> SUFFICES ASSUME NEW c \in Consumer, cpc'[c] = "nack"
               PROVE  /\ bad'[c] \notin WellFormed
                      /\ pubFaults' = 0 => \E t \in Traces' : t[1] = bad'[c] /\ t[2] = c
    BY DEF NackAfterDeadLetter
  <2>1. CASE cpc[c] = "nack" /\ bad'[c] = bad[c]
    BY <1>3, <2>1, OfferStep DEF NackAfterDeadLetter
  <2>2. ASSUME NEW m \in Message, OnMalformed(c, m), bad'[c] = m
        PROVE  /\ bad'[c] \notin WellFormed
               /\ \E t \in Traces' : t[1] = bad'[c] /\ t[2] = c
    <3>1. m \notin WellFormed
        BY <2>2 DEF OnMalformed
    <3>2. <<m, c, 0>> \in Traces'
        <4> DEFINE o == [kind |-> "dead", msg |-> m, src |-> c, num |-> 0, retries |-> 0]
        <4>1. o \in Out /\ Trace(o) = <<m, c, 0>>
            BY DEF Out, Kind, Trace
        <4>2. OutboxTraces' = OutboxTraces \cup {<<m, c, 0>>}
            BY <2>2, <4>1, OutboxAppend, NoneIsNothing DEF OnMalformed, TypeOK, PublisherType
        <4>3. QED
            BY <4>2 DEF Traces
    <3>3. QED
        BY <2>2, <3>1, <3>2
  <2>3. QED
    BY <2>1, <2>2, NackStep
<1>7. NoSilentLoss'
  <2> SUFFICES ASSUME pubFaults' = 0, NEW c \in Consumer,
                      NEW m \in Message, m \notin inq'[c] \cup pend'[c],
                      m \notin WellFormed \/ Keeps(c, m)
               PROVE  \E t \in Traces' : t[1] = m /\ t[2] = c
    BY DEF NoSilentLoss, Keeps
  <2>1. pubFaults = 0 /\ Traces \subseteq Traces'
    BY <1>3, OfferStep
  <2>2. CASE m \notin inq[c] \cup pend[c]
    BY <2>1, <2>2 DEF NoSilentLoss
  <2>3. CASE OnMessage(c, m)
    <3>1. Keeps(c, m)
        BY <2>3 DEF OnMessage
    <3>2. HandTraces' \subseteq Traces'
        BY DEF Traces
    <3>3. PICK p : hand' = [hand EXCEPT ![c] = [msg |-> m, prio |-> p, num |-> seq, src |-> c]]
        BY <2>3, <3>1 DEF OnMessage
    <3>4. hand'[c] = [msg |-> m, prio |-> p, num |-> seq, src |-> c] /\ cpc'[c] = "submit"
        BY <2>3, <3>1, <3>3 DEF OnMessage, TypeOK, ConsumerType
    <3>5. hand'[c] # None /\ Trace(hand'[c]) = <<m, c, seq>>
        BY <1>1, <3>4 DEF TypeOK, ConsumerType, Trace
    <3>6. <<m, c, seq>> \in HandTraces'
        BY <3>5 DEF HandTraces
    <3>7. QED
        BY <3>2, <3>6
  <2>4. CASE cpc[c] = "nack" /\ m = bad[c]
    BY <2>1, <2>4 DEF NackAfterDeadLetter
  <2>5. QED
    BY <2>2, <2>3, <2>4, OfferStep
<1>8. OnceWithoutRedelivery'
  <2> SUFFICES ASSUME losses' = 0, NEW t \in Traces', NEW u \in Traces',
                      t[1] = u[1], t[1] \in WellFormed
               PROVE  t = u
    BY DEF OnceWithoutRedelivery
  <2>1. losses = 0
    BY OfferStep DEF Consumer
  <2>2. ASSUME NEW x \in Traces', x \notin Traces, x[1] \in WellFormed
        PROVE  \E c \in Consumer, m \in Message : OnMessage(c, m) /\ Keeps(c, m) /\ x = <<m, c, seq>>
    <3>1. ASSUME NEW c \in Consumer, NEW m \in Message, OnMalformed(c, m), x = <<m, c, 0>>
          PROVE  FALSE
        BY <2>2, <3>1 DEF OnMalformed
    <3>2. QED
        BY <1>2, <2>2, <3>1
  <2>3. ASSUME NEW x \in Traces', x \notin Traces, NEW y \in Traces, x[1] = y[1], x[1] \in WellFormed
        PROVE  FALSE
    <3>1. PICK c \in Consumer, m \in Message : OnMessage(c, m) /\ Keeps(c, m) /\ x = <<m, c, seq>>
        BY <2>2, <2>3
    <3>2. y[2] \in Consumer /\ Keeps(y[2], m) /\ y[1] = m
        BY <2>3, <3>1 DEF TracesAreOwned
    <3>3. y[2] = c
        BY <3>1, <3>2, OneKeeper
    <3>4. m \in pend[c]
        BY <3>1 DEF OnMessage
    <3>5. QED
        BY <2>1, <2>3, <3>2, <3>3, <3>4 DEF TakenOnce
  <2>4. CASE t \in Traces /\ u \in Traces
    BY <2>1, <2>4 DEF OnceWithoutRedelivery
  <2>5. CASE t \notin Traces /\ u \notin Traces
    <3>1. Traces' = Traces \/ \E x : Traces' = Traces \cup {x} \/ Traces' \subseteq Traces
        BY TracesStep
    <3>2. QED
        BY <2>5, <3>1
  <2>6. QED
    BY <2>3, <2>4, <2>5
<1>9. QED
    BY <1>1, <1>4, <1>5, <1>6, <1>7, <1>8

\* The invariant holds throughout.
LEMMA TransportInvHolds == Spec => []TransportInv
<1>1. Init => TransportInv
  <2> SUFFICES ASSUME Init PROVE TransportInv
    OBVIOUS
  <2>1. TypeOK
    BY TypeInit
  <2>2. Traces = {}
    BY DEF Init, Traces, HandTraces, QueueTraces, WorkerTraces, DoneTraces, OutboxTraces, GoneTraces, Gone
  <2>3. QED
    BY <2>1, <2>2 DEF TransportInv, Init, NackAfterDeadLetter, TracesAreOwned, TakenOnce,
                      NoSilentLoss, OnceWithoutRedelivery
<1>2. QED
    BY <1>1, TransportInvStep, PTL DEF Spec

\* Whatever the messages, the workers, the retries, the lost connections and the
\* shutdown: a message the broker no longer holds is still known to the process,
\* or has been answered, dead-lettered or finished, unless publishing failed.
\* (An item given up mid-retry at shutdown counts as finished, and what a process
\* still held in memory when it exited is lost with it.)
THEOREM NothingVanishes == Spec => []NoSilentLoss
BY TransportInvHolds, PTL DEF TransportInv

\* Without redelivery, a well-formed message is taken by one consumer, once, for
\* any number of messages and workers.
THEOREM TakenByOneConsumer == Spec => []OnceWithoutRedelivery
BY TransportInvHolds, PTL DEF TransportInv

-----------------------------------------------------------------------------
(* Custody: where arrival n is *)

Places == {"hand", "queue", "worker", "done", "outbox", "gone"}

\* The holders of arrival n, place by place: the sets that Custodians counts.
At(n) == [p \in Places |->
    CASE p = "hand"   -> {c \in Consumer : Is(hand[c], n)}
      [] p = "queue"  -> {i \in queue : i.num = n}
      [] p = "worker" -> {w \in Worker : Is(item[w], n)}
      [] p = "done"   -> {i \in quiet \cup abandoned : i.num = n}
      [] p = "outbox" -> {k \in 1..Len(outbox) : Is(outbox[k], n)}
      [] OTHER        -> {o \in Gone : o.num = n}]

\* At most one holder in all places together, and at least one.
OneOf(S) == \A p, q \in Places : \A x \in S[p], y \in S[q] : p = q /\ x = y
SomeOf(S) == \E p \in Places : S[p] # {}

\* Numbers given out have one holder, numbers to come have none. Custody itself
\* only counts; a count does not say that what is taken up is new where it is
\* put down.
CustodyInv ==
    /\ \A n \in Nat \ {0} : OneOf(At(n))
    /\ \A n \in Nat \ {0} : n < seq /\ pubFaults = 0 => SomeOf(At(n))
    /\ \A n \in Nat \ {0} : n >= seq => ~SomeOf(At(n))

\* The places one by one.
LEMMA AtPlaces ==
    \A n : /\ At(n)["hand"] = {c \in Consumer : Is(hand[c], n)}
           /\ At(n)["queue"] = {i \in queue : i.num = n}
           /\ At(n)["worker"] = {w \in Worker : Is(item[w], n)}
           /\ At(n)["done"] = {i \in quiet \cup abandoned : i.num = n}
           /\ At(n)["outbox"] = {k \in 1..Len(outbox) : Is(outbox[k], n)}
           /\ At(n)["gone"] = {o \in Gone : o.num = n}
BY DEF At, Places

\* A step that touches no holder keeps the invariant.
LEMMA CustodyFrame ==
    ASSUME CustodyInv, UNCHANGED traceVars, seq' = seq, pubFaults' = pubFaults
    PROVE  CustodyInv'
<1>1. \A n : At(n)' = At(n)
  BY DEF At, Gone, traceVars
<1> QED
  BY <1>1 DEF CustodyInv

\* What a holder x passes on to a new holder y has one holder again.
LEMMA PassedOn ==
    ASSUME NEW S, NEW T, OneOf(S), NEW a \in Places, NEW b \in Places, a # b,
           NEW x \in S[a], NEW y \in T[b], x \notin T[a],
           T[b] \subseteq S[b] \cup {y}, \A p \in Places \ {b} : T[p] \subseteq S[p]
    PROVE  OneOf(T) /\ SomeOf(T)
<1>1. \A p \in Places \ {a} : S[p] = {}
  BY DEF OneOf
<1>2. S[a] = {x}
  BY DEF OneOf
<1>3. T[b] = {y} /\ \A p \in Places \ {b} : T[p] = {}
  BY <1>1, <1>2
<1> QED
  BY <1>3 DEF OneOf, SomeOf

\* A step that passes arrival k on and touches nothing else keeps the invariant.
LEMMA CustodyPasses ==
    ASSUME CustodyInv, seq \in Nat, NEW k \in Nat \ {0},
           NEW a \in Places, NEW b \in Places, a # b,
           NEW x \in At(k)[a], NEW y \in At(k)'[b], x \notin At(k)'[a],
           At(k)'[b] \subseteq At(k)[b] \cup {y}, \A p \in Places \ {b} : At(k)'[p] \subseteq At(k)[p],
           \A n \in Nat \ {0, k} : \A p \in Places : At(n)'[p] = At(n)[p],
           seq' = seq, pubFaults' = pubFaults
    PROVE  CustodyInv'
<1>1. k < seq
  BY DEF CustodyInv, SomeOf
<1>2. OneOf(At(k)') /\ SomeOf(At(k)')
  BY PassedOn DEF CustodyInv
<1>3. \A n \in Nat \ {0, k} : (OneOf(At(n)') <=> OneOf(At(n))) /\ (SomeOf(At(n)') <=> SomeOf(At(n)))
  BY DEF OneOf, SomeOf
<1>4. ASSUME NEW n \in Nat \ {0}
      PROVE  OneOf(At(n)') /\ (n < seq' /\ pubFaults' = 0 => SomeOf(At(n)'))
             /\ (n >= seq' => ~SomeOf(At(n)'))
  <2>1. CASE n = k
    BY <1>1, <1>2, <2>1
  <2>2. CASE n # k
    BY <1>3, <2>2 DEF CustodyInv
  <2> QED
    BY <2>1, <2>2
<1> QED
  BY <1>4 DEF CustodyInv

\* submit: from the consumer's hand to the queue.
LEMMA SubmitPasses ==
    ASSUME TypeOK, CustodyInv, NEW c \in Consumer, Submit(c)
    PROVE  CustodyInv'
<1>0. PICK i \in Item : i = hand[c]
  BY DEF TypeOK, ConsumerType, Submit
<1> DEFINE k == i.num
<1>1. k \in Nat \ {0} /\ i # None /\ seq \in Nat
  BY NoneIsNothing DEF TypeOK, ConsumerType, Item
<1>2. /\ hand' = [hand EXCEPT ![c] = None] /\ queue' = queue \cup {i}
      /\ UNCHANGED <<item, quiet, abandoned, outbox, cur, sent, seq, pubFaults>>
  BY <1>0 DEF Submit, poolVars, pubVars
<1>3. hand'[c] = None /\ \A d \in Consumer \ {c} : hand'[d] = hand[d]
  BY <1>2 DEF TypeOK, ConsumerType
<1>4. \A n : /\ At(n)'["hand"] = {d \in Consumer : Is(hand'[d], n)}
             /\ At(n)'["queue"] = {j \in queue' : j.num = n}
             /\ \A p \in Places \ {"hand", "queue"} : At(n)'[p] = At(n)[p]
  BY <1>2 DEF At, Gone, Places
<1>5. \A n \in Nat \ {0, k} : \A p \in Places : At(n)'[p] = At(n)[p]
  <2> SUFFICES ASSUME NEW n \in Nat \ {0, k} PROVE \A p \in Places : At(n)'[p] = At(n)[p]
    OBVIOUS
  <2>0. n # i.num
    OBVIOUS
  <2>1. At(n)'["hand"] = At(n)["hand"]
    <3>1. \A d \in Consumer : Is(hand'[d], n) <=> Is(hand[d], n)
      BY <1>0, <1>3, <2>0 DEF Is
    <3>2. At(n)["hand"] = {d \in Consumer : Is(hand[d], n)}
      BY AtPlaces
    <3>3. At(n)'["hand"] = {d \in Consumer : Is(hand'[d], n)}
      BY <1>4
    <3> QED
      BY <3>1, <3>2, <3>3
  <2>2. At(n)'["queue"] = At(n)["queue"]
    <3>1. {j \in queue' : j.num = n} = {j \in queue : j.num = n}
      BY <1>2, <2>0
    <3>2. At(n)["queue"] = {j \in queue : j.num = n}
      BY AtPlaces
    <3>3. At(n)'["queue"] = {j \in queue' : j.num = n}
      BY <1>4
    <3> QED
      BY <3>1, <3>2, <3>3
  <2> QED
    BY <1>4, <2>1, <2>2
<1>6. c \in At(k)["hand"] /\ i \in At(k)'["queue"] /\ c \notin At(k)'["hand"]
  BY <1>0, <1>1, <1>2, <1>3, <1>4, AtPlaces DEF Is
<1>7. At(k)'["queue"] \subseteq At(k)["queue"] \cup {i}
      /\ \A p \in Places \ {"queue"} : At(k)'[p] \subseteq At(k)[p]
  BY <1>2, <1>3, <1>4, AtPlaces DEF Is
<1>8. "hand" \in Places /\ "queue" \in Places /\ seq' = seq /\ pubFaults' = pubFaults
  BY <1>2 DEF Places
<1> HIDE DEF k
<1> QED
  BY <1>1, <1>5, <1>6, <1>7, <1>8, CustodyPasses

\* queue.get: from the queue to a worker.
LEMMA GetPasses ==
    ASSUME TypeOK, CustodyInv, NEW w \in Worker, GetItem(w)
    PROVE  CustodyInv'
<1>1. PICK i \in queue : queue' = queue \ {i} /\ item' = [item EXCEPT ![w] = i]
  BY DEF GetItem
<1> DEFINE k == i.num
<1>2. /\ i \in Item /\ k \in Nat \ {0} /\ i # None /\ item[w] = None /\ seq \in Nat
  BY NoneIsNothing DEF TypeOK, PoolType, ConsumerType, GetItem, Item
<1>3. UNCHANGED <<hand, quiet, abandoned, outbox, cur, sent, seq, pubFaults>>
  BY DEF GetItem, consVars, pubVars
<1>4. item'[w] = i /\ \A v \in Worker \ {w} : item'[v] = item[v]
  BY <1>1 DEF TypeOK, PoolType
<1>5. \A n : /\ At(n)'["worker"] = {v \in Worker : Is(item'[v], n)}
             /\ At(n)'["queue"] = {j \in queue' : j.num = n}
             /\ \A p \in Places \ {"worker", "queue"} : At(n)'[p] = At(n)[p]
  BY <1>3 DEF At, Gone, Places
<1>6. \A n \in Nat \ {0, k} : \A p \in Places : At(n)'[p] = At(n)[p]
  <2> SUFFICES ASSUME NEW n \in Nat \ {0, k} PROVE \A p \in Places : At(n)'[p] = At(n)[p]
    OBVIOUS
  <2>0. n # i.num
    OBVIOUS
  <2>1. At(n)'["worker"] = At(n)["worker"]
    <3>1. \A v \in Worker : Is(item'[v], n) <=> Is(item[v], n)
      BY <1>2, <1>4, <2>0 DEF Is
    <3>2. At(n)["worker"] = {v \in Worker : Is(item[v], n)}
      BY AtPlaces
    <3>3. At(n)'["worker"] = {v \in Worker : Is(item'[v], n)}
      BY <1>5
    <3> QED
      BY <3>1, <3>2, <3>3
  <2>2. At(n)'["queue"] = At(n)["queue"]
    <3>1. {j \in queue' : j.num = n} = {j \in queue : j.num = n}
      BY <1>1, <2>0
    <3>2. At(n)["queue"] = {j \in queue : j.num = n}
      BY AtPlaces
    <3>3. At(n)'["queue"] = {j \in queue' : j.num = n}
      BY <1>5
    <3> QED
      BY <3>1, <3>2, <3>3
  <2> QED
    BY <1>5, <2>1, <2>2
<1>7. i \in At(k)["queue"] /\ w \in At(k)'["worker"] /\ i \notin At(k)'["queue"]
  BY <1>1, <1>2, <1>4, <1>5, AtPlaces DEF Is
<1>8. At(k)'["worker"] \subseteq At(k)["worker"] \cup {w}
      /\ \A p \in Places \ {"worker"} : At(k)'[p] \subseteq At(k)[p]
  BY <1>1, <1>4, <1>5, AtPlaces DEF Is
<1>9. "worker" \in Places /\ "queue" \in Places /\ seq' = seq /\ pubFaults' = pubFaults
  BY <1>3 DEF Places
<1> HIDE DEF k
<1> QED
  BY <1>2, <1>6, <1>7, <1>8, <1>9, CustodyPasses

\* Putting o on the outbox adds one place, to the arrival o is about.
LEMMA AppendPlaces ==
    ASSUME TypeOK, NEW o \in Out \cup {None}, outbox' = Append(outbox, o), NEW n
    PROVE  /\ Len(outbox) \in Nat
           /\ {j \in 1..Len(outbox') : Is(outbox'[j], n)}
                = {j \in 1..Len(outbox) : Is(outbox[j], n)}
                    \cup (IF Is(o, n) THEN {Len(outbox) + 1} ELSE {})
<1>1. /\ Len(outbox') = Len(outbox) + 1 /\ Len(outbox) \in Nat
      /\ outbox'[Len(outbox) + 1] = o
      /\ \A j \in 1..Len(outbox) : outbox'[j] = outbox[j]
  BY DEF TypeOK, PublisherType
<1>2. ASSUME NEW j \in 1..Len(outbox'), Is(outbox'[j], n)
      PROVE  j \in {l \in 1..Len(outbox) : Is(outbox[l], n)}
                    \cup (IF Is(o, n) THEN {Len(outbox) + 1} ELSE {})
  <2>1. CASE j = Len(outbox) + 1
    BY <1>1, <1>2, <2>1
  <2>2. CASE j \in 1..Len(outbox)
    BY <1>1, <1>2, <2>2
  <2> QED
    BY <1>1, <2>1, <2>2
<1>3. ASSUME NEW j \in 1..Len(outbox), Is(outbox[j], n) PROVE j \in 1..Len(outbox') /\ Is(outbox'[j], n)
  BY <1>1, <1>3
<1>4. Is(o, n) => Is(outbox'[Len(outbox) + 1], n) /\ Len(outbox) + 1 \in 1..Len(outbox')
  BY <1>1
<1> QED
  BY <1>1, <1>2, <1>3, <1>4

\* _process_bound: from the worker to the finished items ...
LEMMA DonePasses ==
    ASSUME TypeOK, CustodyInv, NEW w \in Worker, NEW i \in Item, item[w] = i,
           item' = [item EXCEPT ![w] = None],
           quiet' \cup abandoned' = quiet \cup abandoned \cup {i},
           UNCHANGED <<hand, queue, outbox, cur, sent, seq, pubFaults>>
    PROVE  CustodyInv'
<1> DEFINE k == i.num
<1>1. k \in Nat \ {0} /\ i # None /\ seq \in Nat
  BY NoneIsNothing DEF TypeOK, ConsumerType, Item
<1>2. ASSUME NEW n
      PROVE  /\ At(n)'["worker"] = At(n)["worker"] \ (IF i.num = n THEN {w} ELSE {})
             /\ At(n)'["done"] = At(n)["done"] \cup (IF i.num = n THEN {i} ELSE {})
             /\ \A p \in Places \ {"worker", "done"} : At(n)'[p] = At(n)[p]
  <2>1. /\ At(n)'["worker"] = {v \in Worker : Is(item'[v], n)}
        /\ At(n)'["done"] = {j \in quiet' \cup abandoned' : j.num = n}
        /\ \A p \in Places \ {"worker", "done"} : At(n)'[p] = At(n)[p]
    BY DEF At, Gone, Places
  <2>2. /\ At(n)["worker"] = {v \in Worker : Is(item[v], n)}
        /\ At(n)["done"] = {j \in quiet \cup abandoned : j.num = n}
    BY AtPlaces
  <2>3. {v \in Worker : Is(item'[v], n)}
          = {v \in Worker : Is(item[v], n)} \ (IF i.num = n THEN {w} ELSE {})
    <3>1. item'[w] = None /\ \A v \in Worker \ {w} : item'[v] = item[v]
      BY DEF TypeOK, PoolType
    <3> QED
      BY <1>1, <3>1 DEF Is
  <2>4. {j \in quiet' \cup abandoned' : j.num = n}
          = {j \in quiet \cup abandoned : j.num = n} \cup (IF i.num = n THEN {i} ELSE {})
    OBVIOUS
  <2> QED
    BY <2>1, <2>2, <2>3, <2>4
<1>3. w \in At(k)["worker"]
  <2>1. At(k)["worker"] = {v \in Worker : Is(item[v], k)}
    BY AtPlaces
  <2> QED
    BY <1>1, <2>1 DEF Is
<1>4. ASSUME NEW n \in Nat \ {0, k} PROVE \A p \in Places : At(n)'[p] = At(n)[p]
  <2>1. (IF i.num = n THEN {w} ELSE {}) = {} /\ (IF i.num = n THEN {i} ELSE {}) = {}
    OBVIOUS
  <2>2. At(n)'["worker"] = At(n)["worker"] \ (IF i.num = n THEN {w} ELSE {})
    BY <1>2
  <2>3. At(n)'["done"] = At(n)["done"] \cup (IF i.num = n THEN {i} ELSE {})
    BY <1>2
  <2>4. \A p \in Places \ {"worker", "done"} : At(n)'[p] = At(n)[p]
    BY <1>2
  <2> QED
    BY <2>1, <2>2, <2>3, <2>4
<1>5. /\ w \notin At(k)'["worker"] /\ i \in At(k)'["done"]
      /\ At(k)'["done"] \subseteq At(k)["done"] \cup {i}
      /\ \A p \in Places \ {"done"} : At(k)'[p] \subseteq At(k)[p]
  BY <1>2
<1>6. "worker" \in Places /\ "done" \in Places
  BY DEF Places
<1> HIDE DEF k
<1> QED
  BY <1>1, <1>3, <1>4, <1>5, <1>6, CustodyPasses

\* ... or, as a reply, a result or a dead letter, to the outbox.
LEMMA OutPasses ==
    ASSUME TypeOK, CustodyInv, NEW w \in Worker, NEW i \in Item, item[w] = i,
           item' = [item EXCEPT ![w] = None],
           NEW o \in Out, o.num = i.num, outbox' = Append(outbox, o),
           UNCHANGED <<hand, queue, quiet, abandoned, cur, sent, seq, pubFaults>>
    PROVE  CustodyInv'
<1> DEFINE k == i.num
<1>0. PICK j : j = Len(outbox) + 1
  OBVIOUS
<1>1. k \in Nat \ {0} /\ i # None /\ o # None /\ seq \in Nat
  BY NoneIsNothing DEF TypeOK, ConsumerType, Item
<1>2. ASSUME NEW n
      PROVE  /\ At(n)'["worker"] = At(n)["worker"] \ (IF i.num = n THEN {w} ELSE {})
             /\ At(n)'["outbox"] = At(n)["outbox"] \cup (IF i.num = n THEN {j} ELSE {})
             /\ \A p \in Places \ {"worker", "outbox"} : At(n)'[p] = At(n)[p]
  <2>1. /\ At(n)'["worker"] = {v \in Worker : Is(item'[v], n)}
        /\ At(n)'["outbox"] = {l \in 1..Len(outbox') : Is(outbox'[l], n)}
        /\ \A p \in Places \ {"worker", "outbox"} : At(n)'[p] = At(n)[p]
    BY DEF At, Gone, Places
  <2>2. /\ At(n)["worker"] = {v \in Worker : Is(item[v], n)}
        /\ At(n)["outbox"] = {l \in 1..Len(outbox) : Is(outbox[l], n)}
    BY AtPlaces
  <2>3. {v \in Worker : Is(item'[v], n)}
          = {v \in Worker : Is(item[v], n)} \ (IF i.num = n THEN {w} ELSE {})
    <3>1. item'[w] = None /\ \A v \in Worker \ {w} : item'[v] = item[v]
      BY DEF TypeOK, PoolType
    <3> QED
      BY <1>1, <3>1 DEF Is
  <2>4. {l \in 1..Len(outbox') : Is(outbox'[l], n)}
          = {l \in 1..Len(outbox) : Is(outbox[l], n)} \cup (IF Is(o, n) THEN {j} ELSE {})
    BY <1>0, AppendPlaces
  <2>5. Is(o, n) <=> i.num = n
    BY <1>1 DEF Is
  <2> QED
    BY <2>1, <2>2, <2>3, <2>4, <2>5
<1>3. w \in At(k)["worker"]
  <2>1. At(k)["worker"] = {v \in Worker : Is(item[v], k)}
    BY AtPlaces
  <2> QED
    BY <1>1, <2>1 DEF Is
<1>4. ASSUME NEW n \in Nat \ {0, k} PROVE \A p \in Places : At(n)'[p] = At(n)[p]
  <2>1. (IF i.num = n THEN {w} ELSE {}) = {} /\ (IF i.num = n THEN {j} ELSE {}) = {}
    OBVIOUS
  <2>2. At(n)'["worker"] = At(n)["worker"] \ (IF i.num = n THEN {w} ELSE {})
    BY <1>2
  <2>3. At(n)'["outbox"] = At(n)["outbox"] \cup (IF i.num = n THEN {j} ELSE {})
    BY <1>2
  <2>4. \A p \in Places \ {"worker", "outbox"} : At(n)'[p] = At(n)[p]
    BY <1>2
  <2> QED
    BY <2>1, <2>2, <2>3, <2>4
<1>5. /\ w \notin At(k)'["worker"] /\ j \in At(k)'["outbox"]
      /\ At(k)'["outbox"] \subseteq At(k)["outbox"] \cup {j}
      /\ \A p \in Places \ {"outbox"} : At(k)'[p] \subseteq At(k)[p]
  BY <1>2
<1>6. "worker" \in Places /\ "outbox" \in Places
  BY DEF Places
<1> HIDE DEF k
<1> QED
  BY <1>1, <1>3, <1>4, <1>5, <1>6, CustodyPasses

\* What is put on the outbox that is about no arrival changes nothing.
LEMMA NoticePasses ==
    ASSUME TypeOK, CustodyInv, NEW o \in Out \cup {None}, o = None \/ o.num = 0,
           outbox' = Append(outbox, o),
           UNCHANGED <<hand, queue, item, quiet, abandoned, cur, sent, seq, pubFaults>>
    PROVE  CustodyInv'
<1>1. ASSUME NEW n \in Nat \ {0} PROVE \A p \in Places : At(n)'[p] = At(n)[p]
  <2>1. /\ At(n)'["outbox"] = {l \in 1..Len(outbox') : Is(outbox'[l], n)}
        /\ \A p \in Places \ {"outbox"} : At(n)'[p] = At(n)[p]
    BY DEF At, Gone, Places
  <2>2. At(n)["outbox"] = {l \in 1..Len(outbox) : Is(outbox[l], n)}
    BY AtPlaces
  <2>3. ~Is(o, n)
    BY DEF Is
  <2>4. {l \in 1..Len(outbox') : Is(outbox'[l], n)} = {l \in 1..Len(outbox) : Is(outbox[l], n)}
    BY <2>3, AppendPlaces
  <2> QED
    BY <2>1, <2>2, <2>4
<1>2. \A n \in Nat \ {0} : (OneOf(At(n)') <=> OneOf(At(n))) /\ (SomeOf(At(n)') <=> SomeOf(At(n)))
  BY <1>1 DEF OneOf, SomeOf
<1> QED
  BY <1>2 DEF CustodyInv

\* A step that leaves every holder of every arrival where it is keeps the invariant.
LEMMA CustodySame ==
    ASSUME CustodyInv, \A n \in Nat \ {0} : \A p \in Places : At(n)'[p] = At(n)[p],
           seq' = seq, pubFaults' = pubFaults
    PROVE  CustodyInv'
<1>1. \A n \in Nat \ {0} : (OneOf(At(n)') <=> OneOf(At(n))) /\ (SomeOf(At(n)') <=> SomeOf(At(n)))
  BY DEF OneOf, SomeOf
<1> QED
  BY <1>1 DEF CustodyInv

\* _on_message: the new arrival is in the hand of the consumer and nowhere else.
LEMMA TakesUp ==
    ASSUME TypeOK, TypeOK', CustodyInv, NEW c \in Consumer, NEW m \in Message, OnMessage(c, m)
    PROVE  CustodyInv'
<1>0. UNCHANGED <<queue, item, quiet, abandoned, outbox, cur, sent, pubFaults>>
  BY DEF OnMessage, poolVars, pubVars
<1>1. CASE ~Keeps(c, m)
  BY <1>0, <1>1, CustodyFrame DEF OnMessage, traceVars
<1>2. CASE Keeps(c, m)
  <2>1. PICK i : i.num = seq /\ hand' = [hand EXCEPT ![c] = i]
    BY <1>2 DEF OnMessage
  <2>2. seq' = seq + 1 /\ seq \in Nat \ {0} /\ cpc[c] = "consume" /\ cpc'[c] = "submit"
    BY <1>2 DEF OnMessage, TypeOK, ConsumerType
  <2>3. hand'[c] = i /\ i # None /\ hand[c] = None /\ \A d \in Consumer \ {c} : hand'[d] = hand[d]
    BY <2>1, <2>2 DEF TypeOK, ConsumerType
  <2>4. ASSUME NEW n
        PROVE  /\ At(n)'["hand"] = {d \in Consumer : Is(hand'[d], n)}
               /\ At(n)["hand"] = {d \in Consumer : Is(hand[d], n)}
               /\ \A p \in Places \ {"hand"} : At(n)'[p] = At(n)[p]
    BY <1>0, AtPlaces DEF At, Gone, Places
  <2>5. ASSUME NEW n \in Nat \ {0, seq} PROVE \A p \in Places : At(n)'[p] = At(n)[p]
    <3>1. {d \in Consumer : Is(hand'[d], n)} = {d \in Consumer : Is(hand[d], n)}
      BY <2>1, <2>3 DEF Is
    <3> QED
      BY <2>4, <3>1
  <2>6. \A n \in Nat \ {0, seq} : (OneOf(At(n)') <=> OneOf(At(n))) /\ (SomeOf(At(n)') <=> SomeOf(At(n)))
    BY <2>5 DEF OneOf, SomeOf
  <2>7. PICK k : k = seq
    OBVIOUS
  <2>8. \A p \in Places : At(k)[p] = {}
    BY <2>2, <2>7 DEF CustodyInv, SomeOf
  <2>9. {d \in Consumer : Is(hand'[d], k)} = {c}
    <3>1. {d \in Consumer : Is(hand[d], k)} = {}
      BY <2>4, <2>8 DEF Places
    <3>2. \A d \in Consumer \ {c} : ~Is(hand'[d], k)
      BY <2>3, <3>1
    <3>3. Is(hand'[c], k)
      BY <2>1, <2>3, <2>7 DEF Is
    <3> QED
      BY <3>2, <3>3
  <2>10. At(k)'["hand"] = {c} /\ \A p \in Places \ {"hand"} : At(k)'[p] = {}
    <3>1. At(k)'["hand"] = {d \in Consumer : Is(hand'[d], k)}
      BY <2>4
    <3> QED
      BY <2>4, <2>8, <2>9, <3>1
  <2>11. OneOf(At(k)') /\ SomeOf(At(k)')
    BY <2>10 DEF OneOf, SomeOf, Places
  <2>12. ASSUME NEW n \in Nat \ {0}
         PROVE  OneOf(At(n)') /\ (n < seq' /\ pubFaults' = 0 => SomeOf(At(n)'))
                /\ (n >= seq' => ~SomeOf(At(n)'))
    <3>1. CASE n = k
      BY <2>2, <2>7, <2>11, <3>1
    <3>2. CASE n # k
      BY <1>0, <2>2, <2>6, <2>7, <3>2 DEF CustodyInv
    <3> QED
      BY <3>1, <3>2
  <2> QED
    BY <2>12 DEF CustodyInv
<1> QED
  BY <1>1, <1>2

\* When the head leaves the outbox every other entry moves up one place.
LEMMA TailPlaces ==
    ASSUME TypeOK, outbox # <<>>, outbox' = Tail(outbox), NEW n
    PROVE  /\ {j \in 1..Len(outbox) : Is(outbox[j], n)} \subseteq Nat \ {0}
           /\ {j \in 1..Len(outbox') : Is(outbox'[j], n)} \subseteq Nat \ {0}
           /\ 1 \in {j \in 1..Len(outbox) : Is(outbox[j], n)} <=> Is(Head(outbox), n)
           /\ \A j \in Nat \ {0} : j \in {l \in 1..Len(outbox') : Is(outbox'[l], n)}
                                     <=> j + 1 \in {l \in 1..Len(outbox) : Is(outbox[l], n)}
<1>1. /\ Len(outbox) \in Nat \ {0} /\ Len(outbox') = Len(outbox) - 1
      /\ Head(outbox) = outbox[1]
      /\ \A j \in 1..(Len(outbox) - 1) : outbox'[j] = outbox[j + 1]
  BY DEF TypeOK, PublisherType
<1>2. ASSUME NEW j \in Nat \ {0}
      PROVE  j \in {l \in 1..Len(outbox') : Is(outbox'[l], n)}
                <=> j + 1 \in {l \in 1..Len(outbox) : Is(outbox[l], n)}
  <2>1. j \in 1..Len(outbox') <=> j + 1 \in 1..Len(outbox)
    BY <1>1
  <2>2. j \in 1..Len(outbox') => outbox'[j] = outbox[j + 1]
    BY <1>1
  <2> QED
    BY <2>1, <2>2
<1>3. 1 \in {j \in 1..Len(outbox) : Is(outbox[j], n)} <=> Is(Head(outbox), n)
  BY <1>1
<1> QED
  BY <1>1, <1>2, <1>3

\* Moving up makes no holder and loses none.
LEMMA Shifted ==
    ASSUME NEW S, NEW T, \A p \in Places \ {"outbox"} : T[p] = S[p],
           S["outbox"] \subseteq Nat \ {0, 1}, T["outbox"] \subseteq Nat \ {0},
           \A j \in Nat \ {0} : j \in T["outbox"] <=> j + 1 \in S["outbox"]
    PROVE  (OneOf(S) => OneOf(T)) /\ (SomeOf(S) <=> SomeOf(T))
<1>1. ASSUME OneOf(S), NEW p \in Places, NEW q \in Places, NEW x \in T[p], NEW y \in T[q]
      PROVE  p = q /\ x = y
  <2>1. CASE p = "outbox" /\ q = "outbox"
    <3>1. x \in Nat /\ y \in Nat /\ x + 1 \in S["outbox"] /\ y + 1 \in S["outbox"]
      BY <2>1
    <3>2. x + 1 = y + 1
      BY <1>1, <2>1, <3>1 DEF OneOf
    <3> QED
      BY <2>1, <3>1, <3>2
  <2>2. CASE p = "outbox" /\ q # "outbox"
    BY <1>1, <2>2 DEF OneOf
  <2>3. CASE p # "outbox" /\ q = "outbox"
    BY <1>1, <2>3 DEF OneOf
  <2>4. CASE p # "outbox" /\ q # "outbox"
    BY <1>1, <2>4 DEF OneOf
  <2> QED
    BY <2>1, <2>2, <2>3, <2>4
<1>2. T["outbox"] = {} <=> S["outbox"] = {}
  <2>1. ASSUME NEW x \in S["outbox"] PROVE x - 1 \in T["outbox"]
    OBVIOUS
  <2>2. ASSUME NEW x \in T["outbox"] PROVE x + 1 \in S["outbox"]
    OBVIOUS
  <2> QED
    BY <2>1, <2>2
<1>3. SomeOf(S) <=> SomeOf(T)
  BY <1>2 DEF SomeOf
<1> QED
  BY <1>1, <1>3 DEF OneOf

\* _outbox.get: from the outbox to the publisher.
LEMMA PubGetPasses ==
    ASSUME TypeOK, CustodyInv, PubGet
    PROVE  CustodyInv'
<1>0. /\ UNCHANGED <<hand, queue, item, quiet, abandoned, sent, seq, pubFaults>>
      /\ outbox # <<>> /\ outbox' = Tail(outbox) /\ seq \in Nat
  BY DEF PubGet, consVars, poolVars, TypeOK, ConsumerType
<1>1. PICK h \in Out \cup {None} : h = Head(outbox)
  BY <1>0 DEF TypeOK, PublisherType
<1>2. Gone' = Gone \cup (IF h = None THEN {} ELSE {h})
  <2>1. cur = None
    BY DEF PubGet, TypeOK, PublisherType
  <2>2. cur' = h
    BY <1>1, <2>1 DEF PubGet
  <2> QED
    BY <1>0, <2>1, <2>2 DEF Gone
<1>3. ASSUME NEW n
      PROVE  /\ At(n)'["outbox"] = {l \in 1..Len(outbox') : Is(outbox'[l], n)}
             /\ At(n)["outbox"] = {l \in 1..Len(outbox) : Is(outbox[l], n)}
             /\ At(n)'["gone"] = At(n)["gone"] \cup (IF Is(h, n) THEN {h} ELSE {})
             /\ \A p \in Places \ {"outbox", "gone"} : At(n)'[p] = At(n)[p]
  <2>1. /\ At(n)'["outbox"] = {l \in 1..Len(outbox') : Is(outbox'[l], n)}
        /\ At(n)'["gone"] = {o \in Gone' : o.num = n}
        /\ \A p \in Places \ {"outbox", "gone"} : At(n)'[p] = At(n)[p]
    BY <1>0 DEF At, Places
  <2>2. /\ At(n)["outbox"] = {l \in 1..Len(outbox) : Is(outbox[l], n)}
        /\ At(n)["gone"] = {o \in Gone : o.num = n}
    BY AtPlaces
  <2>3. {o \in Gone' : o.num = n} = {o \in Gone : o.num = n} \cup (IF Is(h, n) THEN {h} ELSE {})
    BY <1>2 DEF Is
  <2> QED
    BY <2>1, <2>2, <2>3
<1>4. ASSUME NEW n
      PROVE  /\ At(n)["outbox"] \subseteq Nat \ {0} /\ At(n)'["outbox"] \subseteq Nat \ {0}
             /\ 1 \in At(n)["outbox"] <=> Is(h, n)
             /\ \A j \in Nat \ {0} : j \in At(n)'["outbox"] <=> j + 1 \in At(n)["outbox"]
  BY <1>0, <1>1, <1>3, TailPlaces, SMTT(30)
<1>5. ASSUME NEW n \in Nat \ {0}, ~Is(h, n)
      PROVE  (OneOf(At(n)) => OneOf(At(n)')) /\ (SomeOf(At(n)) <=> SomeOf(At(n)'))
  <2>1. At(n)'["gone"] = At(n)["gone"]
    <3>1. (IF Is(h, n) THEN {h} ELSE {}) = {}
      BY <1>5
    <3>2. At(n)'["gone"] = At(n)["gone"] \cup (IF Is(h, n) THEN {h} ELSE {})
      BY <1>3
    <3> QED
      BY <3>1, <3>2
  <2>2. \A p \in Places \ {"outbox"} : At(n)'[p] = At(n)[p]
    BY <1>3, <2>1
  <2>3. At(n)["outbox"] \subseteq Nat \ {0, 1}
    BY <1>4, <1>5
  <2> QED
    BY <1>4, <2>2, <2>3, Shifted
<1>6. ASSUME NEW n \in Nat \ {0}, Is(h, n)
      PROVE  SomeOf(At(n)) /\ OneOf(At(n)') /\ SomeOf(At(n)')
  <2>1. "outbox" \in Places /\ "gone" \in Places
    BY DEF Places
  <2>2. 1 \in At(n)["outbox"] /\ SomeOf(At(n)) /\ OneOf(At(n))
    BY <1>4, <1>6, <2>1 DEF CustodyInv, SomeOf
  <2>3. At(n)["outbox"] = {1}
    BY <2>1, <2>2 DEF OneOf
  <2>4. At(n)'["outbox"] = {}
    BY <1>4, <2>3
  <2>5. h \in At(n)'["gone"] /\ At(n)'["gone"] \subseteq At(n)["gone"] \cup {h}
    BY <1>3, <1>6
  <2>6. \A p \in Places \ {"gone"} : At(n)'[p] \subseteq At(n)[p]
    BY <1>3, <2>4
  <2> QED
    BY <2>1, <2>2, <2>4, <2>5, <2>6, PassedOn
<1> QED
  BY <1>0, <1>5, <1>6 DEF CustodyInv

\* _publish: a message the broker accepted stays where it was; one that is given
\* up is gone, and counted as a failure.
LEMMA PublishPasses ==
    ASSUME TypeOK, CustodyInv, PublishOk \/ PublishFails \/ ConnectGivesUp
    PROVE  CustodyInv'
<1>0. /\ UNCHANGED <<hand, queue, item, quiet, abandoned, outbox, seq>>
      /\ pubFaults \in Nat
  BY DEF PublishOk, PublishFails, ConnectGivesUp, consVars, poolVars, TypeOK, PublisherType
<1>1. cur \in Out /\ cur # None
  BY NoneIsNothing DEF PublishOk, PublishFails, ConnectGivesUp, TypeOK, PublisherType
<1>2. PICK p : p = <<cur, Try>>
  OBVIOUS
<1>3. p[1] = cur
  BY <1>2
<1>4. ASSUME NEW n
      PROVE  /\ At(n)["gone"] = {o \in Gone : o.num = n} /\ At(n)'["gone"] = {o \in Gone' : o.num = n}
             /\ \A q \in Places \ {"gone"} : At(n)'[q] = At(n)[q]
  BY <1>0, AtPlaces DEF At, Places
<1>5. CASE PublishOk
  <2>1. sent' = sent \cup {p} /\ cur' = None /\ pubFaults' = pubFaults
    BY <1>2, <1>5 DEF PublishOk
  <2>2. Gone' = Gone
    BY <1>1, <1>3, <2>1 DEF Gone
  <2>3. \A n \in Nat \ {0} : \A q \in Places : At(n)'[q] = At(n)[q]
    BY <1>4, <2>2
  <2> QED
    BY <1>0, <2>1, <2>3, CustodySame
<1>6. CASE PublishFails \/ ConnectGivesUp
  <2>1. /\ sent' \in {sent, sent \cup {p}} /\ cur' \in {cur, None}
        /\ pubFaults' = pubFaults + 1
    BY <1>2, <1>6 DEF PublishFails, ConnectGivesUp
  <2>2. Gone' \subseteq Gone
    BY <1>1, <1>3, <2>1 DEF Gone
  <2>3. \A n \in Nat \ {0} : \A q \in Places : At(n)'[q] \subseteq At(n)[q]
    BY <1>4, <2>2
  <2>4. \A n \in Nat \ {0} : (OneOf(At(n)) => OneOf(At(n)')) /\ (SomeOf(At(n)') => SomeOf(At(n)))
    BY <2>3 DEF OneOf, SomeOf
  <2>5. pubFaults' # 0
    BY <1>0, <2>1
  <2> QED
    BY <1>0, <2>4, <2>5 DEF CustodyInv
<1> QED
  BY <1>5, <1>6

\* _fail and _publish_reply pass the item on to the outbox or end it.
LEMMA FailPasses ==
    ASSUME TypeOK, CustodyInv, NEW w \in Worker, wpc[w] = "run", Fail(w), Finish(w),
           UNCHANGED <<hand, queue, abandoned, cur, sent, seq, pubFaults>>
    PROVE  CustodyInv'
<1>1. PICK i \in Item : i = item[w]
  BY DEF TypeOK, PoolType
<1>2. attempt[w] \in Nat
  BY TransportAssumption DEF TypeOK, PoolType
<1>3. PICK o \in Out : o = OutOf("dead", i, attempt[w])
  BY <1>2, OutOfType DEF Kind
<1>4. o.num = i.num
  BY <1>3 DEF OutOf
<1>5. outbox' = Append(outbox, o) /\ quiet' = quiet /\ item' = [item EXCEPT ![w] = None]
  BY <1>1, <1>3 DEF Fail, Finish
<1> QED
  BY <1>1, <1>4, <1>5, OutPasses

LEMMA SucceedPasses ==
    ASSUME TypeOK, CustodyInv, NEW w \in Worker, wpc[w] = "run", NEW r, Succeed(w, r), Finish(w),
           UNCHANGED <<hand, queue, abandoned, cur, sent, seq, pubFaults>>
    PROVE  CustodyInv'
<1>1. PICK i \in Item : i = item[w]
  BY DEF TypeOK, PoolType
<1>2. item' = [item EXCEPT ![w] = None]
  BY DEF Finish
<1>3. CASE PublishReply(i, r) = <<>>
  <2>1. outbox' = outbox /\ quiet' = quiet \cup {i}
    BY <1>1, <1>3 DEF Succeed, TypeOK, PublisherType
  <2> QED
    BY <1>1, <1>2, <2>1, DonePasses
<1>4. CASE PublishReply(i, r) # <<>>
  <2>1. PICK kind \in Kind : PublishReply(i, r) = <<OutOf(kind, i, 0)>>
    BY <1>4 DEF PublishReply, Kind
  <2>2. PICK o \in Out : o = OutOf(kind, i, 0)
    BY OutOfType
  <2>3. o.num = i.num
    BY <2>2 DEF OutOf
  <2>4. outbox' = Append(outbox, o) /\ quiet' = quiet
    BY <1>1, <1>4, <2>1, <2>2 DEF Succeed, TypeOK, PublisherType
  <2> QED
    BY <1>1, <1>2, <2>3, <2>4, OutPasses
<1> QED
  BY <1>3, <1>4

\* Every step of every thread keeps one holder of every arrival.
LEMMA CustodyStep == TypeOK /\ TypeOK' /\ CustodyInv /\ [Next]_vars => CustodyInv'
<1> SUFFICES ASSUME TypeOK, TypeOK', CustodyInv, [Next]_vars PROVE CustodyInv'
  OBVIOUS
<1> USE DEF brokerVars, consVars, poolVars, pubVars, mainVars
<1>1. ASSUME NEW c \in Consumer, NEW m \in Message, OnMalformed(c, m) PROVE CustodyInv'
  <2>1. PICK o : o = [kind |-> "dead", msg |-> m, src |-> c, num |-> 0, retries |-> 0]
    OBVIOUS
  <2>2. o \in Out /\ o.num = 0
    BY <2>1 DEF Out, Kind
  <2>3. /\ outbox' = Append(outbox, o)
        /\ UNCHANGED <<hand, queue, item, quiet, abandoned, cur, sent, seq, pubFaults>>
    BY <1>1, <2>1 DEF OnMalformed
  <2> QED
    BY <2>2, <2>3, NoticePasses
<1>2. ASSUME NEW w \in Worker, HandlerReturns(w) PROVE CustodyInv'
  <2>1. /\ wpc[w] = "run" /\ Finish(w)
        /\ UNCHANGED <<hand, queue, abandoned, cur, sent, seq, pubFaults>>
    BY <1>2 DEF HandlerReturns
  <2>2. Fail(w) \/ \E r : Succeed(w, r)
    BY <1>2 DEF HandlerReturns
  <2> QED
    BY <2>1, <2>2, FailPasses, SucceedPasses
<1>3. ASSUME NEW w \in Worker, HandlerRejects(w) PROVE CustodyInv'
  BY <1>3, FailPasses DEF HandlerRejects
<1>4. ASSUME NEW w \in Worker, UnknownKey(w) PROVE CustodyInv'
  <2>1. PICK i \in Item : i = item[w]
    BY <1>4 DEF UnknownKey, TypeOK, PoolType
  <2>2. /\ quiet' = quiet \cup {i} /\ item' = [item EXCEPT ![w] = None]
        /\ UNCHANGED <<hand, queue, abandoned, outbox, cur, sent, seq, pubFaults>>
    BY <1>4, <2>1 DEF UnknownKey, Finish
  <2> QED
    BY <2>1, <2>2, DonePasses
<1>5. ASSUME NEW w \in Worker, BackoffStopped(w) PROVE CustodyInv'
  <2>1. PICK i \in Item : i = item[w]
    BY <1>5 DEF BackoffStopped, TypeOK, PoolType
  <2>2. /\ abandoned' = abandoned \cup {i} /\ item' = [item EXCEPT ![w] = None]
        /\ UNCHANGED <<hand, queue, quiet, outbox, cur, sent, seq, pubFaults>>
    BY <1>5, <2>1 DEF BackoffStopped, Finish
  <2> QED
    BY <2>1, <2>2, DonePasses
<1>6. ASSUME NEW w \in Worker, HandlerRaises(w) PROVE CustodyInv'
  <2>1. CASE RetriesLeft(w)
    BY <1>6, <2>1, CustodyFrame DEF HandlerRaises, traceVars
  <2>2. CASE ~RetriesLeft(w)
    BY <1>6, <2>2, FailPasses DEF HandlerRaises
  <2> QED
    BY <2>1, <2>2
<1>7. ASSUME StopPublisher PROVE CustodyInv'
  BY <1>7, NoticePasses DEF StopPublisher
<1>8. ASSUME NEW c \in Consumer,
             \/ \E m \in Message : Deliver(c, m)
             \/ LoseConnection(c) \/ ConsumerCheck(c) \/ Connect(c)
             \/ NoticeLoss(c) \/ StopConsuming(c) \/ Nack(c) \/ StopConsumer(c) \/ JoinConsumer(c)
      PROVE  CustodyInv'
  BY <1>8, CustodyFrame DEF Deliver, LoseConnection, ConsumerCheck, Connect, NoticeLoss,
                            StopConsuming, Nack, StopConsumer, JoinConsumer, traceVars
<1>9. ASSUME NEW w \in Worker, WorkerCheck(w) \/ GetEmpty(w) \/ BackoffOver(w)
      PROVE  CustodyInv'
  BY <1>9, CustodyFrame DEF WorkerCheck, GetEmpty, BackoffOver, traceVars
<1>10. ASSUME \/ PubEmpty \/ PubEmptyCheck \/ Sigterm \/ SecondSignal \/ StopPool \/ JoinPool
              \/ JoinPublisher \/ UNCHANGED vars
       PROVE  CustodyInv'
  BY <1>10, CustodyFrame DEF PubEmpty, PubEmptyCheck, Sigterm, SecondSignal, StopPool, JoinPool,
                             JoinPublisher, Exit, traceVars, vars
<1> QED
  BY <1>1, <1>2, <1>3, <1>4, <1>5, <1>6, <1>7, <1>8, <1>9, <1>10,
     TakesUp, SubmitPasses, GetPasses, PubGetPasses, PublishPasses
     DEF Next, Broker, ConsumerStep, WorkerStep, PublisherStep, MainStep

\* Counting: one holder at most is a sum of at most one.
LEMMA OneIsCounted ==
    ASSUME CustodyInv, NEW n \in Nat \ {0}
    PROVE  Custodians(n) <= 1 /\ (SomeOf(At(n)) => Custodians(n) = 1)
<1>0. OneOf(At(n))
  BY DEF CustodyInv
<1>1. Custodians(n) = Cardinality(At(n)["hand"]) + Cardinality(At(n)["queue"])
            + Cardinality(At(n)["worker"]) + Cardinality(At(n)["done"])
            + Cardinality(At(n)["outbox"]) + Cardinality(At(n)["gone"])
  BY AtPlaces DEF Custodians
<1>2. CASE SomeOf(At(n))
  <2>0. PICK p \in Places : At(n)[p] # {}
    BY <1>2 DEF SomeOf
  <2>1. PICK x : x \in At(n)[p]
    BY <2>0
  <2>2. At(n)[p] = {x} /\ \A q \in Places \ {p} : At(n)[q] = {}
    BY <1>0, <2>1 DEF OneOf
  <2>3. Cardinality(At(n)[p]) = 1 /\ \A q \in Places \ {p} : Cardinality(At(n)[q]) = 0
    <3>1. Cardinality({x}) = 1 /\ Cardinality({}) = 0
      BY FS_Singleton, FS_EmptySet
    <3> QED
      BY <2>2, <3>1
  <2> QED
    BY <1>1, <2>3 DEF Places
<1>3. CASE ~SomeOf(At(n))
  <2>1. \A p \in Places : Cardinality(At(n)[p]) = 0
    BY <1>3, FS_EmptySet DEF SomeOf
  <2> QED
    BY <1>1, <1>3, <2>1 DEF Places
<1> QED
  BY <1>2, <1>3

\* Whatever the number of messages and workers, the retries, the lost connections
\* and the moment of the shutdown: an acknowledged message is with one consumer,
\* queue entry, worker or outbox entry at a time and leaves as one reply, result or
\* dead letter or as nothing, and only a failed publish can lose it.
THEOREM OneCustodian == Spec => []Custody
<1>1. Init => CustodyInv
  <2> SUFFICES ASSUME Init PROVE CustodyInv
    OBVIOUS
  <2>1. ASSUME NEW n \in Nat \ {0} PROVE \A p \in Places : At(n)[p] = {}
    BY DEF At, Places, Init, Is, Gone
  <2> QED
    BY <2>1 DEF CustodyInv, OneOf, SomeOf, Init
<1>2. TypeOK /\ CustodyInv => Custody
  <2> SUFFICES ASSUME TypeOK, CustodyInv, NEW n \in 1..(seq - 1)
               PROVE  Custodians(n) <= 1 /\ (pubFaults = 0 => Custodians(n) = 1)
    BY DEF Custody
  <2>1. n \in Nat \ {0} /\ n < seq
    BY DEF TypeOK, ConsumerType
  <2> QED
    BY <2>1, OneIsCounted DEF CustodyInv
<1>3. QED
  BY <1>1, <1>2, TypeInit, TypeStep, CustodyStep, PTL DEF Spec

=============================================================================
