------------------------ MODULE BrokerThreadsProofs -------------------------
(* For any set of topics and any size of the outgoing buffer: no wake-up   *)
(* of a producer thread or of the consumer thread is lost, while the       *)
(* broker serves and when it shuts down; the buffer is used within its     *)
(* bounds; and the threads implement TopicLog.  At the end, the linked     *)
(* list that each of the queues is.                                        *)
EXTENDS BrokerThreads, MessageQueue, RosterLemmas, FiniteSetTheorems, SequenceTheorems, TLAPS

(* The variables the argument is about, and what they range over.          *)
ControlTypeOK ==
    /\ pc \in [Threads -> Label]
    /\ flag \in BOOLEAN
    /\ to_wake \subseteq Topics
    /\ mq \in [Topics -> Seq(Nat)]
    /\ mq_lock \in [Topics -> Topics \cup {None}]
    /\ mq_cv \in [Topics -> SUBSET Topics]
    /\ ob_lock \in Threads \cup {None}
    /\ fill_cv \subseteq {Consumer}
    /\ count \in Int

InQueue(t) == pc[t] \in {"dequeue_while", "dequeue_sleep", "dequeue_if"}
InOutgoingBuffer(th) == pc[th] \in {"produce_while", "produce_sleep", "produce_if",
                             "consume_while", "consume_sleep", "consume_get",
                             "consume_if", "send_locked"}

(* A critical section is held by the thread that is in it, and only then.  *)
LocksFollowPc ==
    /\ \A t \in Topics : mq_lock[t] = IF InQueue(t) THEN t ELSE None
    /\ \A th \in Threads : InOutgoingBuffer(th) <=> ob_lock = th

(* shutting_down.flag is up once main is in shut_down_threads(), and until *)
(* then no topic has been woken for it.                                    *)
FlagFollowsMain ==
    /\ flag <=> pc[Main] \in {"wake_queues", "await_threads", "await_asleep"}
    /\ ~flag => to_wake = Topics

(* Only its own thread sleeps on a queue, and the consumer is where its    *)
(* sleep ends when it sleeps.                                              *)
SleepersAreAsleep ==
    /\ \A t \in Topics : mq_cv[t] \subseteq {t}
    /\ fill_cv # {} => pc[Consumer] = "consume_asleep"

(* A thread that has decided to sleep, and not yet gone to sleep, decided  *)
(* so on grounds that still hold.                                          *)
DecisionsStand ==
    /\ \A t \in Topics : pc[t] = "dequeue_sleep" =>
          IF flag THEN t \in to_wake ELSE mq[t] = << >>
    /\ pc[Consumer] = "consume_sleep" =>
          IF flag THEN pc[Main] = "wake_queues" ELSE count = 0

WakeInv ==
    /\ ControlTypeOK
    /\ LocksFollowPc
    /\ FlagFollowsMain
    /\ SleepersAreAsleep
    /\ DecisionsStand
    /\ SleepingProducerHasNoWork
    /\ SleepingConsumerHasNoWork

LEMMA WakeInvInit == initialize => WakeInv
<1> SUFFICES ASSUME initialize PROVE WakeInv
  OBVIOUS
<1> USE BrokerThreadsAssumption DEF initialize, OB!initialize_outgoing_buffer
<1>1. ControlTypeOK
  <2>1. pc \in [Threads -> Label]
    BY DEF Threads, Source, Label
  <2>2. /\ mq \in [Topics -> Seq(Nat)]
        /\ mq_lock \in [Topics -> Topics \cup {None}]
        /\ mq_cv \in [Topics -> SUBSET Topics]
    OBVIOUS
  <2>3. flag \in BOOLEAN
    OBVIOUS
  <2>4. count \in Int /\ to_wake \subseteq Topics
    OBVIOUS
  <2> QED BY <2>1, <2>2, <2>3, <2>4 DEF ControlTypeOK
<1>2. LocksFollowPc
  BY DEF LocksFollowPc, Threads, Source, InQueue, InOutgoingBuffer
<1>3. FlagFollowsMain /\ SleepersAreAsleep
  BY DEF FlagFollowsMain, SleepersAreAsleep, Threads, Source
<1>4. DecisionsStand
  BY DEF DecisionsStand, Threads, Source
<1>5. SleepingProducerHasNoWork /\ SleepingConsumerHasNoWork
  BY DEF SleepingProducerHasNoWork, SleepingConsumerHasNoWork
<1> QED BY <1>1, <1>2, <1>3, <1>4, <1>5 DEF WakeInv

LEMMA WakeInvStep == WakeInv /\ [Next]_vars => WakeInv'
<1> SUFFICES ASSUME WakeInv, [Next]_vars PROVE WakeInv'
  OBVIOUS
<1> USE BrokerThreadsAssumption
<1> USE DEF WakeInv, ControlTypeOK, LocksFollowPc, FlagFollowsMain, SleepersAreAsleep,
            DecisionsStand, SleepingProducerHasNoWork, SleepingConsumerHasNoWork,
            InQueue, InOutgoingBuffer, Threads, Source, Label, GoTo,
            shutDownVars, queueVars, bufferVars, bufferSync, historyVars
<1>1. CASE UNCHANGED vars
  <2>1. ControlTypeOK'
    BY <1>1 DEF vars
  <2>2. LocksFollowPc'
    BY <1>1 DEF vars
  <2>3. FlagFollowsMain' /\ SleepersAreAsleep'
    BY <1>1 DEF vars
  <2>4. DecisionsStand'
    BY <1>1 DEF vars
  <2>5. SleepingProducerHasNoWork' /\ SleepingConsumerHasNoWork'
    BY <1>1 DEF vars
  <2> QED BY <2>1, <2>2, <2>3, <2>4, <2>5
<1>2. ASSUME NEW th \in Topics \cup {Consumer}, CreateThread(th) PROVE WakeInv'
  <2>1. ControlTypeOK'
    BY <1>2 DEF CreateThread
  <2>2. LocksFollowPc'
    <3>1. PICK where \in {"failed", "consume", "produce"} : GoTo(th, where)
      BY <1>2 DEF CreateThread
    <3> QED BY <3>1, <1>2 DEF CreateThread
  <2>3. FlagFollowsMain' /\ SleepersAreAsleep'
    BY <1>2 DEF CreateThread
  <2>4. DecisionsStand'
    BY <1>2 DEF CreateThread
  <2>5. SleepingProducerHasNoWork' /\ SleepingConsumerHasNoWork'
    BY <1>2 DEF CreateThread
  <2> QED BY <2>1, <2>2, <2>3, <2>4, <2>5
<1>3. CASE ThreadsCreated
  <2>1. ControlTypeOK'
    BY <1>3 DEF ThreadsCreated
  <2>2. LocksFollowPc'
    BY <1>3 DEF ThreadsCreated
  <2>3. FlagFollowsMain' /\ SleepersAreAsleep'
    BY <1>3 DEF ThreadsCreated
  <2>4. DecisionsStand'
    BY <1>3 DEF ThreadsCreated
  <2>5. SleepingProducerHasNoWork' /\ SleepingConsumerHasNoWork'
    BY <1>3 DEF ThreadsCreated
  <2> QED BY <2>1, <2>2, <2>3, <2>4, <2>5
<1>4. CASE connect_to_sm
  <2>1. ControlTypeOK'
    BY <1>4 DEF connect_to_sm
  <2>2. LocksFollowPc'
    BY <1>4 DEF connect_to_sm
  <2>3. FlagFollowsMain' /\ SleepersAreAsleep'
    BY <1>4 DEF connect_to_sm
  <2>4. DecisionsStand'
    BY <1>4 DEF connect_to_sm
  <2>5. SleepingProducerHasNoWork' /\ SleepingConsumerHasNoWork'
    BY <1>4 DEF connect_to_sm
  <2> QED BY <2>1, <2>2, <2>3, <2>4, <2>5
<1>5. ASSUME NEW t \in Topics, enqueue(t) PROVE WakeInv'
  <2>1. ControlTypeOK'
    BY <1>5 DEF enqueue, WakeQueueCV, WokenOne
  <2>2. LocksFollowPc'
    BY <1>5 DEF enqueue, WakeQueueCV, WokenOne
  <2>3. FlagFollowsMain' /\ SleepersAreAsleep'
    BY <1>5 DEF enqueue, WakeQueueCV, WokenOne
  <2>4. DecisionsStand'
    BY <1>5 DEF enqueue, WakeQueueCV, WokenOne
  <2>5. SleepingProducerHasNoWork' /\ SleepingConsumerHasNoWork'
    BY <1>5 DEF enqueue, WakeQueueCV, WokenOne
  <2> QED BY <2>1, <2>2, <2>3, <2>4, <2>5
<1>6. CASE execute_command_and_produce
  <2>1. ControlTypeOK'
    BY <1>6 DEF execute_command_and_produce
  <2>2. LocksFollowPc'
    BY <1>6 DEF execute_command_and_produce
  <2>3. FlagFollowsMain' /\ SleepersAreAsleep'
    BY <1>6 DEF execute_command_and_produce
  <2>4. DecisionsStand'
    BY <1>6 DEF execute_command_and_produce
  <2>5. SleepingProducerHasNoWork' /\ SleepingConsumerHasNoWork'
    BY <1>6 DEF execute_command_and_produce
  <2> QED BY <2>1, <2>2, <2>3, <2>4, <2>5
<1>7. ASSUME NEW t \in Topics, produce(t) PROVE WakeInv'
  <2>1. ControlTypeOK'
    BY <1>7 DEF produce
  <2>2. LocksFollowPc'
    BY <1>7 DEF produce
  <2>3. FlagFollowsMain' /\ SleepersAreAsleep'
    BY <1>7 DEF produce
  <2>4. DecisionsStand'
    BY <1>7 DEF produce
  <2>5. SleepingProducerHasNoWork' /\ SleepingConsumerHasNoWork'
    BY <1>7 DEF produce
  <2> QED BY <2>1, <2>2, <2>3, <2>4, <2>5
<1>8. ASSUME NEW t \in Topics, DequeueEnter(t) PROVE WakeInv'
  <2>1. ControlTypeOK'
    BY <1>8 DEF DequeueEnter
  <2>2. LocksFollowPc'
    BY <1>8 DEF DequeueEnter
  <2>3. FlagFollowsMain' /\ SleepersAreAsleep'
    BY <1>8 DEF DequeueEnter
  <2>4. DecisionsStand'
    BY <1>8 DEF DequeueEnter
  <2>5. SleepingProducerHasNoWork' /\ SleepingConsumerHasNoWork'
    BY <1>8 DEF DequeueEnter
  <2> QED BY <2>1, <2>2, <2>3, <2>4, <2>5
<1>9. ASSUME NEW t \in Topics, DequeueWhile(t) PROVE WakeInv'
  <2>1. ControlTypeOK'
    BY <1>9 DEF DequeueWhile, QueueEmpty
  <2>2. LocksFollowPc'
    BY <1>9 DEF DequeueWhile, QueueEmpty
  <2>3. FlagFollowsMain' /\ SleepersAreAsleep'
    BY <1>9 DEF DequeueWhile, QueueEmpty
  <2>4. DecisionsStand'
    BY <1>9 DEF DequeueWhile, QueueEmpty
  <2>5. SleepingProducerHasNoWork' /\ SleepingConsumerHasNoWork'
    BY <1>9 DEF DequeueWhile, QueueEmpty
  <2> QED BY <2>1, <2>2, <2>3, <2>4, <2>5
<1>10. ASSUME NEW t \in Topics, DequeueSleep(t) PROVE WakeInv'
  <2>1. ControlTypeOK'
    BY <1>10 DEF DequeueSleep
  <2>2. LocksFollowPc'
    BY <1>10 DEF DequeueSleep
  <2>3. FlagFollowsMain' /\ SleepersAreAsleep'
    BY <1>10 DEF DequeueSleep
  <2>4. DecisionsStand'
    BY <1>10 DEF DequeueSleep
  <2>5. SleepingProducerHasNoWork' /\ SleepingConsumerHasNoWork'
    BY <1>10 DEF DequeueSleep
  <2> QED BY <2>1, <2>2, <2>3, <2>4, <2>5
<1>11. ASSUME NEW t \in Topics, DequeueIf(t) PROVE WakeInv'
  <2>1. ControlTypeOK'
    BY <1>11 DEF DequeueIf
  <2>2. LocksFollowPc'
    BY <1>11 DEF DequeueIf
  <2>3. FlagFollowsMain' /\ SleepersAreAsleep'
    BY <1>11 DEF DequeueIf
  <2>4. DecisionsStand'
    BY <1>11 DEF DequeueIf
  <2>5. SleepingProducerHasNoWork' /\ SleepingConsumerHasNoWork'
    BY <1>11 DEF DequeueIf
  <2> QED BY <2>1, <2>2, <2>3, <2>4, <2>5
<1>12. ASSUME NEW s \in Source, ProduceEnter(s) PROVE WakeInv'
  <2>1. ControlTypeOK'
    BY <1>12 DEF ProduceEnter
  <2>2. LocksFollowPc'
    BY <1>12 DEF ProduceEnter
  <2>3. FlagFollowsMain' /\ SleepersAreAsleep'
    BY <1>12 DEF ProduceEnter
  <2>4. DecisionsStand'
    BY <1>12 DEF ProduceEnter
  <2>5. SleepingProducerHasNoWork' /\ SleepingConsumerHasNoWork'
    BY <1>12 DEF ProduceEnter
  <2> QED BY <2>1, <2>2, <2>3, <2>4, <2>5
<1>13. ASSUME NEW s \in Source, ProduceWhile(s) PROVE WakeInv'
  <2>1. ControlTypeOK'
    BY <1>13 DEF ProduceWhile, BufferFull
  <2>2. LocksFollowPc'
    BY <1>13 DEF ProduceWhile, BufferFull
  <2>3. FlagFollowsMain' /\ SleepersAreAsleep'
    BY <1>13 DEF ProduceWhile, BufferFull
  <2>4. DecisionsStand'
    BY <1>13 DEF ProduceWhile, BufferFull
  <2>5. SleepingProducerHasNoWork' /\ SleepingConsumerHasNoWork'
    BY <1>13 DEF ProduceWhile, BufferFull
  <2> QED BY <2>1, <2>2, <2>3, <2>4, <2>5
<1>14. ASSUME NEW s \in Source, ProduceSleep(s) PROVE WakeInv'
  <2>1. ControlTypeOK'
    BY <1>14 DEF ProduceSleep
  <2>2. LocksFollowPc'
    BY <1>14 DEF ProduceSleep
  <2>3. FlagFollowsMain' /\ SleepersAreAsleep'
    BY <1>14 DEF ProduceSleep
  <2>4. DecisionsStand'
    BY <1>14 DEF ProduceSleep
  <2>5. SleepingProducerHasNoWork' /\ SleepingConsumerHasNoWork'
    BY <1>14 DEF ProduceSleep
  <2> QED BY <2>1, <2>2, <2>3, <2>4, <2>5
<1>15. ASSUME NEW s \in Source, ProduceIf(s) PROVE WakeInv'
  <2>1. ControlTypeOK'
    BY <1>15 DEF ProduceIf, WokenOne, OB!put
  <2>2. LocksFollowPc'
    BY <1>15 DEF ProduceIf, WokenOne, OB!put
  <2>3. FlagFollowsMain' /\ SleepersAreAsleep'
    BY <1>15 DEF ProduceIf, WokenOne, OB!put
  <2>4. DecisionsStand'
    BY <1>15 DEF ProduceIf, WokenOne, OB!put
  <2>5. SleepingProducerHasNoWork' /\ SleepingConsumerHasNoWork'
    BY <1>15 DEF ProduceIf, WokenOne, OB!put
  <2> QED BY <2>1, <2>2, <2>3, <2>4, <2>5
<1>16. CASE consume
  <2>1. ControlTypeOK'
    BY <1>16 DEF consume
  <2>2. LocksFollowPc'
    BY <1>16 DEF consume
  <2>3. FlagFollowsMain' /\ SleepersAreAsleep'
    BY <1>16 DEF consume
  <2>4. DecisionsStand'
    BY <1>16 DEF consume
  <2>5. SleepingProducerHasNoWork' /\ SleepingConsumerHasNoWork'
    BY <1>16 DEF consume
  <2> QED BY <2>1, <2>2, <2>3, <2>4, <2>5
<1>17. CASE ConsumeEnter
  <2>1. ControlTypeOK'
    BY <1>17 DEF ConsumeEnter
  <2>2. LocksFollowPc'
    BY <1>17 DEF ConsumeEnter
  <2>3. FlagFollowsMain' /\ SleepersAreAsleep'
    BY <1>17 DEF ConsumeEnter
  <2>4. DecisionsStand'
    BY <1>17 DEF ConsumeEnter
  <2>5. SleepingProducerHasNoWork' /\ SleepingConsumerHasNoWork'
    BY <1>17 DEF ConsumeEnter
  <2> QED BY <2>1, <2>2, <2>3, <2>4, <2>5
<1>18. CASE ConsumeWhile
  <2>1. ControlTypeOK'
    BY <1>18 DEF ConsumeWhile, BufferEmpty
  <2>2. LocksFollowPc'
    BY <1>18 DEF ConsumeWhile, BufferEmpty
  <2>3. FlagFollowsMain' /\ SleepersAreAsleep'
    BY <1>18 DEF ConsumeWhile, BufferEmpty
  <2>4. DecisionsStand'
    BY <1>18 DEF ConsumeWhile, BufferEmpty
  <2>5. SleepingProducerHasNoWork' /\ SleepingConsumerHasNoWork'
    BY <1>18 DEF ConsumeWhile, BufferEmpty
  <2> QED BY <2>1, <2>2, <2>3, <2>4, <2>5
<1>19. CASE ConsumeSleep
  <2>1. ControlTypeOK'
    BY <1>19 DEF ConsumeSleep
  <2>2. LocksFollowPc'
    BY <1>19 DEF ConsumeSleep
  <2>3. FlagFollowsMain' /\ SleepersAreAsleep'
    BY <1>19 DEF ConsumeSleep
  <2>4. DecisionsStand'
    BY <1>19 DEF ConsumeSleep
  <2>5. SleepingProducerHasNoWork' /\ SleepingConsumerHasNoWork'
    BY <1>19 DEF ConsumeSleep
  <2> QED BY <2>1, <2>2, <2>3, <2>4, <2>5
<1>20. CASE ConsumeGet
  <2>1. ControlTypeOK'
    BY <1>20 DEF ConsumeGet, OB!get
  <2>2. LocksFollowPc'
    BY <1>20 DEF ConsumeGet, OB!get
  <2>3. FlagFollowsMain' /\ SleepersAreAsleep'
    BY <1>20 DEF ConsumeGet, OB!get
  <2>4. DecisionsStand'
    BY <1>20 DEF ConsumeGet, OB!get
  <2>5. SleepingProducerHasNoWork' /\ SleepingConsumerHasNoWork'
    BY <1>20 DEF ConsumeGet, OB!get
  <2> QED BY <2>1, <2>2, <2>3, <2>4, <2>5
<1>21. CASE ConsumeIf
  <2>1. ControlTypeOK'
    BY <1>21 DEF ConsumeIf, WokenOne, WakeEmptyCV
  <2>2. LocksFollowPc'
    BY <1>21 DEF ConsumeIf, WokenOne, WakeEmptyCV
  <2>3. FlagFollowsMain' /\ SleepersAreAsleep'
    BY <1>21 DEF ConsumeIf, WokenOne, WakeEmptyCV
  <2>4. DecisionsStand'
    BY <1>21 DEF ConsumeIf, WokenOne, WakeEmptyCV
  <2>5. SleepingProducerHasNoWork' /\ SleepingConsumerHasNoWork'
    BY <1>21 DEF ConsumeIf, WokenOne, WakeEmptyCV
  <2> QED BY <2>1, <2>2, <2>3, <2>4, <2>5
<1>22. CASE Send
  <2>1. ControlTypeOK'
    BY <1>22 DEF Send
  <2>2. LocksFollowPc'
    <3>1. CASE pc[Consumer] = "send"
      <4>1. pc' = [pc EXCEPT ![Consumer] = "consume"] /\ UNCHANGED <<ob_lock, mq_lock>>
        BY <1>22, <3>1 DEF Send
      <4>2. \A th \in Threads \ {Consumer} : pc'[th] = pc[th]
        BY <4>1
      <4> QED BY <3>1, <4>1, <4>2
    <3>2. CASE pc[Consumer] = "send_locked"
      BY <1>22, <3>2 DEF Send
    <3> QED BY <3>1, <3>2, <1>22 DEF Send
  <2>3. FlagFollowsMain' /\ SleepersAreAsleep'
    BY <1>22 DEF Send
  <2>4. DecisionsStand'
    BY <1>22 DEF Send
  <2>5. SleepingProducerHasNoWork' /\ SleepingConsumerHasNoWork'
    BY <1>22 DEF Send
  <2> QED BY <2>1, <2>2, <2>3, <2>4, <2>5
<1>23. ASSUME NEW th \in Topics \cup {Consumer}, signal_shut_down(th) PROVE WakeInv'
  <2>1. ControlTypeOK'
    BY <1>23 DEF signal_shut_down
  <2>2. LocksFollowPc'
    BY <1>23 DEF signal_shut_down
  <2>3. FlagFollowsMain' /\ SleepersAreAsleep'
    BY <1>23 DEF signal_shut_down
  <2>4. DecisionsStand'
    BY <1>23 DEF signal_shut_down
  <2>5. SleepingProducerHasNoWork' /\ SleepingConsumerHasNoWork'
    BY <1>23 DEF signal_shut_down
  <2> QED BY <2>1, <2>2, <2>3, <2>4, <2>5
<1>24. CASE SetFlag
  <2>1. ControlTypeOK'
    BY <1>24 DEF SetFlag
  <2>2. LocksFollowPc'
    BY <1>24 DEF SetFlag
  <2>3. FlagFollowsMain' /\ SleepersAreAsleep'
    BY <1>24 DEF SetFlag
  <2>4. DecisionsStand'
    BY <1>24 DEF SetFlag
  <2>5. SleepingProducerHasNoWork' /\ SleepingConsumerHasNoWork'
    BY <1>24 DEF SetFlag
  <2> QED BY <2>1, <2>2, <2>3, <2>4, <2>5
<1>25. ASSUME NEW t \in Topics, WakeQueue(t) PROVE WakeInv'
  <2>1. ControlTypeOK'
    BY <1>25 DEF WakeQueue, WakeQueueCV, WokenOne
  <2>2. LocksFollowPc'
    BY <1>25 DEF WakeQueue, WakeQueueCV, WokenOne
  <2>3. FlagFollowsMain' /\ SleepersAreAsleep'
    BY <1>25 DEF WakeQueue, WakeQueueCV, WokenOne
  <2>4. DecisionsStand'
    BY <1>25 DEF WakeQueue, WakeQueueCV, WokenOne
  <2>5. SleepingProducerHasNoWork' /\ SleepingConsumerHasNoWork'
    BY <1>25 DEF WakeQueue, WakeQueueCV, WokenOne
  <2> QED BY <2>1, <2>2, <2>3, <2>4, <2>5
<1>26. CASE WakeBuffer
  <2>1. ControlTypeOK'
    BY <1>26 DEF WakeBuffer, WakeBothCVs
  <2>2. LocksFollowPc'
    BY <1>26 DEF WakeBuffer, WakeBothCVs
  <2>3. FlagFollowsMain' /\ SleepersAreAsleep'
    BY <1>26 DEF WakeBuffer, WakeBothCVs
  <2>4. DecisionsStand'
    BY <1>26 DEF WakeBuffer, WakeBothCVs
  <2>5. SleepingProducerHasNoWork' /\ SleepingConsumerHasNoWork'
    BY <1>26 DEF WakeBuffer, WakeBothCVs
  <2> QED BY <2>1, <2>2, <2>3, <2>4, <2>5
<1>27. CASE AwaitThreads
  <2>1. ControlTypeOK'
    BY <1>27 DEF AwaitThreads
  <2>2. LocksFollowPc'
    <3>1. UNCHANGED <<mq_lock, ob_lock>>
      BY <1>27 DEF AwaitThreads
    <3>2. \A t \in Topics : pc'[t] = pc[t]
      BY <1>27 DEF AwaitThreads
    <3>3. \A th \in Threads : InOutgoingBuffer(th)' <=> InOutgoingBuffer(th)
      BY <1>27 DEF AwaitThreads
    <3> QED BY <3>1, <3>2, <3>3
  <2>3. FlagFollowsMain' /\ SleepersAreAsleep'
    BY <1>27 DEF AwaitThreads
  <2>4. DecisionsStand'
    BY <1>27 DEF AwaitThreads
  <2>5. SleepingProducerHasNoWork' /\ SleepingConsumerHasNoWork'
    BY <1>27 DEF AwaitThreads
  <2> QED BY <2>1, <2>2, <2>3, <2>4, <2>5
<1>28. CASE SpuriousWakeup
  <2>1. UNCHANGED <<pc, flag, to_wake, mq, mq_lock, ob_lock, count>>
    BY <1>28 DEF SpuriousWakeup
  <2>0. mq_cv' = mq_cv \/ \E t \in Topics : mq_cv' = [mq_cv EXCEPT ![t] = {}]
    BY <1>28 DEF SpuriousWakeup
  <2>8. mq_cv \in [Topics -> SUBSET Topics]
    OBVIOUS
  <2>2. \A t \in Topics : mq_cv'[t] \subseteq mq_cv[t]
    BY ONLY <2>0, <2>8
  <2>3. mq_cv' \in [Topics -> SUBSET Topics]
    BY ONLY <2>0, <2>8
  <2>4. fill_cv' \subseteq fill_cv
    BY <1>28 DEF SpuriousWakeup
  <2>5. ControlTypeOK'
    BY <2>1, <2>3, <2>4
  <2>6. LocksFollowPc' /\ FlagFollowsMain' /\ DecisionsStand'
    BY <2>1
  <2>7. SleepersAreAsleep' /\ SleepingProducerHasNoWork' /\ SleepingConsumerHasNoWork'
    BY <2>1, <2>2, <2>4
  <2> QED BY <2>5, <2>6, <2>7
<1> QED
  BY <1>1, <1>2, <1>3, <1>4, <1>5, <1>6, <1>7, <1>8, <1>9, <1>10, <1>11, <1>12,
     <1>13, <1>14, <1>15, <1>16, <1>17, <1>18, <1>19, <1>20, <1>21, <1>22, <1>23, <1>24,
     <1>25, <1>26, <1>27, <1>28
     DEF Next, MainThread, MainCommands, ConsumerThread, ProducerThread, produce_new_message

LEMMA WakeInvIsInvariant == Spec => []WakeInv
  BY WakeInvInit, WakeInvStep, PTL DEF Spec

-----------------------------------------------------------------------------
(* A producer thread never sleeps beside a message in its queue, and never *)
(* through a shutdown that has already passed it.                          *)
THEOREM ProducersAreWoken == Spec => []SleepingProducerHasNoWork
  BY WakeInvIsInvariant, PTL DEF WakeInv

(* The consumer thread never sleeps beside an element in the buffer, and   *)
(* never through a shutdown that has already passed it.                    *)
THEOREM ConsumerIsWoken == Spec => []SleepingConsumerHasNoWork
  BY WakeInvIsInvariant, PTL DEF WakeInv

-----------------------------------------------------------------------------
(* The data.  OutgoingBufferProofs shows what put() and get() do to the    *)
(* buffer when they are called as they should be; here is that they are.   *)
OBP == INSTANCE OutgoingBufferProofs WITH OutgoingBufferElement <- Element,
                                          Unfilled <- None

DataTypeOK ==
    /\ process \in {"running", "exited", "crashed"}
    /\ num_of_shut_down_threads \in Nat
    /\ shut_down_cv \subseteq {Main}
    /\ empty_cv \subseteq Source
    /\ held \in [Source -> Nat \cup {None}]
    /\ accepted \in [Source -> Seq(Nat)]
    /\ forwarded \in [Source -> Seq(Nat)]

BufferTypeOK ==
    /\ array \in [OB!Index -> Element \cup {None}]
    /\ fill_idx \in OB!Index
    /\ use_idx \in OB!Index
    /\ count \in -1 .. MAX_OUTGOING_BUFFER_SIZE
    /\ element \in Element \cup {None}

(* What the wait loops have established once they are left.                *)
LoopsEstablish ==
    /\ \A t \in Topics : pc[t] = "dequeue_if" /\ ~flag => mq[t] # << >>
    /\ \A s \in Source :
          /\ pc[s] \in {"produce_new_message", "produce_while", "produce_sleep",
                        "produce_asleep", "produce_if"} /\ ~flag => held[s] \in Nat
          /\ pc[s] = "produce_if" /\ ~flag => count < MAX_OUTGOING_BUFFER_SIZE
    /\ pc[Consumer] = "consume_get" /\ ~flag => count > 0
    /\ count = -1 => flag /\ pc[Consumer] \in {"consume_if", "send_locked",
                                               "signal_shut_down", "done"}

DataInv == /\ DataTypeOK
           /\ BufferTypeOK
           /\ LoopsEstablish
           /\ BufferUsedWithinBounds

LEMMA BufferAssumptionHolds == OBP!OutgoingBufferAssumption
  BY BrokerThreadsAssumption DEF OBP!OutgoingBufferAssumption

LEMMA PutKeepsBuffer ==
  ASSUME OBP!BufferInv, NEW e \in Element, count # MAX_OUTGOING_BUFFER_SIZE, OB!put(e)
  PROVE  OBP!BufferInv'
  BY OBP!ProduceKeepsInv, BufferAssumptionHolds DEF OBP!Produce, OB!put, OBP!put

LEMMA GetKeepsBuffer ==
  ASSUME OBP!BufferInv, count # 0, OB!get
  PROVE  OBP!BufferInv'
  BY OBP!ConsumeKeepsInv, BufferAssumptionHolds DEF OBP!Consume, OB!get, OBP!get

LEMMA BufferInvIsInBounds ==
  BufferUsedWithinBounds <=> (~flag => OBP!BufferInv)
  BY DEF BufferUsedWithinBounds, OBP!BufferInv, OB!OutgoingBufferTypeOK,
         OBP!OutgoingBufferTypeOK, OB!IndicesAgree, OBP!IndicesAgree, OB!Index,
         OBP!Index, OB!Contents, OBP!Contents

LEMMA BufferInvIsInBoundsNext ==
  BufferUsedWithinBounds' <=> (~flag' => OBP!BufferInv')
  BY BufferInvIsInBounds, PTL

LEMMA CountInBounds ==
  ASSUME BufferUsedWithinBounds, ~flag
  PROVE  count \in 0 .. MAX_OUTGOING_BUFFER_SIZE
  BY DEF BufferUsedWithinBounds, OB!OutgoingBufferTypeOK

(* A step that leaves the buffer alone leaves what is known of it intact.  *)
LEMMA BufferLeftAlone ==
  ASSUME BufferTypeOK, BufferUsedWithinBounds, UNCHANGED bufferVars, flag => flag'
  PROVE  BufferTypeOK' /\ BufferUsedWithinBounds'
  BY DEF BufferTypeOK, BufferUsedWithinBounds, bufferVars, OB!OutgoingBufferTypeOK,
         OB!IndicesAgree, OB!Index, OB!Contents

LEMMA DataInvInit == initialize => DataInv
<1> SUFFICES ASSUME initialize PROVE DataInv
  OBVIOUS
<1>1. OBP!BufferInv
  BY OBP!BufferStartsEmpty, BufferAssumptionHolds
     DEF initialize, OB!initialize_outgoing_buffer, OBP!initialize_outgoing_buffer, OB!Index, OBP!Index
<1>2. BufferUsedWithinBounds
  BY <1>1, BufferInvIsInBounds
<1>3. BufferTypeOK
  BY <1>1, BrokerThreadsAssumption
     DEF BufferTypeOK, OBP!BufferInv, OBP!OutgoingBufferTypeOK, OB!Index, OBP!Index
<1>4. DataTypeOK
  <2>1. accepted \in [Source -> Seq(Nat)] /\ forwarded \in [Source -> Seq(Nat)]
    BY DEF initialize
  <2> QED BY <2>1 DEF initialize, DataTypeOK
<1>5. LoopsEstablish
  BY BrokerThreadsAssumption
     DEF initialize, LoopsEstablish, Threads, Source, OB!initialize_outgoing_buffer
<1> QED BY <1>2, <1>3, <1>4, <1>5 DEF DataInv

LEMMA DataInvStep == WakeInv /\ DataInv /\ [Next]_vars => DataInv'
<1> SUFFICES ASSUME WakeInv, DataInv, [Next]_vars PROVE DataInv'
  OBVIOUS
<1> USE BrokerThreadsAssumption
<1> USE DEF DataInv, DataTypeOK, LoopsEstablish, WakeInv, ControlTypeOK, LocksFollowPc,
            FlagFollowsMain, InQueue, InOutgoingBuffer, Threads, Source, Label, GoTo,
            shutDownVars, queueVars, bufferSync, historyVars
<1>0. ~flag => count \in 0 .. MAX_OUTGOING_BUFFER_SIZE
  BY CountInBounds
<1>1. CASE UNCHANGED vars
  <2>1. BufferTypeOK' /\ BufferUsedWithinBounds'
    BY <1>1, BufferLeftAlone DEF vars
  <2>2. DataTypeOK'
    BY <1>1 DEF vars
  <2>3. LoopsEstablish'
    BY <1>1 DEF vars, bufferVars
  <2> QED BY <2>1, <2>2, <2>3
<1>2. ASSUME NEW th \in Topics \cup {Consumer}, CreateThread(th) PROVE DataInv'
  <2>1. BufferTypeOK' /\ BufferUsedWithinBounds'
    BY <1>2, BufferLeftAlone DEF CreateThread
  <2>2. DataTypeOK'
    BY <1>2 DEF CreateThread
  <2>3. LoopsEstablish'
    BY <1>2, <1>0 DEF CreateThread, bufferVars
  <2> QED BY <2>1, <2>2, <2>3
<1>3. CASE ThreadsCreated
  <2>1. BufferTypeOK' /\ BufferUsedWithinBounds'
    BY <1>3, BufferLeftAlone DEF ThreadsCreated
  <2>2. DataTypeOK'
    BY <1>3 DEF ThreadsCreated
  <2>3. LoopsEstablish'
    BY <1>3, <1>0 DEF ThreadsCreated, bufferVars
  <2> QED BY <2>1, <2>2, <2>3
<1>4. CASE connect_to_sm
  <2>1. BufferTypeOK' /\ BufferUsedWithinBounds'
    BY <1>4, BufferLeftAlone DEF connect_to_sm
  <2>2. DataTypeOK'
    BY <1>4 DEF connect_to_sm
  <2>3. LoopsEstablish'
    BY <1>4, <1>0 DEF connect_to_sm, bufferVars
  <2> QED BY <2>1, <2>2, <2>3
<1>5. ASSUME NEW t \in Topics, enqueue(t) PROVE DataInv'
  <2>1. BufferTypeOK' /\ BufferUsedWithinBounds'
    BY <1>5, BufferLeftAlone DEF enqueue
  <2>2. DataTypeOK'
    BY <1>5 DEF enqueue
  <2>3. LoopsEstablish'
    BY <1>5, <1>0 DEF enqueue, bufferVars
  <2> QED BY <2>1, <2>2, <2>3
<1>6. CASE execute_command_and_produce
  <2>1. BufferTypeOK' /\ BufferUsedWithinBounds'
    BY <1>6, BufferLeftAlone DEF execute_command_and_produce
  <2>2. DataTypeOK'
    BY <1>6 DEF execute_command_and_produce
  <2>3. LoopsEstablish'
    BY <1>6, <1>0 DEF execute_command_and_produce, bufferVars
  <2> QED BY <2>1, <2>2, <2>3
<1>7. ASSUME NEW t \in Topics, produce(t) PROVE DataInv'
  <2>1. BufferTypeOK' /\ BufferUsedWithinBounds'
    BY <1>7, BufferLeftAlone DEF produce
  <2>2. DataTypeOK'
    BY <1>7 DEF produce
  <2>3. LoopsEstablish'
    BY <1>7, <1>0 DEF produce, bufferVars
  <2> QED BY <2>1, <2>2, <2>3
<1>8. ASSUME NEW t \in Topics, DequeueEnter(t) PROVE DataInv'
  <2>1. BufferTypeOK' /\ BufferUsedWithinBounds'
    BY <1>8, BufferLeftAlone DEF DequeueEnter
  <2>2. DataTypeOK'
    BY <1>8 DEF DequeueEnter
  <2>3. LoopsEstablish'
    BY <1>8, <1>0 DEF DequeueEnter, bufferVars
  <2> QED BY <2>1, <2>2, <2>3
<1>9. ASSUME NEW t \in Topics, DequeueWhile(t) PROVE DataInv'
  <2>1. BufferTypeOK' /\ BufferUsedWithinBounds'
    BY <1>9, BufferLeftAlone DEF DequeueWhile
  <2>2. DataTypeOK'
    BY <1>9 DEF DequeueWhile, QueueEmpty
  <2>3. LoopsEstablish'
    BY <1>9, <1>0 DEF DequeueWhile, QueueEmpty, bufferVars
  <2> QED BY <2>1, <2>2, <2>3
<1>10. ASSUME NEW t \in Topics, DequeueSleep(t) PROVE DataInv'
  <2>1. BufferTypeOK' /\ BufferUsedWithinBounds'
    BY <1>10, BufferLeftAlone DEF DequeueSleep
  <2>2. DataTypeOK'
    BY <1>10 DEF DequeueSleep
  <2>3. LoopsEstablish'
    BY <1>10, <1>0 DEF DequeueSleep, bufferVars
  <2> QED BY <2>1, <2>2, <2>3
<1>11. ASSUME NEW t \in Topics, DequeueIf(t) PROVE DataInv'
  <2>1. BufferTypeOK' /\ BufferUsedWithinBounds'
    BY <1>11, BufferLeftAlone DEF DequeueIf
  <2>2. DataTypeOK'
    BY <1>11 DEF DequeueIf
  <2>3. LoopsEstablish'
    <3>1. /\ pc[t] = "dequeue_if" /\ pc' = [pc EXCEPT ![t] = "produce_new_message"]
          /\ flag' = flag /\ count' = count
          /\ \A u \in Topics \ {t} : mq'[u] = mq[u]
          /\ \A s \in Source \ {t} : held'[s] = held[s]
      BY <1>11 DEF DequeueIf, bufferVars
    <3>2. ~flag => held'[t] \in Nat
      <4>1. ~flag => mq[t] # << >> /\ mq[t] \in Seq(Nat) /\ held'[t] = Head(mq[t])
        BY <1>11 DEF DequeueIf
      <4> QED BY <4>1
    <3>3. \A u \in Topics : pc'[u] = "dequeue_if" /\ ~flag' => mq'[u] # << >>
      BY <3>1
    <3>4. \A s \in Source :
             /\ pc'[s] \in {"produce_new_message", "produce_while", "produce_sleep",
                            "produce_asleep", "produce_if"} /\ ~flag' => held'[s] \in Nat
             /\ pc'[s] = "produce_if" /\ ~flag' => count' < MAX_OUTGOING_BUFFER_SIZE
      BY <3>1, <3>2
    <3>5. pc'[Consumer] = pc[Consumer]
      BY <3>1
    <3> QED BY <3>1, <3>3, <3>4, <3>5
  <2> QED BY <2>1, <2>2, <2>3
<1>12. ASSUME NEW s \in Source, ProduceEnter(s) PROVE DataInv'
  <2>1. BufferTypeOK' /\ BufferUsedWithinBounds'
    BY <1>12, BufferLeftAlone DEF ProduceEnter
  <2>2. DataTypeOK'
    BY <1>12 DEF ProduceEnter
  <2>3. LoopsEstablish'
    BY <1>12, <1>0 DEF ProduceEnter, bufferVars
  <2> QED BY <2>1, <2>2, <2>3
<1>13. ASSUME NEW s \in Source, ProduceWhile(s) PROVE DataInv'
  <2>1. BufferTypeOK' /\ BufferUsedWithinBounds'
    BY <1>13, BufferLeftAlone DEF ProduceWhile
  <2>2. DataTypeOK'
    BY <1>13 DEF ProduceWhile, BufferFull
  <2>3. LoopsEstablish'
    BY <1>13, <1>0 DEF ProduceWhile, BufferFull, bufferVars
  <2> QED BY <2>1, <2>2, <2>3
<1>14. ASSUME NEW s \in Source, ProduceSleep(s) PROVE DataInv'
  <2>1. BufferTypeOK' /\ BufferUsedWithinBounds'
    BY <1>14, BufferLeftAlone DEF ProduceSleep
  <2>2. DataTypeOK'
    BY <1>14 DEF ProduceSleep
  <2>3. LoopsEstablish'
    BY <1>14, <1>0 DEF ProduceSleep, bufferVars
  <2> QED BY <2>1, <2>2, <2>3
<1>15. ASSUME NEW s \in Source, ProduceIf(s) PROVE DataInv'
  <2>1. BufferTypeOK' /\ BufferUsedWithinBounds'
    <3>1. CASE flag
      BY <1>15, <3>1, BufferLeftAlone DEF ProduceIf
    <3>2. CASE ~flag
      <4>1. /\ pc[s] = "produce_if" /\ ~flag'
            /\ OB!put([source |-> s, message |-> held[s]])
        BY <1>15, <3>2 DEF ProduceIf
      <4>2. [source |-> s, message |-> held[s]] \in Element
        BY <4>1, <3>2 DEF Element
      <4>3. OBP!BufferInv'
        BY <4>1, <4>2, <3>2, <1>0, BufferInvIsInBounds, PutKeepsBuffer
      <4>4. BufferTypeOK'
        BY <4>3 DEF BufferTypeOK, OBP!BufferInv, OBP!OutgoingBufferTypeOK, OB!Index, OBP!Index
      <4> QED BY <4>3, <4>4, BufferInvIsInBoundsNext
    <3> QED BY <3>1, <3>2
  <2>2. DataTypeOK'
    BY <1>15 DEF ProduceIf
  <2>3. LoopsEstablish'
    BY <1>15, <1>0 DEF ProduceIf, OB!put, bufferVars
  <2> QED BY <2>1, <2>2, <2>3
<1>16. CASE consume
  <2>1. BufferTypeOK' /\ BufferUsedWithinBounds'
    BY <1>16, BufferLeftAlone DEF consume
  <2>2. DataTypeOK'
    BY <1>16 DEF consume
  <2>3. LoopsEstablish'
    BY <1>16, <1>0 DEF consume, bufferVars
  <2> QED BY <2>1, <2>2, <2>3
<1>17. CASE ConsumeEnter
  <2>1. BufferTypeOK' /\ BufferUsedWithinBounds'
    BY <1>17, BufferLeftAlone DEF ConsumeEnter
  <2>2. DataTypeOK'
    BY <1>17 DEF ConsumeEnter
  <2>3. LoopsEstablish'
    BY <1>17, <1>0 DEF ConsumeEnter, bufferVars
  <2> QED BY <2>1, <2>2, <2>3
<1>18. CASE ConsumeWhile
  <2>1. BufferTypeOK' /\ BufferUsedWithinBounds'
    BY <1>18, BufferLeftAlone DEF ConsumeWhile
  <2>2. DataTypeOK'
    BY <1>18 DEF ConsumeWhile, BufferEmpty
  <2>3. LoopsEstablish'
    BY <1>18, <1>0 DEF ConsumeWhile, BufferEmpty, bufferVars
  <2> QED BY <2>1, <2>2, <2>3
<1>19. CASE ConsumeSleep
  <2>1. BufferTypeOK' /\ BufferUsedWithinBounds'
    BY <1>19, BufferLeftAlone DEF ConsumeSleep
  <2>2. DataTypeOK'
    BY <1>19 DEF ConsumeSleep
  <2>3. LoopsEstablish'
    BY <1>19, <1>0 DEF ConsumeSleep, bufferVars
  <2> QED BY <2>1, <2>2, <2>3
<1>20. CASE ConsumeGet
  <2>1. BufferTypeOK' /\ BufferUsedWithinBounds'
    <3>1. CASE flag
      <4>1. /\ element' = array[use_idx] /\ array' = array /\ fill_idx' = fill_idx
            /\ use_idx' = (use_idx + 1) % MAX_OUTGOING_BUFFER_SIZE
            /\ count' = count - 1 /\ pc[Consumer] = "consume_get" /\ flag'
        BY <1>20, <3>1 DEF ConsumeGet, OB!get
      <4>2. use_idx' \in OB!Index
        BY <4>1, OBP!AdvanceIndex, BufferAssumptionHolds DEF BufferTypeOK, OB!Index, OBP!Index
      <4>3. count # -1
        BY <4>1
      <4>4. BufferTypeOK'
        BY <4>1, <4>2, <4>3 DEF BufferTypeOK
      <4> QED BY <4>1, <4>4 DEF BufferUsedWithinBounds
    <3>2. CASE ~flag
      <4>1. OB!get /\ count # 0 /\ ~flag'
        BY <1>20, <3>2 DEF ConsumeGet
      <4>2. OBP!BufferInv'
        BY <4>1, <3>2, BufferInvIsInBounds, GetKeepsBuffer
      <4>3. BufferTypeOK'
        BY <4>2 DEF BufferTypeOK, OBP!BufferInv, OBP!OutgoingBufferTypeOK, OB!Index, OBP!Index
      <4> QED BY <4>2, <4>3, BufferInvIsInBoundsNext
    <3> QED BY <3>1, <3>2
  <2>2. DataTypeOK'
    BY <1>20 DEF ConsumeGet
  <2>3. LoopsEstablish'
    BY <1>20, <1>0 DEF ConsumeGet, OB!get, BufferTypeOK
  <2> QED BY <2>1, <2>2, <2>3
<1>21. CASE ConsumeIf
  <2>1. BufferTypeOK' /\ BufferUsedWithinBounds'
    BY <1>21, BufferLeftAlone DEF ConsumeIf
  <2>2. DataTypeOK'
    BY <1>21 DEF ConsumeIf, WokenOne, WakeEmptyCV
  <2>3. LoopsEstablish'
    BY <1>21, <1>0 DEF ConsumeIf, WokenOne, WakeEmptyCV, bufferVars
  <2> QED BY <2>1, <2>2, <2>3
<1>22. CASE Send
  <2>1. BufferTypeOK' /\ BufferUsedWithinBounds'
    BY <1>22, BufferLeftAlone DEF Send
  <2>2. DataTypeOK'
    <3>1. UNCHANGED <<num_of_shut_down_threads, shut_down_cv, empty_cv, held, accepted>>
      BY <1>22 DEF Send
    <3>2. process' \in {"running", "exited", "crashed"}
      BY <1>22 DEF Send
    <3>3. forwarded' \in [Source -> Seq(Nat)]
      <4>1. CASE element = None
        BY <4>1, <1>22 DEF Send
      <4>2. CASE element # None
        <5>1. element \in Element
          BY <4>2 DEF BufferTypeOK
        <5>2. element.source \in Source /\ element.message \in Nat
          BY <5>1 DEF Element
        <5>3. Append(forwarded[element.source], element.message) \in Seq(Nat)
          BY <5>2
        <5>4. forwarded' = [forwarded EXCEPT
                 ![element.source] = Append(forwarded[element.source], element.message)]
          BY <4>2, <1>22 DEF Send
        <5> HIDE DEF Element
        <5>5. forwarded \in [Source -> Seq(Nat)]
          BY DEF DataTypeOK
        <5> QED BY <5>2, <5>3, <5>4, <5>5
      <4> QED BY <4>1, <4>2
    <3> QED BY <3>1, <3>2, <3>3
  <2>3. LoopsEstablish'
    BY <1>22, <1>0 DEF Send, bufferVars
  <2> QED BY <2>1, <2>2, <2>3
<1>23. ASSUME NEW th \in Topics \cup {Consumer}, signal_shut_down(th) PROVE DataInv'
  <2>1. BufferTypeOK' /\ BufferUsedWithinBounds'
    BY <1>23, BufferLeftAlone DEF signal_shut_down
  <2>2. DataTypeOK'
    BY <1>23 DEF signal_shut_down
  <2>3. LoopsEstablish'
    BY <1>23, <1>0 DEF signal_shut_down, bufferVars
  <2> QED BY <2>1, <2>2, <2>3
<1>24. CASE SetFlag
  <2>1. BufferTypeOK' /\ BufferUsedWithinBounds'
    BY <1>24, BufferLeftAlone DEF SetFlag
  <2>2. DataTypeOK'
    BY <1>24 DEF SetFlag
  <2>3. LoopsEstablish'
    BY <1>24, <1>0 DEF SetFlag, bufferVars
  <2> QED BY <2>1, <2>2, <2>3
<1>25. ASSUME NEW t \in Topics, WakeQueue(t) PROVE DataInv'
  <2>1. BufferTypeOK' /\ BufferUsedWithinBounds'
    BY <1>25, BufferLeftAlone DEF WakeQueue
  <2>2. DataTypeOK'
    BY <1>25 DEF WakeQueue
  <2>3. LoopsEstablish'
    BY <1>25, <1>0 DEF WakeQueue, bufferVars
  <2> QED BY <2>1, <2>2, <2>3
<1>26. CASE WakeBuffer
  <2>1. BufferTypeOK' /\ BufferUsedWithinBounds'
    BY <1>26, BufferLeftAlone DEF WakeBuffer
  <2>2. DataTypeOK'
    BY <1>26 DEF WakeBuffer, WakeBothCVs
  <2>3. LoopsEstablish'
    BY <1>26, <1>0 DEF WakeBuffer, WakeBothCVs, bufferVars
  <2> QED BY <2>1, <2>2, <2>3
<1>27. CASE AwaitThreads
  <2>1. BufferTypeOK' /\ BufferUsedWithinBounds'
    BY <1>27, BufferLeftAlone DEF AwaitThreads
  <2>2. DataTypeOK'
    BY <1>27 DEF AwaitThreads
  <2>3. LoopsEstablish'
    BY <1>27, <1>0 DEF AwaitThreads, bufferVars
  <2> QED BY <2>1, <2>2, <2>3
<1>28. CASE SpuriousWakeup
  <2>1. BufferTypeOK' /\ BufferUsedWithinBounds'
    BY <1>28, BufferLeftAlone DEF SpuriousWakeup
  <2>2. DataTypeOK'
    BY <1>28 DEF SpuriousWakeup
  <2>3. LoopsEstablish'
    BY <1>28, <1>0 DEF SpuriousWakeup, bufferVars
  <2> QED BY <2>1, <2>2, <2>3
<1> QED
  BY <1>1, <1>2, <1>3, <1>4, <1>5, <1>6, <1>7, <1>8, <1>9, <1>10, <1>11, <1>12,
     <1>13, <1>14, <1>15, <1>16, <1>17, <1>18, <1>19, <1>20, <1>21, <1>22, <1>23, <1>24,
     <1>25, <1>26, <1>27, <1>28
     DEF Next, MainThread, MainCommands, ConsumerThread, ProducerThread, produce_new_message

LEMMA DataInvIsInvariant == Spec => []DataInv
  BY DataInvInit, DataInvStep, WakeInvIsInvariant, PTL DEF Spec

-----------------------------------------------------------------------------
(* Every variable of the broker's threads stays in its type; the counter   *)
(* of the buffer never falls below -1, and there only during a shutdown.   *)
THEOREM BrokerThreadsTyped == Spec => []BrokerThreadsTypeOK
<1>1. WakeInv /\ DataInv => BrokerThreadsTypeOK
  BY DEF WakeInv, DataInv, ControlTypeOK, DataTypeOK, BufferTypeOK, BrokerThreadsTypeOK
<1> QED BY <1>1, WakeInvIsInvariant, DataInvIsInvariant, PTL

(* While the broker serves, the wait loops of all the threads together     *)
(* keep put() to free slots and get() to filled ones: however many topics, *)
(* whatever the buffer's size, and however the threads are scheduled.      *)
THEOREM BufferStaysWithinBounds == Spec => []BufferUsedWithinBounds
  BY DataInvIsInvariant, PTL DEF DataInv

-----------------------------------------------------------------------------
(* The single WakeConditionVariable() per element that consume() makes is  *)
(* enough: the threads that wait for a slot never all stay asleep beside a *)
(* slot that nobody is coming to fill.                                     *)

(* A thread asleep on empty_cv is in produce_new_message()'s wait loop.    *)
ProducersAsleep == \A s \in empty_cv : pc[s] = "produce_asleep"

(* The buffer a thread found full is full until that thread is asleep: it  *)
(* has not left the critical section.                                      *)
FullUntilAsleep ==
    \A s \in Source : pc[s] = "produce_sleep" /\ ~flag => count = MAX_OUTGOING_BUFFER_SIZE

SlotInv == ProducersAsleep /\ FullUntilAsleep /\ FreeSlotHasATaker

AtASlot == {"produce_asleep", "produce_while", "produce_sleep", "produce_if", "consume_if"}

LEMMA FewAreOnTheirWay ==
  IsFiniteSet(OnTheirWay) /\ Cardinality(OnTheirWay) \in Nat
<1>1. IsFiniteSet(Source)
  BY FS_AddElement, BrokerThreadsAssumption DEF Source
<1>2. OnTheirWay \in SUBSET Source
  BY DEF OnTheirWay
<1>3. IsFiniteSet(OnTheirWay)
  BY <1>1, <1>2, FS_Subset
<1> QED BY <1>3, FS_CardinalityType

LEMMA FewAreOnTheirWayNext ==
  IsFiniteSet(OnTheirWay') /\ Cardinality(OnTheirWay') \in Nat
<1>1. IsFiniteSet(Source)
  BY FS_AddElement, BrokerThreadsAssumption DEF Source
<1>2. OnTheirWay' \in SUBSET Source
  BY DEF OnTheirWay
<1>3. IsFiniteSet(OnTheirWay')
  BY <1>1, <1>2, FS_Subset
<1> QED BY <1>3, FS_CardinalityType

(* While nobody who was coming for a slot turns back, there are enough.    *)
LEMMA NobodyTurnsBack ==
  ASSUME FreeSlotHasATaker, flag => flag', count \in Int, count' = count,
         empty_cv' # {} => empty_cv # {}, OnTheirWay \subseteq OnTheirWay',
         pc[Consumer] = "consume_if" => pc'[Consumer] = "consume_if"
  PROVE  FreeSlotHasATaker'
<1>1. Cardinality(OnTheirWay) <= Cardinality(OnTheirWay')
  BY FS_Subset, FewAreOnTheirWayNext
<1> QED
  BY <1>1, FewAreOnTheirWay, FewAreOnTheirWayNext, BrokerThreadsAssumption
     DEF FreeSlotHasATaker

(* A step of a thread that is not at the buffer's slots.                   *)
LEMMA StepElsewhere ==
  ASSUME ControlTypeOK, DataTypeOK, SlotInv, NEW th \in Threads, NEW label \in Label,
         GoTo(th, label), pc[th] \notin AtASlot, label # "produce_sleep",
         UNCHANGED <<count, empty_cv>>, flag => flag'
  PROVE  SlotInv'
<1> USE DEF SlotInv, ControlTypeOK, DataTypeOK, GoTo, AtASlot, Threads, Source
<1>1. ProducersAsleep'
  BY DEF ProducersAsleep
<1>2. FullUntilAsleep'
  BY DEF FullUntilAsleep
<1>3. OnTheirWay \subseteq OnTheirWay'
  BY DEF OnTheirWay
<1>4. pc[Consumer] = "consume_if" => pc'[Consumer] = "consume_if"
  OBVIOUS
<1> QED BY <1>1, <1>2, <1>3, <1>4, NobodyTurnsBack

(* A step that moves no thread.                                            *)
LEMMA NobodyMoves ==
  ASSUME ControlTypeOK, SlotInv, UNCHANGED <<pc, count, empty_cv, flag>>
  PROVE  SlotInv'
<1>1. ProducersAsleep'
  BY DEF SlotInv, ProducersAsleep
<1>2. FullUntilAsleep'
  BY DEF SlotInv, FullUntilAsleep
<1>3. OnTheirWay \subseteq OnTheirWay'
  BY DEF OnTheirWay
<1> QED BY <1>1, <1>2, <1>3, NobodyTurnsBack DEF SlotInv, ControlTypeOK

LEMMA SlotInvInit == initialize => SlotInv
  BY BrokerThreadsAssumption
     DEF initialize, SlotInv, ProducersAsleep, FullUntilAsleep, FreeSlotHasATaker,
         Threads, Source

(* Going to sleep, putting and getting happen in one critical section:     *)
(* while a thread is between its test and its sleep the count stands.      *)
LEMMA SlotInvStep == WakeInv /\ DataInv /\ SlotInv /\ [Next]_vars => SlotInv'
<1> SUFFICES ASSUME WakeInv, DataInv, SlotInv, [Next]_vars PROVE SlotInv'
  OBVIOUS
<1> USE BrokerThreadsAssumption DEF bufferVars, bufferSync, shutDownVars
<1>0. /\ ControlTypeOK /\ DataTypeOK /\ LocksFollowPc /\ FlagFollowsMain
      /\ LoopsEstablish /\ ProducersAsleep /\ FullUntilAsleep /\ FreeSlotHasATaker
  BY DEF WakeInv, DataInv, SlotInv
<1>1. CASE UNCHANGED vars
  BY <1>0, <1>1, NobodyMoves DEF vars
<1>2. ASSUME NEW th \in Topics \cup {Consumer}, CreateThread(th) PROVE SlotInv'
  <2>1. PICK label \in {"failed", "consume", "produce"} : GoTo(th, label)
    BY <1>2 DEF CreateThread
  <2> QED BY <1>0, <1>2, <2>1, StepElsewhere DEF CreateThread, AtASlot, Label, Threads, Source
<1>3. CASE ThreadsCreated
  BY <1>0, <1>3, StepElsewhere DEF ThreadsCreated, AtASlot, Label, Threads, Source
<1>4. CASE connect_to_sm
  <2>1. CASE UNCHANGED pc
    BY <1>0, <1>4, <2>1, NobodyMoves DEF connect_to_sm
  <2>2. CASE GoTo(Main, "serve")
    BY <1>0, <1>4, <2>2, StepElsewhere DEF connect_to_sm, AtASlot, Label, Threads, Source
  <2> QED BY <1>4, <2>1, <2>2 DEF connect_to_sm
<1>5. ASSUME NEW t \in Topics, enqueue(t) PROVE SlotInv'
  BY <1>0, <1>5, NobodyMoves DEF enqueue
<1>6. CASE execute_command_and_produce
  BY <1>0, <1>6, StepElsewhere DEF execute_command_and_produce, AtASlot, Label, Threads, Source
<1>7. ASSUME NEW t \in Topics, produce(t) PROVE SlotInv'
  BY <1>0, <1>7, StepElsewhere DEF produce, AtASlot, Label, Threads, Source
<1>8. ASSUME NEW t \in Topics, DequeueEnter(t) PROVE SlotInv'
  BY <1>0, <1>8, StepElsewhere DEF DequeueEnter, AtASlot, Label, Threads, Source
<1>9. ASSUME NEW t \in Topics, DequeueWhile(t) PROVE SlotInv'
  BY <1>0, <1>9, StepElsewhere DEF DequeueWhile, AtASlot, Label, Threads, Source
<1>10. ASSUME NEW t \in Topics, DequeueSleep(t) PROVE SlotInv'
  BY <1>0, <1>10, StepElsewhere DEF DequeueSleep, AtASlot, Label, Threads, Source
<1>11. ASSUME NEW t \in Topics, DequeueIf(t) PROVE SlotInv'
  BY <1>0, <1>11, StepElsewhere DEF DequeueIf, AtASlot, Label, Threads, Source
<1>12. ASSUME NEW s \in Source, ProduceEnter(s) PROVE SlotInv'
  <2>1. CASE pc[s] = "produce_new_message"
    BY <1>0, <1>12, <2>1, StepElsewhere DEF ProduceEnter, AtASlot, Label, Threads, Source
  <2>2. CASE pc[s] = "produce_asleep" /\ s \notin empty_cv
    <3>1. ProducersAsleep'
      BY <1>0, <1>12, <2>2 DEF ProduceEnter, GoTo, ProducersAsleep, DataTypeOK, ControlTypeOK, Threads
    <3>2. FullUntilAsleep'
      BY <1>0, <1>12, <2>2 DEF ProduceEnter, GoTo, FullUntilAsleep, ControlTypeOK, Threads
    <3>3. OnTheirWay \subseteq OnTheirWay'
      BY <1>0, <1>12, <2>2 DEF ProduceEnter, GoTo, OnTheirWay, ControlTypeOK, Threads
    <3>4. FreeSlotHasATaker'
      BY <1>0, <1>12, <3>3, NobodyTurnsBack DEF ProduceEnter, GoTo, ControlTypeOK, Threads, Source
    <3> QED BY <3>1, <3>2, <3>4 DEF SlotInv
  <2> QED BY <1>12, <2>1, <2>2 DEF ProduceEnter
<1>13. ASSUME NEW s \in Source, ProduceWhile(s) PROVE SlotInv'
  <2>1. ProducersAsleep'
    BY <1>0, <1>13 DEF ProduceWhile, GoTo, ProducersAsleep, DataTypeOK, ControlTypeOK, Threads
  <2>2. FullUntilAsleep'
    BY <1>0, <1>13 DEF ProduceWhile, GoTo, BufferFull, FullUntilAsleep, ControlTypeOK, Threads
  <2>3. FreeSlotHasATaker'
    <3>1. CASE BufferFull
      BY <1>0, <1>13, <3>1, FewAreOnTheirWayNext DEF ProduceWhile, BufferFull, FreeSlotHasATaker
    <3>2. CASE ~BufferFull
      <4>1. OnTheirWay \subseteq OnTheirWay'
        BY <1>0, <1>13, <3>2 DEF ProduceWhile, GoTo, OnTheirWay, ControlTypeOK, Threads
      <4> QED BY <1>0, <1>13, <4>1, NobodyTurnsBack DEF ProduceWhile, GoTo, ControlTypeOK, Threads, Source
    <3> QED BY <3>1, <3>2
  <2> QED BY <2>1, <2>2, <2>3 DEF SlotInv
<1>14. ASSUME NEW s \in Source, ProduceSleep(s) PROVE SlotInv'
  <2>1. ProducersAsleep'
    BY <1>0, <1>14 DEF ProduceSleep, GoTo, ProducersAsleep, DataTypeOK, ControlTypeOK, Threads
  <2>2. FullUntilAsleep'
    BY <1>0, <1>14 DEF ProduceSleep, GoTo, FullUntilAsleep, ControlTypeOK, Threads
  <2>3. FreeSlotHasATaker'
    BY <1>0, <1>14, FewAreOnTheirWayNext DEF ProduceSleep, FullUntilAsleep, FreeSlotHasATaker
  <2> QED BY <2>1, <2>2, <2>3 DEF SlotInv
<1>15. ASSUME NEW s \in Source, ProduceIf(s) PROVE SlotInv'
  <2>1. ProducersAsleep'
    BY <1>0, <1>15 DEF ProduceIf, GoTo, ProducersAsleep, DataTypeOK, ControlTypeOK, Threads, Source
  <2>2. FullUntilAsleep'
    BY <1>0, <1>15 DEF ProduceIf, GoTo, FullUntilAsleep, ControlTypeOK, LocksFollowPc,
                   InOutgoingBuffer, Threads, Source
  <2>3. FreeSlotHasATaker'
    <3>1. CASE flag
      BY <1>15, <3>1 DEF ProduceIf, FreeSlotHasATaker
    <3>2. CASE ~flag
      <4>1. s \in OnTheirWay /\ OnTheirWay' = OnTheirWay \ {s}
        BY <1>0, <1>15 DEF ProduceIf, GoTo, OnTheirWay, ControlTypeOK, Threads
      <4>2. Cardinality(OnTheirWay') = Cardinality(OnTheirWay) - 1
        BY <4>1, FewAreOnTheirWay, FS_RemoveElement
      <4>3. count' = count + 1 /\ UNCHANGED <<flag, empty_cv>>
        BY <1>15, <3>2 DEF ProduceIf, OB!put
      <4>4. pc'[Consumer] = pc[Consumer]
        BY <1>0, <1>15 DEF ProduceIf, GoTo, ControlTypeOK, Threads, Source
      <4> QED BY <1>0, <4>2, <4>3, <4>4, FewAreOnTheirWay DEF FreeSlotHasATaker, ControlTypeOK
    <3> QED BY <3>1, <3>2
  <2> QED BY <2>1, <2>2, <2>3 DEF SlotInv
<1>16. CASE consume
  BY <1>0, <1>16, StepElsewhere DEF consume, AtASlot, Label, Threads, Source
<1>17. CASE ConsumeEnter
  BY <1>0, <1>17, StepElsewhere DEF ConsumeEnter, AtASlot, Label, Threads, Source
<1>18. CASE ConsumeWhile
  BY <1>0, <1>18, StepElsewhere DEF ConsumeWhile, AtASlot, Label, Threads, Source
<1>19. CASE ConsumeSleep
  BY <1>0, <1>19, StepElsewhere DEF ConsumeSleep, AtASlot, Label, Threads, Source
<1>20. CASE ConsumeGet
  <2>1. ProducersAsleep'
    BY <1>0, <1>20 DEF ConsumeGet, GoTo, ProducersAsleep, DataTypeOK, ControlTypeOK, Threads, Source
  <2>2. FullUntilAsleep'
    BY <1>0, <1>20 DEF ConsumeGet, GoTo, FullUntilAsleep, ControlTypeOK, LocksFollowPc,
                   InOutgoingBuffer, Threads, Source
  <2>3. OnTheirWay' = OnTheirWay
    BY <1>0, <1>20 DEF ConsumeGet, GoTo, OnTheirWay, ControlTypeOK, Threads, Source
  <2>4. /\ pc[Consumer] = "consume_get" /\ pc'[Consumer] = "consume_if"
        /\ count' = count - 1 /\ UNCHANGED <<flag, empty_cv>>
    BY <1>0, <1>20 DEF ConsumeGet, GoTo, OB!get, ControlTypeOK, Threads
  <2>5. FreeSlotHasATaker'
    BY <1>0, <2>3, <2>4, FewAreOnTheirWay DEF FreeSlotHasATaker, ControlTypeOK
  <2> QED BY <2>1, <2>2, <2>5 DEF SlotInv
<1>21. CASE ConsumeIf
  <2>1. ProducersAsleep'
    BY <1>0, <1>21 DEF ConsumeIf, WakeEmptyCV, WokenOne, GoTo, ProducersAsleep, DataTypeOK,
                   ControlTypeOK, Threads, Source
  <2>2. FullUntilAsleep'
    BY <1>0, <1>21 DEF ConsumeIf, GoTo, FullUntilAsleep, ControlTypeOK, Threads, Source
  <2>3. FreeSlotHasATaker'
    <3>1. CASE flag \/ empty_cv = {}
      BY <1>21, <3>1 DEF ConsumeIf, WakeEmptyCV, WokenOne, FreeSlotHasATaker
    <3>2. CASE ~flag /\ empty_cv # {}
      <4>1. PICK woken \in empty_cv : empty_cv' = empty_cv \ {woken}
        BY <1>21, <3>2 DEF ConsumeIf, WakeEmptyCV, WokenOne
      <4>2. woken \notin OnTheirWay /\ OnTheirWay' = OnTheirWay \cup {woken}
        BY <1>0, <1>21, <4>1 DEF ConsumeIf, GoTo, OnTheirWay, ProducersAsleep, DataTypeOK,
                             ControlTypeOK, Threads, Source
      <4>3. Cardinality(OnTheirWay') = Cardinality(OnTheirWay) + 1
        BY <4>2, FewAreOnTheirWay, FS_AddElement
      <4>4. count' = count /\ flag' = flag
        BY <1>21 DEF ConsumeIf
      <4> QED BY <1>0, <3>2, <4>3, <4>4, FewAreOnTheirWay DEF FreeSlotHasATaker, ControlTypeOK
    <3> QED BY <3>1, <3>2
  <2> QED BY <2>1, <2>2, <2>3 DEF SlotInv
<1>22. CASE Send
  BY <1>0, <1>22, StepElsewhere DEF Send, AtASlot, Label, Threads, Source
<1>23. ASSUME NEW th \in Topics \cup {Consumer}, signal_shut_down(th) PROVE SlotInv'
  BY <1>0, <1>23, StepElsewhere DEF signal_shut_down, AtASlot, Label, Threads, Source
<1>24. CASE SetFlag
  BY <1>0, <1>24, StepElsewhere DEF SetFlag, AtASlot, Label, Threads, Source
<1>25. ASSUME NEW t \in Topics, WakeQueue(t) PROVE SlotInv'
  BY <1>0, <1>25, NobodyMoves DEF WakeQueue
<1>26. CASE WakeBuffer
  <2>1. flag /\ flag' /\ empty_cv' = {}
    BY <1>0, <1>26 DEF WakeBuffer, WakeBothCVs, FlagFollowsMain
  <2> QED BY <2>1 DEF SlotInv, ProducersAsleep, FullUntilAsleep, FreeSlotHasATaker
<1>27. CASE AwaitThreads
  <2>1. CASE UNCHANGED pc
    BY <1>0, <1>27, <2>1, NobodyMoves DEF AwaitThreads
  <2>2. CASE GoTo(Main, "await_asleep")
    BY <1>0, <1>27, <2>2, StepElsewhere DEF AwaitThreads, AtASlot, Label, Threads, Source
  <2> QED BY <1>27, <2>1, <2>2 DEF AwaitThreads
<1>28. CASE SpuriousWakeup
  <2>1. empty_cv' \subseteq empty_cv /\ UNCHANGED <<pc, flag, count>>
    BY <1>28 DEF SpuriousWakeup
  <2>2. ProducersAsleep' /\ FullUntilAsleep'
    BY <1>0, <2>1 DEF ProducersAsleep, FullUntilAsleep
  <2>3. OnTheirWay \subseteq OnTheirWay'
    BY <2>1 DEF OnTheirWay
  <2>4. FreeSlotHasATaker'
    BY <1>0, <2>1, <2>3, NobodyTurnsBack DEF ControlTypeOK
  <2> QED BY <2>2, <2>4 DEF SlotInv
<1> QED
  BY <1>1, <1>2, <1>3, <1>4, <1>5, <1>6, <1>7, <1>8, <1>9, <1>10,
     <1>11, <1>12, <1>13, <1>14, <1>15, <1>16, <1>17, <1>18, <1>19, <1>20,
     <1>21, <1>22, <1>23, <1>24, <1>25, <1>26, <1>27, <1>28
     DEF Next, MainThread, MainCommands, ConsumerThread, ProducerThread, produce_new_message, Source

LEMMA SlotInvIsInvariant == Spec => []SlotInv
  BY SlotInvInit, SlotInvStep, WakeInvIsInvariant, DataInvIsInvariant, PTL DEF Spec

(* consume() signals empty_cv once per element it removes, and a thread it *)
(* wakes may find the slot taken again.  Still, while the broker serves,   *)
(* threads never stay asleep beside more free slots than there are threads *)
(* awake and on their way to fill them.                                    *)
THEOREM FreeSlotsAreTaken == Spec => []FreeSlotHasATaker
  BY SlotInvIsInvariant, PTL DEF SlotInv

-----------------------------------------------------------------------------
(* For any set of topics, any size of the outgoing buffer and any number   *)
(* of messages, the broker's threads implement TopicLog.  A message is its *)
(* number within its source, so where it is on its way can be said without *)
(* sequences: what a thread, the buffer or a queue holds is numbered from  *)
(* one more than what is ahead of it.                                      *)
Nth(i) == OBP!Contents[i]

Carrying == {"consume_if", "send", "send_locked"}
Producing == {"produce_new_message", "produce_while", "produce_sleep",
              "produce_asleep", "produce_if"}
Starting == {"create_threads", "connect_to_sm", "shut_down_threads",
             "wake_queues", "await_threads", "await_asleep"}

(* Up to which number messages of a source have left the buffer, and up to *)
(* which they have entered it.                                             *)
AtConsumer(s) == pc[Consumer] \in Carrying /\ element # None /\ element.source = s
Left(s) == IF AtConsumer(s) THEN Len(forwarded[s]) + 1 ELSE Len(forwarded[s])
Dequeued(s) == Len(accepted[s]) - Len(WithQueue(s))
Entered(s) == IF held[s] = None THEN Dequeued(s) ELSE Dequeued(s) - 1

(* Before main serves, and in a shutdown, nothing has been accepted.       *)
NothingBeforeServing ==
    pc[Main] \in Starting =>
        /\ \A s \in Source : accepted[s] = << >> /\ forwarded[s] = << >> /\ held[s] = None
        /\ \A t \in Topics : mq[t] = << >>
        /\ \A i \in OB!Index : array[i] = None
        /\ element = None
        /\ count <= 0

HeldWhileProducing == \A s \in Source : held[s] # None => pc[s] \in Producing

LogNumbered ==
    \A s \in Source : /\ \A n \in 1 .. Len(accepted[s]) : accepted[s][n] = n
                      /\ \A n \in 1 .. Len(forwarded[s]) : forwarded[s][n] = n

QueueNumbered ==
    \A t \in Topics : \A i \in 1 .. Len(mq[t]) :
        mq[t][i] = Len(accepted[t]) - Len(mq[t]) + i

HeldNumbered ==
    \A s \in Source : held[s] # None => held[s] = Dequeued(s)

ConsumerNumbered ==
    \A s \in Source : AtConsumer(s) => element.message = Len(forwarded[s]) + 1

(* The buffer holds each message from Left(s) + 1 to Entered(s), and of    *)
(* one source always the lower number first.                               *)
BufferNumbered == \A s \in Source :
    /\ Left(s) <= Entered(s)
    /\ \A i \in 1 .. count : Nth(i).source = s =>
          Left(s) < Nth(i).message /\ Nth(i).message <= Entered(s)
    /\ \A i, j \in 1 .. count : i < j /\ Nth(i).source = s /\ Nth(j).source = s =>
          Nth(i).message < Nth(j).message
    /\ \A n \in Left(s) + 1 .. Entered(s) :
          \E i \in 1 .. count : Nth(i) = [source |-> s, message |-> n]

NumberInv == /\ LogNumbered /\ QueueNumbered /\ HeldNumbered
             /\ ConsumerNumbered /\ BufferNumbered

PipelineInv == NothingBeforeServing /\ HeldWhileProducing /\ NumberInv
NothingYet == NothingBeforeServing /\ pc[Main] \in Starting /\ count \in Int

LEMMA NothingIsNumbered == NothingYet => NumberInv
<1> SUFFICES ASSUME NothingYet PROVE NumberInv
  OBVIOUS
<1>1. /\ \A s \in Source : accepted[s] = << >> /\ forwarded[s] = << >> /\ held[s] = None
      /\ \A t \in Topics : mq[t] = << >>
      /\ element = None /\ count <= 0 /\ count \in Int
  BY DEF NothingYet, NothingBeforeServing
<1>2. \A n \in 1 .. Len(<< >>) : FALSE
  OBVIOUS
<1>3. \A s \in Source : Left(s) = 0 /\ Entered(s) = 0
  <2> TAKE s \in Source
  <2>1. WithQueue(s) = << >> /\ Len(<< >>) = 0
    BY <1>1 DEF WithQueue
  <2>2. Left(s) = 0
    BY <1>1, <2>1 DEF Left, AtConsumer
  <2>3. Entered(s) = 0
    BY <1>1, <2>1 DEF Entered, Dequeued
  <2> QED BY <2>2, <2>3
<1>4. LogNumbered
  <2>1. \A s \in Source : accepted[s] = << >> /\ forwarded[s] = << >>
    BY <1>1
  <2> QED BY <1>2, <2>1, Zenon DEF LogNumbered
<1>5. QueueNumbered
  BY <1>1, <1>2, Zenon DEF QueueNumbered
<1>6. HeldNumbered /\ ConsumerNumbered
  BY <1>1 DEF HeldNumbered, ConsumerNumbered, AtConsumer
<1>7. BufferNumbered
  <2>1. \A i \in 1 .. count : FALSE
    BY <1>1
  <2>2. \A s \in Source : Left(s) <= Entered(s) /\ \A n \in Left(s) + 1 .. Entered(s) : FALSE
    BY <1>3
  <2> QED BY <2>1, <2>2 DEF BufferNumbered
<1> QED BY <1>4, <1>5, <1>6, <1>7 DEF NumberInv

LEMMA NothingIsNumberedNext == NothingYet' => NumberInv'
  BY NothingIsNumbered, PTL

LEMMA PipelineInvInit == initialize => PipelineInv
<1> SUFFICES ASSUME initialize PROVE PipelineInv
  OBVIOUS
<1>1. /\ \A s \in Source : accepted[s] = << >> /\ forwarded[s] = << >> /\ held[s] = None
      /\ \A t \in Topics : mq[t] = << >>
      /\ \A i \in OB!Index : array[i] = None
      /\ element = None /\ count = 0 /\ pc[Main] \in Starting
  BY DEF initialize, OB!initialize_outgoing_buffer, Source, Threads, Starting
<1>2. NothingBeforeServing /\ HeldWhileProducing
  BY <1>1 DEF NothingBeforeServing, HeldWhileProducing
<1> QED BY <1>1, <1>2, NothingIsNumbered DEF PipelineInv, NothingYet

(* Nothing that moved a message: the numbers are what they were.           *)
LEMMA NumbersStand ==
  ASSUME NumberInv, UNCHANGED <<accepted, forwarded, held, mq, bufferVars>>,
         element # None => (pc'[Consumer] \in Carrying <=> pc[Consumer] \in Carrying)
  PROVE  NumberInv'
<1> USE DEF NumberInv, bufferVars
<1>1. \A s : (AtConsumer(s)' <=> AtConsumer(s)) /\ Left(s)' = Left(s) /\ Entered(s)' = Entered(s)
  BY DEF AtConsumer, Left, Entered, Dequeued, WithQueue
<1>2. \A i : Nth(i)' = Nth(i)
  BY DEF Nth, OBP!Contents
<1>3. LogNumbered' /\ QueueNumbered'
  BY DEF LogNumbered, QueueNumbered
<1>4. HeldNumbered' /\ ConsumerNumbered'
  BY <1>1 DEF HeldNumbered, ConsumerNumbered, Dequeued, WithQueue
<1>5. BufferNumbered'
  BY <1>1, <1>2 DEF BufferNumbered
<1> QED BY <1>3, <1>4, <1>5

(* A step that moves one thread on, and no message.                        *)
LEMMA ThreadMoves ==
  ASSUME PipelineInv, ControlTypeOK, NEW th \in Threads, NEW label \in Label,
         GoTo(th, label), UNCHANGED <<accepted, forwarded, held, mq, bufferVars>>,
         th = Main /\ label \in Starting => pc[Main] \in Starting,
         th \in Source /\ held[th] # None => label \in Producing,
         th = Consumer /\ element # None => (label \in Carrying <=> pc[Consumer] \in Carrying)
  PROVE  PipelineInv'
<1> USE DEF PipelineInv, ControlTypeOK, GoTo, Threads, Source
<1>1. NothingBeforeServing'
  BY DEF NothingBeforeServing, bufferVars
<1>2. HeldWhileProducing'
  BY DEF HeldWhileProducing
<1>3. NumberInv'
  BY NumbersStand
<1> QED BY <1>1, <1>2, <1>3

(* A step that moves neither.                                              *)
LEMMA NothingMoves ==
  ASSUME PipelineInv, UNCHANGED <<pc, accepted, forwarded, held, mq, bufferVars>>
  PROVE  PipelineInv'
<1>1. NothingBeforeServing' /\ HeldWhileProducing'
  BY DEF PipelineInv, NothingBeforeServing, HeldWhileProducing, bufferVars
<1> QED BY <1>1, NumbersStand DEF PipelineInv

-----------------------------------------------------------------------------
(* The steps that move a message.                                          *)
LEMMA NthFromASource ==
  ASSUME WakeInv, DataInv, NothingBeforeServing
  PROVE  \A i \in 1 .. count : Nth(i) \in Element
<1>1. CASE flag
  BY <1>1, BrokerThreadsAssumption
     DEF WakeInv, ControlTypeOK, FlagFollowsMain, NothingBeforeServing, Starting
<1>2. CASE ~flag
  BY <1>2, BufferInvIsInBounds DEF DataInv, OBP!BufferInv, OBP!IndicesAgree, Nth
<1> QED BY <1>1, <1>2

LEMMA PutAppends ==
  ASSUME OBP!BufferInv, NEW e \in Element, count # MAX_OUTGOING_BUFFER_SIZE, OB!put(e)
  PROVE  /\ \A i \in 1 .. count : Nth(i)' = Nth(i)
         /\ \A i : i = count + 1 => Nth(i)' = e
  BY OBP!ProduceKeepsInv, BufferAssumptionHolds DEF OBP!Produce, OB!put, OBP!put, Nth

LEMMA GetTakesFirst ==
  ASSUME OBP!BufferInv, count # 0, OB!get
  PROVE  element' = Nth(1) /\ \A i \in 1 .. count - 1 : Nth(i)' = Nth(i + 1)
  BY OBP!ConsumeKeepsInv, BufferAssumptionHolds DEF OBP!Consume, OB!get, OBP!get, Nth

LEMMA EndsAreNumbers ==
  ASSUME ControlTypeOK, DataTypeOK, NEW s \in Source
  PROVE  /\ Len(accepted[s]) \in Nat /\ Len(forwarded[s]) \in Nat /\ Len(WithQueue(s)) \in Nat
         /\ Left(s) \in Nat /\ Dequeued(s) \in Int /\ Entered(s) \in Int
         /\ Entered(s) <= Len(accepted[s])
<1>1. Len(accepted[s]) \in Nat /\ Len(forwarded[s]) \in Nat
  BY DEF DataTypeOK
<1>2. Len(WithQueue(s)) \in Nat
  <2>1. WithQueue(s) \in Seq(Nat)
    BY DEF WithQueue, ControlTypeOK
  <2> QED BY <2>1
<1>3. Left(s) \in Nat
  BY <1>1 DEF Left
<1>4. Dequeued(s) \in Int /\ Dequeued(s) <= Len(accepted[s])
  BY <1>1, <1>2 DEF Dequeued
<1>5. Entered(s) \in Int /\ Entered(s) <= Len(accepted[s])
  BY <1>1, <1>4 DEF Entered
<1> QED BY <1>1, <1>2, <1>3, <1>4, <1>5

(* The buffer alone, and nothing left or entered it.                       *)
LEMMA BufferStands ==
  ASSUME BufferNumbered, UNCHANGED <<array, use_idx, count>>,
         \A i \in 1 .. count : Nth(i) \in Element,
         \A s \in Source : Left(s)' = Left(s) /\ Entered(s)' = Entered(s)
  PROVE  BufferNumbered'
<1>1. \A i : Nth(i)' = Nth(i)
  BY DEF Nth, OBP!Contents
<1>2. \A i \in 1 .. count : Nth(i).source \in Source
  BY DEF Element
<1> QED BY <1>1, <1>2 DEF BufferNumbered

LEMMA AppendExtends ==
  ASSUME NEW q \in Seq(Nat), NEW m \in Nat
  PROVE  /\ Append(q, m) \in Seq(Nat) /\ Len(Append(q, m)) = Len(q) + 1
         /\ \A n \in 1 .. Len(q) : Append(q, m)[n] = q[n]
         /\ Append(q, m)[Len(q) + 1] = m
  OBVIOUS

LEMMA TailShifts ==
  ASSUME NEW q \in Seq(Nat), q # << >>
  PROVE  /\ Len(q) > 0 /\ Head(q) = q[1]
         /\ Tail(q) \in Seq(Nat) /\ Len(Tail(q)) = Len(q) - 1
         /\ \A n \in 1 .. Len(q) - 1 : Tail(q)[n] = q[n + 1]
  OBVIOUS

(* A queue that ends with number n, its messages in order.                 *)
LEMMA NumberedAppend ==
  ASSUME NEW q \in Seq(Nat), NEW n \in Nat, \A i \in 1 .. Len(q) : q[i] = n - Len(q) + i,
         NEW m \in Nat, m = n + 1
  PROVE  \A i \in 1 .. Len(Append(q, m)) : Append(q, m)[i] = m - Len(Append(q, m)) + i
<1>1. /\ Len(Append(q, m)) = Len(q) + 1 /\ Len(q) \in Nat
      /\ \A i \in 1 .. Len(q) : Append(q, m)[i] = q[i]
      /\ Append(q, m)[Len(q) + 1] = m
  BY AppendExtends
<1>2. \A i \in 1 .. Len(q) : Append(q, m)[i] = n - Len(q) + i
  BY <1>1
<1> QED BY <1>1, <1>2

LEMMA NumberedTail ==
  ASSUME NEW q \in Seq(Nat), NEW n \in Nat, \A i \in 1 .. Len(q) : q[i] = n - Len(q) + i,
         q # << >>
  PROVE  /\ Head(q) = n - Len(q) + 1
         /\ \A i \in 1 .. Len(Tail(q)) : Tail(q)[i] = n - Len(Tail(q)) + i
  BY TailShifts

(* A publish command lengthens the topic's log and its queue alike.        *)
LEMMA EnqueueKeepsNumbers ==
  ASSUME WakeInv, DataInv, PipelineInv, NEW t \in Topics, enqueue(t)
  PROVE  PipelineInv'
<1> USE DEF PipelineInv, NumberInv
<1>0. ControlTypeOK /\ DataTypeOK /\ t \in Source
  BY DEF WakeInv, DataInv, Source
<1>1. /\ pc[Main] = "serve"
      /\ accepted' = [accepted EXCEPT ![t] = Append(@, Len(accepted[t]) + 1)]
      /\ mq' = [mq EXCEPT ![t] = Append(@, Len(accepted[t]) + 1)]
      /\ UNCHANGED <<pc, forwarded, held, array, use_idx, count, element>>
  BY DEF enqueue, bufferVars
<1>2. NothingBeforeServing' /\ HeldWhileProducing'
  BY <1>1 DEF NothingBeforeServing, HeldWhileProducing, Starting
<1>3. /\ accepted[t] \in Seq(Nat) /\ mq[t] \in Seq(Nat) /\ Len(accepted[t]) + 1 \in Nat
      /\ accepted'[t] = Append(accepted[t], Len(accepted[t]) + 1)
      /\ mq'[t] = Append(mq[t], Len(accepted[t]) + 1)
  BY <1>0, <1>1 DEF ControlTypeOK, DataTypeOK
<1>4. LogNumbered'
  <2>1. \A n \in 1 .. Len(accepted'[t]) : accepted'[t][n] = n
    BY <1>0, <1>3, AppendExtends DEF LogNumbered
  <2>2. \A s \in Source : s # t => accepted'[s] = accepted[s]
    BY <1>0, <1>1 DEF DataTypeOK
  <2> QED BY <1>1, <2>1, <2>2 DEF LogNumbered
<1>5. QueueNumbered'
  <2>1. \A i \in 1 .. Len(mq'[t]) : mq'[t][i] = Len(accepted'[t]) - Len(mq'[t]) + i
    <3>1. \A i \in 1 .. Len(mq[t]) : mq[t][i] = Len(accepted[t]) - Len(mq[t]) + i
      BY DEF QueueNumbered
    <3>2. Len(accepted[t]) \in Nat /\ Len(accepted'[t]) = Len(accepted[t]) + 1
      BY <1>3, AppendExtends
    <3> DEFINE m == Len(accepted[t]) + 1
    <3>3. m \in Nat /\ m = Len(accepted[t]) + 1 /\ mq'[t] = Append(mq[t], m)
      BY <1>3
    <3>4. Len(accepted'[t]) = m
      BY <3>2
    <3> HIDE DEF m
    <3>5. \A i \in 1 .. Len(Append(mq[t], m)) :
              Append(mq[t], m)[i] = m - Len(Append(mq[t], m)) + i
      BY <1>3, <3>1, <3>2, <3>3, NumberedAppend
    <3> QED BY <3>3, <3>4, <3>5
  <2>2. \A u \in Topics : u # t => accepted'[u] = accepted[u] /\ mq'[u] = mq[u]
    BY <1>0, <1>1 DEF DataTypeOK, ControlTypeOK, Source
  <2> QED BY <2>1, <2>2 DEF QueueNumbered
<1>6. \A s \in Source : Left(s)' = Left(s) /\ Dequeued(s)' = Dequeued(s) /\ Entered(s)' = Entered(s)
  <2> TAKE s \in Source
  <2>1. Left(s)' = Left(s)
    BY <1>1 DEF Left, AtConsumer
  <2>2. Dequeued(s)' = Dequeued(s)
    <3>1. CASE s = t
      <4>1. Len(accepted'[t]) = Len(accepted[t]) + 1 /\ Len(mq'[t]) = Len(mq[t]) + 1
        BY <1>3, AppendExtends
      <4>2. Len(accepted[t]) \in Nat /\ Len(mq[t]) \in Nat
        BY <1>3
      <4>3. WithQueue(s) = mq[t] /\ WithQueue(s)' = mq'[t]
        BY <3>1 DEF WithQueue
      <4>4. /\ Dequeued(s) = Len(accepted[t]) - Len(mq[t])
            /\ Dequeued(s)' = Len(accepted'[t]) - Len(mq'[t])
        BY <3>1, <4>3 DEF Dequeued
      <4> QED BY <4>1, <4>2, <4>4
    <3>2. CASE s # t
      BY <1>0, <1>1, <3>2 DEF Dequeued, WithQueue, DataTypeOK, ControlTypeOK
    <3> QED BY <3>1, <3>2
  <2> QED BY <1>1, <2>1, <2>2 DEF Entered
<1>7. HeldNumbered' /\ ConsumerNumbered'
  BY <1>1, <1>6 DEF HeldNumbered, ConsumerNumbered, AtConsumer
<1>8. BufferNumbered'
  BY <1>1, <1>6, NthFromASource, BufferStands
<1> QED BY <1>2, <1>4, <1>5, <1>7, <1>8

(* Any other command lengthens main's log; main holds the response.        *)
LEMMA ExecuteKeepsNumbers ==
  ASSUME WakeInv, DataInv, PipelineInv, execute_command_and_produce
  PROVE  PipelineInv'
<1> USE DEF PipelineInv, NumberInv
<1>0. ControlTypeOK /\ DataTypeOK /\ Main \in Source /\ Main \in Threads /\ Main \notin Topics
  BY BrokerThreadsAssumption DEF WakeInv, DataInv, Source, Threads
<1>1. /\ pc[Main] = "serve" /\ GoTo(Main, "produce_new_message")
      /\ accepted' = [accepted EXCEPT ![Main] = Append(@, Len(accepted[Main]) + 1)]
      /\ held' = [held EXCEPT ![Main] = Len(accepted[Main]) + 1]
      /\ UNCHANGED <<mq, forwarded, array, use_idx, count, element>>
  BY <1>0 DEF execute_command_and_produce, queueVars, bufferVars, DataTypeOK
<1>a. pc'[Consumer] = pc[Consumer]
  BY <1>0, <1>1, BrokerThreadsAssumption DEF GoTo, ControlTypeOK, Threads, Source
<1>2. NothingBeforeServing' /\ HeldWhileProducing'
  <2>1. pc'[Main] = "produce_new_message" /\ \A s \in Source : s # Main => pc'[s] = pc[s]
    BY <1>0, <1>1 DEF GoTo, ControlTypeOK, Threads
  <2> QED BY <1>0, <1>1, <2>1
          DEF NothingBeforeServing, HeldWhileProducing, Starting, Producing, DataTypeOK
<1>3. /\ accepted[Main] \in Seq(Nat) /\ Len(accepted[Main]) + 1 \in Nat
      /\ accepted'[Main] = Append(accepted[Main], Len(accepted[Main]) + 1)
      /\ held[Main] = None /\ held'[Main] = Len(accepted[Main]) + 1 /\ held'[Main] # None
  <2>1. held[Main] = None
    BY <1>0, <1>1 DEF HeldWhileProducing, Producing
  <2> QED BY <1>0, <1>1, <2>1, BrokerThreadsAssumption DEF DataTypeOK
<1>4. LogNumbered'
  <2>1. \A n \in 1 .. Len(accepted'[Main]) : accepted'[Main][n] = n
    BY <1>0, <1>3, AppendExtends DEF LogNumbered
  <2>2. \A s \in Source : s # Main => accepted'[s] = accepted[s]
    BY <1>0, <1>1 DEF DataTypeOK
  <2> QED BY <1>1, <2>1, <2>2 DEF LogNumbered
<1>5. QueueNumbered'
  <2>1. \A u \in Topics : accepted'[u] = accepted[u]
    BY <1>0, <1>1 DEF DataTypeOK, Source
  <2> QED BY <1>1, <2>1 DEF QueueNumbered
<1>6. \A s \in Source :
         /\ Left(s)' = Left(s) /\ Entered(s)' = Entered(s)
         /\ held'[s] # None => held'[s] = Dequeued(s)'
  <2> TAKE s \in Source
  <2>1. Left(s)' = Left(s)
    BY <1>1, <1>a DEF Left, AtConsumer
  <2>2. CASE s = Main
    <3>1. Len(WithQueue(s)) = 0 /\ WithQueue(s)' = WithQueue(s)
      BY <1>0, <2>2 DEF WithQueue
    <3>2. Dequeued(s)' = Dequeued(s) + 1 /\ Dequeued(s) = Len(accepted[s])
      BY <1>3, <2>2, <3>1, AppendExtends DEF Dequeued
    <3>3. Entered(s)' = Entered(s)
      BY <1>3, <2>2, <3>2 DEF Entered
    <3> QED BY <1>3, <2>1, <2>2, <3>2, <3>3
  <2>3. CASE s # Main
    BY <1>0, <1>1, <2>1, <2>3 DEF Entered, Dequeued, WithQueue, HeldNumbered, DataTypeOK
  <2> QED BY <2>2, <2>3
<1>7. HeldNumbered' /\ ConsumerNumbered'
  <2>1. ConsumerNumbered'
    BY <1>1, <1>a DEF ConsumerNumbered, AtConsumer
  <2> QED BY <1>6, <2>1 DEF HeldNumbered
<1>8. BufferNumbered'
  BY <1>1, <1>6, NthFromASource, BufferStands
<1> QED BY <1>2, <1>4, <1>5, <1>7, <1>8

(* What a thread takes from its queue it holds.                            *)
LEMMA DequeueKeepsNumbers ==
  ASSUME WakeInv, DataInv, PipelineInv, NEW t \in Topics, DequeueIf(t)
  PROVE  PipelineInv'
<1> USE DEF PipelineInv, NumberInv
<1>0. /\ ControlTypeOK /\ DataTypeOK /\ t \in Source /\ t \in Threads
      /\ t # Main /\ t # Consumer
  BY BrokerThreadsAssumption DEF WakeInv, DataInv, Source, Threads
<1>1. /\ pc[t] = "dequeue_if" /\ GoTo(t, "produce_new_message")
      /\ UNCHANGED <<accepted, forwarded, bufferVars>>
  BY DEF DequeueIf, historyVars
<1>2. held[t] = None
  BY <1>0, <1>1 DEF HeldWhileProducing, Producing
<1>3. CASE flag \/ mq[t] = << >>
  <2>1. held' = held /\ mq' = mq
    BY <1>0, <1>2, <1>3 DEF DequeueIf, ControlTypeOK, DataTypeOK
  <2> QED BY <1>0, <1>1, <1>2, <2>1, ThreadMoves DEF Label
<1>4. CASE ~flag /\ mq[t] # << >>
  <2>1. /\ held' = [held EXCEPT ![t] = Head(mq[t])]
        /\ mq' = [mq EXCEPT ![t] = Tail(@)]
    BY <1>4 DEF DequeueIf
  <2>2. pc'[Main] = pc[Main] /\ pc'[Consumer] = pc[Consumer] /\ pc'[t] \in Producing
    BY <1>0, <1>1, BrokerThreadsAssumption DEF GoTo, ControlTypeOK, Threads, Source, Producing
  <2>3. pc[Main] \notin Starting
    BY <1>4 DEF NothingBeforeServing
  <2>4. NothingBeforeServing' /\ HeldWhileProducing'
    <3>1. \A s \in Source : s # t => held'[s] = held[s] /\ pc'[s] = pc[s]
      BY <1>0, <1>1, <2>1 DEF GoTo, ControlTypeOK, DataTypeOK, Threads
    <3> QED BY <2>2, <2>3, <3>1 DEF NothingBeforeServing, HeldWhileProducing
  <2>5. /\ mq[t] \in Seq(Nat) /\ Len(accepted[t]) \in Nat
        /\ held'[t] = Head(mq[t]) /\ mq'[t] = Tail(mq[t])
    BY <1>0, <2>1 DEF ControlTypeOK, DataTypeOK
  <2>6. /\ Head(mq[t]) = Len(accepted[t]) - Len(mq[t]) + 1
        /\ \A i \in 1 .. Len(Tail(mq[t])) :
              Tail(mq[t])[i] = Len(accepted[t]) - Len(Tail(mq[t])) + i
    <3>1. \A i \in 1 .. Len(mq[t]) : mq[t][i] = Len(accepted[t]) - Len(mq[t]) + i
      BY DEF QueueNumbered
    <3> QED BY <1>4, <2>5, <3>1, NumberedTail
  <2>7. Len(Tail(mq[t])) = Len(mq[t]) - 1 /\ Len(mq[t]) \in Nat /\ Head(mq[t]) # None
    BY <1>4, <2>5, TailShifts, BrokerThreadsAssumption
  <2>8. QueueNumbered'
    <3>1. \A i \in 1 .. Len(mq'[t]) : mq'[t][i] = Len(accepted'[t]) - Len(mq'[t]) + i
      BY <1>1, <2>5, <2>6
    <3>2. \A u \in Topics : u # t => mq'[u] = mq[u]
      BY <2>1 DEF ControlTypeOK
    <3> QED BY <1>1, <3>1, <3>2 DEF QueueNumbered
  <2>9. LogNumbered' /\ ConsumerNumbered'
    BY <1>1, <2>2 DEF LogNumbered, ConsumerNumbered, AtConsumer, bufferVars
  <2>10. \A s \in Source :
           /\ Left(s)' = Left(s) /\ Entered(s)' = Entered(s)
           /\ held'[s] # None => held'[s] = Dequeued(s)'
    <3> TAKE s \in Source
    <3>1. Left(s)' = Left(s)
      BY <1>1, <2>2 DEF Left, AtConsumer, bufferVars
    <3>2. CASE s = t
      <4>1. WithQueue(s) = mq[t] /\ WithQueue(s)' = mq'[t]
        BY <3>2 DEF WithQueue
      <4>2. /\ Dequeued(s) = Len(accepted[t]) - Len(mq[t])
            /\ Dequeued(s)' = Len(accepted[t]) - Len(mq[t]) + 1
        <5>1. Len(accepted'[t]) = Len(accepted[t]) /\ Len(mq'[t]) = Len(mq[t]) - 1
          BY <1>1, <2>5, <2>7
        <5>2. Dequeued(s)' = Len(accepted[t]) - (Len(mq[t]) - 1)
          BY <3>2, <4>1, <5>1 DEF Dequeued
        <5>3. Len(accepted[t]) - (Len(mq[t]) - 1) = Len(accepted[t]) - Len(mq[t]) + 1
          BY <2>5, <2>7
        <5>4. Dequeued(s) = Len(accepted[t]) - Len(mq[t])
          BY <3>2, <4>1 DEF Dequeued
        <5> QED BY <5>2, <5>3, <5>4
      <4>3. held'[s] = Dequeued(s)' /\ held'[s] # None
        BY <2>5, <2>6, <2>7, <3>2, <4>2
      <4>4. Entered(s)' = Entered(s)
        BY <1>2, <2>5, <2>7, <3>2, <4>2, <4>3 DEF Entered
      <4> QED BY <3>1, <4>3, <4>4
    <3>3. CASE s # t
      <4>1. held'[s] = held[s] /\ WithQueue(s)' = WithQueue(s)
        BY <1>0, <2>1, <3>3 DEF WithQueue, ControlTypeOK, DataTypeOK
      <4>2. Dequeued(s)' = Dequeued(s)
        BY <1>1, <4>1 DEF Dequeued
      <4> QED BY <3>1, <4>1, <4>2 DEF Entered, HeldNumbered
    <3> QED BY <3>2, <3>3
  <2>11. HeldNumbered'
    BY <2>10 DEF HeldNumbered
  <2>12. BufferNumbered'
    BY <1>1, <2>10, NthFromASource, BufferStands DEF bufferVars
  <2> QED BY <2>4, <2>8, <2>9, <2>11, <2>12
<1> QED BY <1>3, <1>4

(* What a thread puts is next of its source, behind all that is there.     *)
LEMMA PutKeepsNumbers ==
  ASSUME WakeInv, DataInv, PipelineInv, NEW s \in Source, ProduceIf(s)
  PROVE  PipelineInv'
<1> USE DEF PipelineInv, NumberInv
<1>0. /\ ControlTypeOK /\ DataTypeOK /\ BufferTypeOK /\ s \in Threads /\ s # Consumer
      /\ LoopsEstablish /\ BufferUsedWithinBounds /\ FlagFollowsMain
  BY BrokerThreadsAssumption DEF WakeInv, DataInv, Source, Threads
<1>1. /\ pc[s] = "produce_if" /\ GoTo(s, IF s = Main THEN "serve" ELSE "produce")
      /\ held' = [held EXCEPT ![s] = None]
      /\ UNCHANGED <<mq, accepted, forwarded, flag>>
  BY DEF ProduceIf, historyVars, queueVars, shutDownVars
<1>2. CASE flag
  <2>1. held[s] = None
    BY <1>0, <1>2 DEF FlagFollowsMain, NothingBeforeServing, Starting
  <2>2. held' = held
    BY <1>0, <1>1, <2>1 DEF DataTypeOK
  <2>3. UNCHANGED bufferVars
    BY <1>2 DEF ProduceIf
  <2>4. CASE s = Main
    BY <1>0, <1>1, <2>1, <2>2, <2>3, <2>4, ThreadMoves DEF Label, Starting
  <2>5. CASE s # Main
    BY <1>0, <1>1, <2>1, <2>2, <2>3, <2>5, ThreadMoves DEF Label
  <2> QED BY <2>4, <2>5
<1>3. CASE ~flag
  <2> DEFINE e == [source |-> s, message |-> held[s]]
  <2>1. /\ held[s] \in Nat /\ held[s] # None /\ count < MAX_OUTGOING_BUFFER_SIZE
        /\ count \in 0 .. MAX_OUTGOING_BUFFER_SIZE
        /\ MAX_OUTGOING_BUFFER_SIZE \in Nat
    BY <1>0, <1>1, <1>3, CountInBounds, BrokerThreadsAssumption DEF LoopsEstablish
  <2>2. OB!put(e) /\ e \in Element /\ OBP!BufferInv
    BY <1>0, <1>1, <1>3, <2>1, BufferInvIsInBounds DEF ProduceIf, Element
  <2>3. count' = count + 1 /\ element' = element
    BY <2>2 DEF OB!put
  <2>4. /\ \A i \in 1 .. count : Nth(i)' = Nth(i) /\ Nth(i) \in Element
        /\ \A i : i = count + 1 => Nth(i)' = e
    BY <2>1, <2>2, PutAppends, NthFromASource
  <2>5. pc[Main] \notin Starting /\ pc'[Main] \notin Starting
    <3>1. pc[Main] \notin Starting
      BY <2>1 DEF NothingBeforeServing
    <3> QED BY <1>0, <1>1, <3>1 DEF GoTo, ControlTypeOK, Threads, Source, Starting
  <2>6. pc'[Consumer] = pc[Consumer]
    BY <1>0, <1>1 DEF GoTo, ControlTypeOK, Threads
  <2>7. HeldWhileProducing'
    BY <1>0, <1>1 DEF HeldWhileProducing, GoTo, ControlTypeOK, DataTypeOK, Threads
  <2>8. LogNumbered' /\ QueueNumbered' /\ ConsumerNumbered'
    BY <1>1, <2>3, <2>6 DEF LogNumbered, QueueNumbered, ConsumerNumbered, AtConsumer
  <2>9. \A r \in Source : Left(r)' = Left(r) /\ Dequeued(r)' = Dequeued(r)
    BY <1>1, <2>3, <2>6 DEF Left, AtConsumer, Dequeued, WithQueue
  <2>10. held'[s] = None /\ \A r \in Source : r # s => held'[r] = held[r]
    BY <1>0, <1>1 DEF DataTypeOK
  <2>11. HeldNumbered'
    BY <2>9, <2>10 DEF HeldNumbered
  <2>12. /\ Entered(s) = held[s] - 1 /\ Entered(s)' = held[s]
         /\ \A r \in Source : r # s => Entered(r)' = Entered(r)
    BY <2>1, <2>9, <2>10 DEF Entered, HeldNumbered
  <2>13. \A r \in Source : Left(r) \in Nat /\ Entered(r) \in Int
    BY <1>0, EndsAreNumbers
  <2>14. BufferNumbered'
    <3>1. \A i \in 1 .. count' : i = count + 1 \/ i \in 1 .. count
      BY <2>1, <2>3
    <3>2. \A i \in 1 .. count : Nth(i)' = Nth(i) /\ Nth(i).message \in Nat
      BY <2>4 DEF Element
    <3>3. \A i \in 1 .. count' : i \notin 1 .. count => Nth(i)' = e
      BY <2>4, <3>1
    <3>4. SUFFICES ASSUME NEW r \in Source
                   PROVE  /\ Left(r)' <= Entered(r)'
                          /\ \A i \in 1 .. count' : Nth(i)'.source = r =>
                                Left(r)' < Nth(i)'.message /\ Nth(i)'.message <= Entered(r)'
                          /\ \A i, j \in 1 .. count' :
                                i < j /\ Nth(i)'.source = r /\ Nth(j)'.source = r =>
                                  Nth(i)'.message < Nth(j)'.message
                          /\ \A n \in Left(r)' + 1 .. Entered(r)' :
                                \E i \in 1 .. count' : Nth(i)' = [source |-> r, message |-> n]
      BY DEF BufferNumbered
    <3>5. /\ Left(r)' = Left(r) /\ Left(r) <= Entered(r) /\ Left(r) \in Nat /\ Entered(r) \in Int
          /\ Entered(r)' = IF r = s THEN Entered(r) + 1 ELSE Entered(r)
          /\ r = s => held[s] = Entered(r) + 1
      BY <2>1, <2>9, <2>12, <2>13 DEF BufferNumbered
    <3>6. \A i \in 1 .. count : Nth(i)'.source = r =>
             Left(r) < Nth(i)'.message /\ Nth(i)'.message <= Entered(r)
      BY <3>2 DEF BufferNumbered
    <3>7. \A i \in 1 .. count' : Nth(i)'.source = r =>
             Left(r)' < Nth(i)'.message /\ Nth(i)'.message <= Entered(r)'
      BY <3>1, <3>2, <3>3, <3>5, <3>6
    <3>8. \A i, j \in 1 .. count' : i < j /\ Nth(i)'.source = r /\ Nth(j)'.source = r =>
             Nth(i)'.message < Nth(j)'.message
      <4> SUFFICES ASSUME NEW i \in 1 .. count', NEW j \in 1 .. count', i < j,
                          Nth(i)'.source = r, Nth(j)'.source = r
                   PROVE  Nth(i)'.message < Nth(j)'.message
        OBVIOUS
      <4>1. i \in 1 .. count
        BY <2>1, <2>3
      <4>2. CASE j \in 1 .. count
        BY <3>2, <4>1, <4>2 DEF BufferNumbered
      <4>3. CASE j \notin 1 .. count
        BY <3>2, <3>3, <3>5, <3>6, <4>1, <4>3
      <4> QED BY <4>2, <4>3
    <3>9. \A n \in Left(r)' + 1 .. Entered(r)' :
             \E i \in 1 .. count' : Nth(i)' = [source |-> r, message |-> n]
      <4> TAKE n \in Left(r)' + 1 .. Entered(r)'
      <4>1. CASE r = s /\ n = held[s]
        BY <2>1, <2>3, <2>4, <4>1
      <4>2. CASE ~(r = s /\ n = held[s])
        <5>1. n \in Left(r) + 1 .. Entered(r)
          BY <3>5, <4>2
        <5>2. PICK i \in 1 .. count : Nth(i) = [source |-> r, message |-> n]
          BY <5>1 DEF BufferNumbered
        <5> QED BY <2>1, <2>3, <3>2, <5>2
      <4> QED BY <4>1, <4>2
    <3> QED BY <3>5, <3>7, <3>8, <3>9
  <2> QED BY <2>5, <2>7, <2>8, <2>11, <2>14 DEF NothingBeforeServing
<1> QED BY <1>2, <1>3

(* What the consumer gets is next of its source to be forwarded.           *)
LEMMA GetKeepsNumbers ==
  ASSUME WakeInv, DataInv, PipelineInv, ConsumeGet
  PROVE  PipelineInv'
<1> USE DEF PipelineInv, NumberInv
<1>0. /\ ControlTypeOK /\ DataTypeOK /\ BufferTypeOK /\ Consumer \in Threads
      /\ LoopsEstablish /\ BufferUsedWithinBounds /\ FlagFollowsMain
      /\ Consumer \notin Source
  BY BrokerThreadsAssumption DEF WakeInv, DataInv, Source, Threads
<1>1. /\ pc[Consumer] = "consume_get" /\ GoTo(Consumer, "consume_if") /\ OB!get
      /\ UNCHANGED <<mq, accepted, forwarded, held, flag>>
  BY DEF ConsumeGet, historyVars, queueVars, shutDownVars
<1>2. pc'[Consumer] = "consume_if" /\ \A s \in Source : pc'[s] = pc[s]
  BY <1>0, <1>1 DEF GoTo, ControlTypeOK, Threads
<1>3. /\ count' = count - 1 /\ count \in Int /\ array' = array /\ element' = array[use_idx]
      /\ Main \in Source
  BY <1>0, <1>1 DEF OB!get, ControlTypeOK, Source
<1>4. HeldWhileProducing'
  BY <1>1, <1>2 DEF HeldWhileProducing
<1>5. CASE pc[Main] \in Starting
  <2>1. element' = None
    BY <1>0, <1>3, <1>5 DEF NothingBeforeServing, BufferTypeOK
  <2>2. NothingBeforeServing'
    BY <1>1, <1>3, <1>5, <2>1 DEF NothingBeforeServing
  <2>3. NothingYet'
    BY <1>2, <1>3, <1>5, <2>2 DEF NothingYet
  <2> QED BY <1>4, <2>2, <2>3, NothingIsNumberedNext
<1>6. CASE pc[Main] \notin Starting
  <2>1. NothingBeforeServing'
    BY <1>2, <1>3, <1>6 DEF NothingBeforeServing
  <2>2. ~flag /\ count > 0
    BY <1>0, <1>1, <1>6 DEF FlagFollowsMain, Starting, LoopsEstablish
  <2>3. /\ element' = Nth(1) /\ 1 \in 1 .. count
        /\ \A i \in 1 .. count - 1 : Nth(i)' = Nth(i + 1)
        /\ \A i \in 1 .. count : Nth(i) \in Element
    BY <1>1, <1>3, <2>2, BufferInvIsInBounds, GetTakesFirst, NthFromASource DEF DataInv
  <2>4. PICK s \in Source, m \in Nat : element' = [source |-> s, message |-> m]
    BY <2>3 DEF Element
  <2>5. \A r \in Source : Dequeued(r)' = Dequeued(r) /\ Entered(r)' = Entered(r)
    BY <1>1 DEF Dequeued, Entered, WithQueue
  <2>6. \A r \in Source : Left(r) = Len(forwarded[r]) /\ Left(r) \in Nat /\ Entered(r) \in Int
    BY <1>0, <1>1, EndsAreNumbers DEF Left, AtConsumer, Carrying
  <2>7. m = Left(s) + 1
    <3>1. Nth(1).source = s /\ Nth(1).message = m
      BY <2>3, <2>4
    <3>2. Left(s) < m /\ m <= Entered(s)
      BY <2>3, <3>1 DEF BufferNumbered
    <3>3. Left(s) + 1 \in Left(s) + 1 .. Entered(s)
      BY <2>4, <2>6, <3>2
    <3>4. PICK i \in 1 .. count : Nth(i) = [source |-> s, message |-> Left(s) + 1]
      BY <3>3 DEF BufferNumbered
    <3>5. CASE i = 1
      BY <3>1, <3>4, <3>5
    <3>6. CASE i # 1
      <4>1. 1 < i /\ Nth(i).source = s /\ Nth(i).message = Left(s) + 1
        BY <1>3, <3>4, <3>6
      <4>2. m < Left(s) + 1
        BY <2>3, <3>1, <4>1 DEF BufferNumbered
      <4> QED BY <2>4, <2>6, <3>2, <4>2
    <3> QED BY <3>5, <3>6
  <2>8. element' # None /\ element'.source = s /\ element'.message = m
    <3>1. [source |-> s, message |-> m] \in Element
      BY DEF Element
    <3> QED BY <2>4, <3>1, BrokerThreadsAssumption
  <2>9. \A r \in Source : Left(r)' = IF r = s THEN m ELSE Left(r)
    BY <1>1, <1>2, <2>6, <2>7, <2>8 DEF Left, AtConsumer, Carrying
  <2>10. ConsumerNumbered'
    BY <1>1, <2>6, <2>7, <2>8 DEF ConsumerNumbered, AtConsumer
  <2>11. LogNumbered' /\ QueueNumbered' /\ HeldNumbered'
    BY <1>1, <2>5 DEF LogNumbered, QueueNumbered, HeldNumbered
  <2>12. BufferNumbered'
    <3>1. SUFFICES ASSUME NEW r \in Source
                   PROVE  /\ Left(r)' <= Entered(r)'
                          /\ \A i \in 1 .. count' : Nth(i)'.source = r =>
                                Left(r)' < Nth(i)'.message /\ Nth(i)'.message <= Entered(r)'
                          /\ \A i, j \in 1 .. count' :
                                i < j /\ Nth(i)'.source = r /\ Nth(j)'.source = r =>
                                  Nth(i)'.message < Nth(j)'.message
                          /\ \A n \in Left(r)' + 1 .. Entered(r)' :
                                \E i \in 1 .. count' : Nth(i)' = [source |-> r, message |-> n]
      BY DEF BufferNumbered
    <3>2. \A i \in 1 .. count' : /\ Nth(i)' = Nth(i + 1) /\ i + 1 \in 1 .. count /\ 1 < i + 1
                                 /\ Nth(i + 1).message \in Nat
      BY <1>3, <2>3 DEF Element
    <3>3. Nth(1).source = s /\ Nth(1).message = m /\ m <= Entered(s)
      BY <2>3, <2>4 DEF BufferNumbered
    <3>4. Left(r)' <= Entered(r)'
      BY <2>5, <2>9, <3>3 DEF BufferNumbered
    <3>5. \A i \in 1 .. count' : Nth(i)'.source = r =>
             Left(r)' < Nth(i)'.message /\ Nth(i)'.message <= Entered(r)'
      <4> SUFFICES ASSUME NEW i \in 1 .. count', Nth(i)'.source = r
                   PROVE  Left(r)' < Nth(i)'.message /\ Nth(i)'.message <= Entered(r)'
        OBVIOUS
      <4>1. Nth(i + 1).source = r /\ i + 1 \in 1 .. count /\ Nth(i)' = Nth(i + 1)
        BY <3>2
      <4>2. Left(r) < Nth(i + 1).message /\ Nth(i + 1).message <= Entered(r)
        BY <4>1 DEF BufferNumbered
      <4>3. r = s => m < Nth(i + 1).message
        BY <2>3, <3>2, <3>3, <4>1 DEF BufferNumbered
      <4> QED BY <2>5, <2>9, <4>1, <4>2, <4>3
    <3>6. \A i, j \in 1 .. count' : i < j /\ Nth(i)'.source = r /\ Nth(j)'.source = r =>
             Nth(i)'.message < Nth(j)'.message
      <4> SUFFICES ASSUME NEW i \in 1 .. count', NEW j \in 1 .. count', i < j,
                          Nth(i)'.source = r, Nth(j)'.source = r
                   PROVE  Nth(i)'.message < Nth(j)'.message
        OBVIOUS
      <4>1. /\ i + 1 \in 1 .. count /\ j + 1 \in 1 .. count /\ i + 1 < j + 1
            /\ Nth(i + 1).source = r /\ Nth(j + 1).source = r
        BY <3>2
      <4>2. Nth(i + 1).message < Nth(j + 1).message
        BY <4>1 DEF BufferNumbered
      <4> QED BY <3>2, <4>2
    <3>7. \A n \in Left(r)' + 1 .. Entered(r)' :
             \E i \in 1 .. count' : Nth(i)' = [source |-> r, message |-> n]
      <4> TAKE n \in Left(r)' + 1 .. Entered(r)'
      <4>1. n \in Left(r) + 1 .. Entered(r) /\ (r = s => n # m)
        BY <2>4, <2>5, <2>6, <2>7, <2>9
      <4>2. PICK i \in 1 .. count : Nth(i) = [source |-> r, message |-> n]
        BY <4>1 DEF BufferNumbered
      <4>3. i # 1
        BY <3>3, <4>1, <4>2
      <4>4. i - 1 \in 1 .. count' /\ Nth(i - 1)' = Nth(i)
        BY <1>3, <2>3, <4>3
      <4> QED BY <4>2, <4>4
    <3> QED BY <3>4, <3>5, <3>6, <3>7
  <2> QED BY <1>4, <2>1, <2>10, <2>11, <2>12
<1> QED BY <1>5, <1>6

(* What is sent was the next of its source: TopicLog's Forward.            *)
LEMMA SendIsForward ==
  ASSUME WakeInv, DataInv, PipelineInv, Send, element # None
  PROVE  /\ element.source \in Source
         /\ element.message = Len(forwarded[element.source]) + 1
         /\ Len(forwarded[element.source]) < Len(accepted[element.source])
         /\ forwarded' = [forwarded EXCEPT ![element.source] = Append(@, element.message)]
         /\ UNCHANGED <<accepted, held, mq, bufferVars>>
<1>1. /\ pc[Consumer] \in {"send", "send_locked"}
      /\ forwarded' = [forwarded EXCEPT ![element.source] = Append(@, element.message)]
      /\ UNCHANGED <<accepted, held, mq, bufferVars>>
  BY DEF Send, queueVars
<1>2. /\ ControlTypeOK /\ DataTypeOK /\ element.source \in Source
      /\ LogNumbered /\ ConsumerNumbered /\ BufferNumbered /\ HeldNumbered
  BY DEF WakeInv, DataInv, BufferTypeOK, Element, PipelineInv, NumberInv
<1>3. AtConsumer(element.source)
  BY <1>1 DEF AtConsumer, Carrying
<1>4. element.message = Len(forwarded[element.source]) + 1
  BY <1>2, <1>3 DEF ConsumerNumbered
<1>5. Left(element.source) = Len(forwarded[element.source]) + 1
  BY <1>3 DEF Left
<1>6. Left(element.source) <= Entered(element.source)
  BY <1>2 DEF BufferNumbered
<1>7. /\ Len(accepted[element.source]) \in Nat /\ Len(forwarded[element.source]) \in Nat
      /\ Entered(element.source) \in Int
      /\ Entered(element.source) <= Len(accepted[element.source])
  BY <1>2, EndsAreNumbers
<1> QED BY <1>1, <1>2, <1>4, <1>5, <1>6, <1>7

LEMMA SendKeepsNumbers ==
  ASSUME WakeInv, DataInv, PipelineInv, Send
  PROVE  PipelineInv'
<1> USE DEF PipelineInv, NumberInv
<1>0. ControlTypeOK /\ DataTypeOK /\ Consumer \in Threads /\ Consumer \notin Source
  BY BrokerThreadsAssumption DEF WakeInv, DataInv, Source, Threads
<1>1. /\ pc[Consumer] \in {"send", "send_locked"}
      /\ \E label \in {"consume", "signal_shut_down"} : GoTo(Consumer, label)
  BY DEF Send
<1>2. CASE element = None
  <2>1. UNCHANGED <<accepted, forwarded, held, mq, bufferVars>>
    BY <1>2 DEF Send, queueVars
  <2>2. PICK label \in {"consume", "signal_shut_down"} : GoTo(Consumer, label)
    BY <1>1
  <2> QED BY <1>0, <1>2, <2>1, <2>2, ThreadMoves, BrokerThreadsAssumption DEF Label, Starting
<1>3. CASE element # None
  <2> DEFINE s == element.source
  <2>1. /\ s \in Source /\ element.message = Len(forwarded[s]) + 1
        /\ forwarded' = [forwarded EXCEPT ![s] = Append(@, element.message)]
        /\ UNCHANGED <<accepted, held, mq, array, use_idx, count, element>>
    BY <1>3, SendIsForward DEF bufferVars
  <2>2. /\ pc'[Consumer] \notin Carrying /\ pc[Consumer] \in Carrying
        /\ \A r \in Source : pc'[r] = pc[r]
    BY <1>0, <1>1 DEF GoTo, ControlTypeOK, Threads, Carrying
  <2>3. NothingBeforeServing' /\ HeldWhileProducing'
    <3>1. pc[Main] \notin Starting /\ Main \in Source
      BY <1>3 DEF NothingBeforeServing, Source
    <3> QED BY <2>1, <2>2, <3>1 DEF NothingBeforeServing, HeldWhileProducing
  <2>4. /\ forwarded[s] \in Seq(Nat) /\ Len(forwarded[s]) \in Nat /\ element.message \in Nat
        /\ forwarded'[s] = Append(forwarded[s], element.message)
    BY <1>0, <2>1 DEF DataTypeOK
  <2>5. Len(forwarded'[s]) = Len(forwarded[s]) + 1
    BY <2>4, AppendExtends
  <2>6. \A r \in Source : r # s => forwarded'[r] = forwarded[r]
    BY <1>0, <2>1 DEF DataTypeOK
  <2>7. LogNumbered'
    <3>1. \A n \in 1 .. Len(forwarded'[s]) : forwarded'[s][n] = n
      BY <2>1, <2>4, AppendExtends DEF LogNumbered
    <3> QED BY <2>1, <2>6, <3>1 DEF LogNumbered
  <2>8. QueueNumbered' /\ HeldNumbered' /\ ConsumerNumbered'
    BY <2>1, <2>2 DEF QueueNumbered, HeldNumbered, ConsumerNumbered, AtConsumer, Dequeued, WithQueue
  <2>9. \A r \in Source : Left(r)' = Left(r) /\ Entered(r)' = Entered(r)
    <3> TAKE r \in Source
    <3>1. Entered(r)' = Entered(r)
      BY <2>1 DEF Entered, Dequeued, WithQueue
    <3>2. CASE r = s
      BY <1>3, <2>2, <2>5, <3>1, <3>2 DEF Left, AtConsumer
    <3>3. CASE r # s
      BY <2>1, <2>6, <3>1, <3>3 DEF Left, AtConsumer
    <3> QED BY <3>2, <3>3
  <2>10. BufferNumbered'
    BY <2>1, <2>9, NthFromASource, BufferStands
  <2> QED BY <2>3, <2>7, <2>8, <2>10
<1> QED BY <1>2, <1>3

-----------------------------------------------------------------------------
LEMMA PipelineInvStep == WakeInv /\ DataInv /\ PipelineInv /\ [Next]_vars => PipelineInv'
<1> SUFFICES ASSUME WakeInv, DataInv, PipelineInv, [Next]_vars PROVE PipelineInv'
  OBVIOUS
<1> USE BrokerThreadsAssumption DEF queueVars, historyVars, shutDownVars, bufferSync
<1>0. ControlTypeOK /\ PipelineInv /\ HeldWhileProducing
  BY DEF WakeInv, PipelineInv
<1>1. CASE UNCHANGED vars
  BY <1>0, <1>1, NothingMoves DEF vars
<1>2. ASSUME NEW th \in Topics \cup {Consumer}, CreateThread(th) PROVE PipelineInv'
  <2>1. PICK label \in {"failed", "consume", "produce"} : GoTo(th, label)
    BY <1>2 DEF CreateThread
  <2> QED BY <1>0, <1>2, <2>1, ThreadMoves
          DEF CreateThread, Label, Threads, Source, Starting, Producing, Carrying, HeldWhileProducing
<1>3. CASE ThreadsCreated
  BY <1>0, <1>3, ThreadMoves
     DEF ThreadsCreated, Label, Threads, Source, Starting, Producing, Carrying, HeldWhileProducing
<1>4. CASE connect_to_sm
  <2>1. CASE UNCHANGED pc
    BY <1>0, <1>4, <2>1, NothingMoves DEF connect_to_sm
  <2>2. CASE GoTo(Main, "serve")
    BY <1>0, <1>4, <2>2, ThreadMoves
       DEF connect_to_sm, Label, Threads, Source, Starting, Producing, Carrying, HeldWhileProducing
  <2> QED BY <1>4, <2>1, <2>2 DEF connect_to_sm
<1>5. ASSUME NEW t \in Topics, enqueue(t) PROVE PipelineInv'
  BY <1>5, EnqueueKeepsNumbers
<1>6. CASE execute_command_and_produce
  BY <1>6, ExecuteKeepsNumbers
<1>7. ASSUME NEW t \in Topics, produce(t) PROVE PipelineInv'
  BY <1>0, <1>7, ThreadMoves
     DEF produce, Label, Threads, Source, Starting, Producing, Carrying, HeldWhileProducing
<1>8. ASSUME NEW t \in Topics, DequeueEnter(t) PROVE PipelineInv'
  BY <1>0, <1>8, ThreadMoves
     DEF DequeueEnter, Label, Threads, Source, Starting, Producing, Carrying, HeldWhileProducing
<1>9. ASSUME NEW t \in Topics, DequeueWhile(t) PROVE PipelineInv'
  BY <1>0, <1>9, ThreadMoves
     DEF DequeueWhile, Label, Threads, Source, Starting, Producing, Carrying, HeldWhileProducing
<1>10. ASSUME NEW t \in Topics, DequeueSleep(t) PROVE PipelineInv'
  BY <1>0, <1>10, ThreadMoves
     DEF DequeueSleep, Label, Threads, Source, Starting, Producing, Carrying, HeldWhileProducing
<1>11. ASSUME NEW t \in Topics, DequeueIf(t) PROVE PipelineInv'
  BY <1>11, DequeueKeepsNumbers
<1>12. ASSUME NEW s \in Source, ProduceEnter(s) PROVE PipelineInv'
  BY <1>0, <1>12, ThreadMoves
     DEF ProduceEnter, Label, Threads, Source, Starting, Producing, Carrying, HeldWhileProducing
<1>13. ASSUME NEW s \in Source, ProduceWhile(s) PROVE PipelineInv'
  BY <1>0, <1>13, ThreadMoves
     DEF ProduceWhile, Label, Threads, Source, Starting, Producing, Carrying, HeldWhileProducing
<1>14. ASSUME NEW s \in Source, ProduceSleep(s) PROVE PipelineInv'
  BY <1>0, <1>14, ThreadMoves
     DEF ProduceSleep, Label, Threads, Source, Starting, Producing, Carrying, HeldWhileProducing
<1>15. ASSUME NEW s \in Source, ProduceIf(s) PROVE PipelineInv'
  BY <1>15, PutKeepsNumbers
<1>16. CASE consume
  BY <1>0, <1>16, ThreadMoves
     DEF consume, Label, Threads, Source, Starting, Producing, Carrying, HeldWhileProducing
<1>17. CASE ConsumeEnter
  BY <1>0, <1>17, ThreadMoves
     DEF ConsumeEnter, Label, Threads, Source, Starting, Producing, Carrying, HeldWhileProducing
<1>18. CASE ConsumeWhile
  BY <1>0, <1>18, ThreadMoves
     DEF ConsumeWhile, Label, Threads, Source, Starting, Producing, Carrying, HeldWhileProducing
<1>19. CASE ConsumeSleep
  BY <1>0, <1>19, ThreadMoves
     DEF ConsumeSleep, Label, Threads, Source, Starting, Producing, Carrying, HeldWhileProducing
<1>20. CASE ConsumeGet
  BY <1>20, GetKeepsNumbers
<1>21. CASE ConsumeIf
  BY <1>0, <1>21, ThreadMoves
     DEF ConsumeIf, Label, Threads, Source, Starting, Producing, Carrying, HeldWhileProducing
<1>22. CASE Send
  BY <1>22, SendKeepsNumbers
<1>23. ASSUME NEW th \in Topics \cup {Consumer}, signal_shut_down(th) PROVE PipelineInv'
  BY <1>0, <1>23, ThreadMoves
     DEF signal_shut_down, Label, Threads, Source, Starting, Producing, Carrying, HeldWhileProducing
<1>24. CASE SetFlag
  BY <1>0, <1>24, ThreadMoves
     DEF SetFlag, Label, Threads, Source, Starting, Producing, Carrying, HeldWhileProducing
<1>25. ASSUME NEW t \in Topics, WakeQueue(t) PROVE PipelineInv'
  BY <1>0, <1>25, NothingMoves DEF WakeQueue
<1>26. CASE WakeBuffer
  BY <1>0, <1>26, ThreadMoves
     DEF WakeBuffer, Label, Threads, Source, Starting, Producing, Carrying, HeldWhileProducing
<1>27. CASE AwaitThreads
  <2>1. CASE UNCHANGED pc
    BY <1>0, <1>27, <2>1, NothingMoves DEF AwaitThreads
  <2>2. CASE GoTo(Main, "await_asleep")
    BY <1>0, <1>27, <2>2, ThreadMoves
       DEF AwaitThreads, Label, Threads, Source, Starting, Producing, Carrying, HeldWhileProducing
  <2> QED BY <1>27, <2>1, <2>2 DEF AwaitThreads
<1>28. CASE SpuriousWakeup
  BY <1>0, <1>28, NothingMoves DEF SpuriousWakeup
<1> QED
  BY <1>1, <1>2, <1>3, <1>4, <1>5, <1>6, <1>7, <1>8, <1>9, <1>10,
     <1>11, <1>12, <1>13, <1>14, <1>15, <1>16, <1>17, <1>18, <1>19, <1>20,
     <1>21, <1>22, <1>23, <1>24, <1>25, <1>26, <1>27, <1>28
     DEF Next, MainThread, MainCommands, ConsumerThread, ProducerThread, produce_new_message, Source

LEMMA PipelineInvIsInvariant == Spec => []PipelineInv
  BY PipelineInvInit, PipelineInvStep, WakeInvIsInvariant, DataInvIsInvariant, PTL DEF Spec

(* A step of the threads is Accept, Forward, or nothing to TopicLog.       *)
LEMMA StepsOfTopicLog ==
  WakeInv /\ DataInv /\ PipelineInv /\ [Next]_vars => [Log!Next]_Log!logVars
<1> SUFFICES ASSUME WakeInv, DataInv, PipelineInv, [Next]_vars PROVE [Log!Next]_Log!logVars
  OBVIOUS
<1>0. DataTypeOK /\ LogNumbered
  BY DEF DataInv, PipelineInv, NumberInv
<1>1. ASSUME NEW t \in Topics, enqueue(t) PROVE Log!Next
  <2>1. /\ accepted' = [accepted EXCEPT ![t] = Append(@, Len(accepted[t]) + 1)]
        /\ UNCHANGED forwarded
    BY <1>1 DEF enqueue
  <2>2. t \in Source /\ Len(accepted[t]) + 1 \in 1 .. MaxAccepted
    BY <1>0, <1>1, BrokerThreadsAssumption DEF enqueue, DataTypeOK, Source
  <2>3. Log!Accept(t, Len(accepted[t]) + 1)
    BY <2>1 DEF Log!Accept
  <2> QED BY <2>2, <2>3 DEF Log!Next
<1>2. CASE execute_command_and_produce
  <2>1. Main \in Source /\ Len(accepted[Main]) + 1 \in 1 .. MaxAccepted
    BY <1>0, <1>2, BrokerThreadsAssumption DEF execute_command_and_produce, DataTypeOK, Source
  <2>2. /\ accepted' = [accepted EXCEPT ![Main] = Append(@, Len(accepted[Main]) + 1)]
        /\ UNCHANGED forwarded
    BY <1>0, <1>2, <2>1 DEF execute_command_and_produce, DataTypeOK
  <2>3. Log!Accept(Main, Len(accepted[Main]) + 1)
    BY <2>2 DEF Log!Accept
  <2> QED BY <2>1, <2>3 DEF Log!Next
<1>3. CASE Send
  <2>1. CASE element = None
    BY <1>3, <2>1 DEF Send, Log!logVars
  <2>2. CASE element # None
    <3> DEFINE s == element.source
    <3>1. /\ s \in Source /\ element.message = Len(forwarded[s]) + 1
          /\ Len(forwarded[s]) < Len(accepted[s])
          /\ forwarded' = [forwarded EXCEPT ![s] = Append(@, element.message)]
          /\ UNCHANGED accepted
      BY <1>3, <2>2, SendIsForward
    <3>2. Len(forwarded[s]) + 1 \in 1 .. Len(accepted[s])
      BY <1>0, <3>1 DEF DataTypeOK
    <3>3. accepted[s][Len(forwarded[s]) + 1] = element.message
      BY <1>0, <3>1, <3>2 DEF LogNumbered
    <3>4. Log!Forward(s)
      BY <3>1, <3>3 DEF Log!Forward
    <3> QED BY <3>1, <3>4 DEF Log!Next
  <2> QED BY <2>1, <2>2
<1>4. CASE UNCHANGED <<accepted, forwarded>>
  BY <1>4 DEF Log!logVars
<1>5. CASE UNCHANGED vars
  BY <1>5 DEF vars, historyVars, Log!logVars
<1> USE DEF historyVars
<1>6. CASE MainThread
  <2>1. UNCHANGED <<accepted, forwarded>>
    BY <1>6 DEF MainThread, CreateThread, ThreadsCreated, connect_to_sm, produce_new_message,
                ProduceEnter, ProduceWhile, ProduceSleep, ProduceIf, SetFlag, WakeBuffer,
                AwaitThreads, WakeQueue
  <2> QED BY <1>4, <2>1
<1>7. CASE ConsumerThread
  <2>1. CASE ~Send
    BY <1>4, <1>7, <2>1 DEF ConsumerThread, consume, ConsumeEnter, ConsumeWhile, ConsumeSleep,
                            ConsumeGet, ConsumeIf, signal_shut_down
  <2> QED BY <1>3, <2>1
<1>8. ASSUME NEW t \in Topics, ProducerThread(t) PROVE UNCHANGED <<accepted, forwarded>>
  BY <1>8 DEF ProducerThread, produce, DequeueEnter, DequeueWhile, DequeueSleep, DequeueIf,
              produce_new_message, ProduceEnter, ProduceWhile, ProduceSleep, ProduceIf,
              signal_shut_down
<1>9. CASE SpuriousWakeup
  BY <1>4, <1>9 DEF SpuriousWakeup
<1> QED BY <1>1, <1>2, <1>4, <1>5, <1>6, <1>7, <1>8, <1>9 DEF Next, MainCommands

(* From a client's publish command to the socket of a subscriber, through  *)
(* two locks, three condition variables and a circular array: nothing that *)
(* was accepted from a source is skipped, repeated or overtaken, for any   *)
(* number of topics, slots and messages and any schedule of the threads.   *)
THEOREM BrokerThreadsImplementTopicLog == Spec => ImplementsTopicLog
<1>1. initialize => Log!Init
  BY DEF initialize, Log!Init
<1> QED BY <1>1, StepsOfTopicLog, PipelineInvIsInvariant, WakeInvIsInvariant,
           DataInvIsInvariant, PTL DEF Spec, ImplementsTopicLog, Log!Spec
-----------------------------------------------------------------------------
(* PipelineConservesOrder says the same with sequences: each stretch of    *)
(* the way holds consecutive numbers, and the next goes on from it.        *)
Consecutive(q, low) == q \in Seq(Nat) /\ \A j \in 1 .. Len(q) : q[j] = low + j

LEMMA ConsecutiveConcat ==
  ASSUME NEW low \in Nat, NEW q, Consecutive(q, low),
         NEW r, Consecutive(r, low + Len(q))
  PROVE  Consecutive(q \o r, low) /\ Len(q \o r) = Len(q) + Len(r)
<1>1. q \in Seq(Nat) /\ r \in Seq(Nat) /\ Len(q) \in Nat /\ Len(r) \in Nat
  BY DEF Consecutive
<1>2. /\ q \o r \in Seq(Nat) /\ Len(q \o r) = Len(q) + Len(r)
      /\ \A j \in 1 .. Len(q) + Len(r) :
            (q \o r)[j] = IF j <= Len(q) THEN q[j] ELSE r[j - Len(q)]
  BY <1>1, ConcatProperties
<1>3. ASSUME NEW j \in 1 .. Len(q) + Len(r) PROVE (q \o r)[j] = low + j
  <2>1. CASE j <= Len(q)
    BY <1>1, <1>2, <2>1 DEF Consecutive
  <2>2. CASE ~ (j <= Len(q))
    <3> DEFINE k == j - Len(q)
    <3>1. k \in 1 .. Len(r) /\ low + Len(q) + k = low + j
      BY <1>1, <2>2
    <3>2. (q \o r)[j] = r[k]
      BY <1>2, <2>2
    <3> HIDE DEF k
    <3> QED BY <3>1, <3>2 DEF Consecutive
  <2> QED BY <2>1, <2>2
<1> QED BY <1>2, <1>3 DEF Consecutive

LEMMA ConsecutiveSame ==
  ASSUME NEW low \in Nat, NEW q, Consecutive(q, low), NEW r, Consecutive(r, low),
         Len(q) = Len(r)
  PROVE  q = r
  BY SeqEqual DEF Consecutive

LEMMA ConsecutiveOne ==
  ASSUME NEW n \in Nat, NEW low \in Nat, n = low + 1
  PROVE  Consecutive(<<n>>, low) /\ Len(<<n>>) = 1
  BY DEF Consecutive

LEMMA ConsecutiveNone ==
  ASSUME NEW low \in Nat
  PROVE  Consecutive(<< >>, low) /\ Len(<< >>) = 0
<1>1. << >> \in Seq(Nat) /\ Len(<< >>) = 0
  OBVIOUS
<1> QED BY <1>1 DEF Consecutive

LEMMA BufferIsConsecutive ==
  ASSUME WakeInv, DataInv, PipelineInv, NEW s \in Source
  PROVE  Consecutive(InBuffer(s), Left(s)) /\ Len(InBuffer(s)) = Entered(s) - Left(s)
<1> DEFINE low == Left(s)
           high == Entered(s)
<1>1. DataTypeOK /\ ControlTypeOK /\ BufferTypeOK /\ NothingBeforeServing /\ BufferNumbered
  BY DEF DataInv, WakeInv, PipelineInv, NumberInv
<1>2. low \in Nat /\ high \in Int
  BY <1>1, EndsAreNumbers
<1>3. /\ low <= high
      /\ \A i \in 1 .. count : Nth(i).source = s =>
            low < Nth(i).message /\ Nth(i).message <= high
      /\ \A i, j \in 1 .. count : i < j /\ Nth(i).source = s /\ Nth(j).source = s =>
            Nth(i).message < Nth(j).message
      /\ \A n \in low + 1 .. high :
            \E i \in 1 .. count : Nth(i) = [source |-> s, message |-> n]
  BY <1>1 DEF BufferNumbered
<1> HIDE DEF low, high
<1>4. high \in Nat /\ count \in Int
  BY <1>1, <1>2, <1>3 DEF BufferTypeOK
<1>5. CASE count <= 0
  <2>1. InBuffer(s) = << >>
    BY <1>5 DEF InBuffer
  <2>2. ~ (low < high)
    <3> SUFFICES ASSUME low < high PROVE FALSE
      OBVIOUS
    <3>1. low + 1 \in low + 1 .. high
      BY <1>2, <1>4
    <3>2. PICK i \in 1 .. count : TRUE
      BY <1>3, <3>1
    <3> QED BY <1>4, <1>5, <3>2
  <2>3. high - low = 0
    BY <1>2, <1>3, <1>4, <2>2
  <2> QED BY <1>2, <2>1, <2>3, ConsecutiveNone DEF low, high
<1>6. CASE ~ (count <= 0)
  <2> DEFINE q == OB!Contents
             K == {i \in 1 .. count : OB!Contents[i].source = s}
             own == Selected(q, K)
  <2>1. \A i \in 1 .. count : q[i] = Nth(i) /\ Nth(i) \in Element
    BY <1>1, NthFromASource DEF Nth, OB!Contents, OBP!Contents
  <2>2. q \in Seq(Element) /\ Len(q) = count
    <3>1. count \in Nat
      BY <1>4, <1>6
    <3>2. q = [i \in 1 .. count |-> q[i]]
      BY DEF OB!Contents
    <3> HIDE DEF q
    <3>3. \A i \in 1 .. count : q[i] \in Element
      BY <2>1
    <3> QED BY <3>1, <3>2, <3>3, IsASeq
  <2>3. /\ K \in SUBSET (1 .. Len(q))
        /\ \A i \in K : i \in 1 .. count /\ Nth(i).source = s /\ q[i] = Nth(i)
        /\ \A i \in 1 .. count : Nth(i).source = s => i \in K
    BY <2>1, <2>2
  <2> HIDE DEF q, K
  <2>4. \A i \in K : q[i].message \in low + 1 .. high
    <3> TAKE i \in K
    <3>1. Nth(i).message \in Nat
      BY <2>1, <2>3 DEF Element
    <3>2. low < Nth(i).message /\ Nth(i).message <= high
      BY <1>3, <2>3
    <3> QED BY <1>2, <1>4, <2>3, <3>1, <3>2
  <2>5. \A i, j \in K : i < j => q[i].message < q[j].message
    BY <1>3, <2>3
  <2>6. \A n \in low + 1 .. high : \E i \in K : q[i].message = n
    <3> TAKE n \in low + 1 .. high
    <3>1. PICK i \in 1 .. count : Nth(i) = [source |-> s, message |-> n]
      BY <1>3
    <3>2. i \in K
      BY <2>3, <3>1
    <3> QED BY <2>3, <3>1, <3>2
  <2>7. /\ own \in Seq(Element) /\ Len(own) = high - low
        /\ \A j \in 1 .. high - low : own[j].message = low + j
    <3>1. low \in Nat /\ high \in Nat /\ low <= high
      BY <1>2, <1>3, <1>4
    <3>2. q \in Seq(Element) /\ K \in SUBSET (1 .. Len(q))
      BY <2>2, <2>3
    <3>3. own = Selected(q, K)
      OBVIOUS
    <3> HIDE DEF low, high, own
    <3>4. /\ Selected(q, K) \in Seq(Element) /\ Len(Selected(q, K)) = high - low
          /\ \A j \in 1 .. high - low : Selected(q, K)[j].message = low + j
      BY ONLY <3>1, <3>2, <2>4, <2>5, <2>6, SelectedNumbers, ZenonT(40)
    <3> QED BY <3>3, <3>4
  <2>8. InBuffer(s) = [i \in 1 .. Len(own) |-> own[i].message]
    BY <1>6 DEF InBuffer, q, K
  <2> HIDE DEF own
  <2>9. \A i \in 1 .. Len(own) : own[i].message = low + i /\ low + i \in Nat
    BY <1>2, <2>7
  <2>10. Len(own) \in Nat
    BY <2>7
  <2>11. InBuffer(s) \in Seq(Nat) /\ Len(InBuffer(s)) = Len(own)
    BY <2>8, <2>9, <2>10, IsASeq
  <2>12. \A i \in 1 .. Len(InBuffer(s)) : InBuffer(s)[i] = low + i
    BY <2>8, <2>9, <2>11
  <2> QED BY <2>7, <2>11, <2>12 DEF Consecutive, low, high
<1> QED BY <1>5, <1>6

LEMMA NumbersMakeTheOrder ==
  ASSUME WakeInv, DataInv, PipelineInv, NEW s \in Source
  PROVE  accepted[s] = forwarded[s] \o WithConsumer(s) \o InBuffer(s)
                         \o WithProducer(s) \o WithQueue(s)
<1>1. DataTypeOK /\ ControlTypeOK /\ BufferTypeOK /\ NumberInv
  BY DEF DataInv, WakeInv, PipelineInv
<1>2. /\ Len(accepted[s]) \in Nat /\ Len(forwarded[s]) \in Nat /\ Len(WithQueue(s)) \in Nat
      /\ Left(s) \in Nat /\ Dequeued(s) \in Int /\ Entered(s) \in Int
  BY <1>1, EndsAreNumbers
<1>3. Consecutive(accepted[s], 0) /\ Consecutive(forwarded[s], 0)
  BY <1>1 DEF NumberInv, LogNumbered, DataTypeOK, Consecutive
<1>4. Consecutive(WithConsumer(s), Len(forwarded[s]))
      /\ Len(WithConsumer(s)) = Left(s) - Len(forwarded[s])
  <2>1. CASE AtConsumer(s)
    <3>1. element.message = Len(forwarded[s]) + 1
      BY <1>1, <2>1 DEF NumberInv, ConsumerNumbered
    <3>2. WithConsumer(s) = <<element.message>> /\ Left(s) = Len(forwarded[s]) + 1
      BY <2>1 DEF WithConsumer, AtConsumer, Carrying, Left
    <3> QED BY <1>2, <3>1, <3>2, ConsecutiveOne
  <2>2. CASE ~AtConsumer(s)
    <3>1. WithConsumer(s) = << >> /\ Left(s) = Len(forwarded[s])
      BY <2>2 DEF WithConsumer, AtConsumer, Carrying, Left
    <3> QED BY <1>2, <3>1, ConsecutiveNone
  <2> QED BY <2>1, <2>2
<1>5. Consecutive(InBuffer(s), Left(s)) /\ Len(InBuffer(s)) = Entered(s) - Left(s)
  BY BufferIsConsecutive
<1>6. Entered(s) \in Nat /\ Dequeued(s) \in Nat
  <2>1. Left(s) <= Entered(s)
    BY <1>1 DEF NumberInv, BufferNumbered
  <2> QED BY <1>2, <2>1 DEF Entered
<1>7. Consecutive(WithProducer(s), Entered(s))
      /\ Len(WithProducer(s)) = Dequeued(s) - Entered(s)
  <2>1. CASE held[s] = None
    <3>1. WithProducer(s) = << >> /\ Entered(s) = Dequeued(s)
      BY <2>1 DEF WithProducer, Entered
    <3> QED BY <1>6, <3>1, ConsecutiveNone
  <2>2. CASE held[s] # None
    <3>1. held[s] = Dequeued(s)
      BY <1>1, <2>2 DEF NumberInv, HeldNumbered
    <3>2. WithProducer(s) = <<held[s]>> /\ Entered(s) = Dequeued(s) - 1
      BY <2>2 DEF WithProducer, Entered
    <3> QED BY <1>6, <3>1, <3>2, ConsecutiveOne
  <2> QED BY <2>1, <2>2
<1>8. Consecutive(WithQueue(s), Dequeued(s)) /\ Len(WithQueue(s)) = Len(accepted[s]) - Dequeued(s)
  <2>1. CASE s \in Topics
    <3>1. WithQueue(s) = mq[s] /\ mq[s] \in Seq(Nat)
      BY <1>1, <2>1 DEF WithQueue, ControlTypeOK
    <3>2. \A i \in 1 .. Len(mq[s]) : mq[s][i] = Len(accepted[s]) - Len(mq[s]) + i
      BY <1>1, <2>1 DEF NumberInv, QueueNumbered
    <3>3. Dequeued(s) = Len(accepted[s]) - Len(mq[s])
      BY <3>1 DEF Dequeued
    <3>4. \A i \in 1 .. Len(mq[s]) : mq[s][i] = Dequeued(s) + i
      BY <3>2, <3>3
    <3>5. Consecutive(mq[s], Dequeued(s))
      BY <3>1, <3>4 DEF Consecutive
    <3>6. Len(mq[s]) = Len(accepted[s]) - Dequeued(s)
      BY <1>2, <3>1, <3>3
    <3> QED BY <3>1, <3>5, <3>6
  <2>2. CASE s \notin Topics
    <3>1. WithQueue(s) = << >> /\ Len(<< >>) = 0
      BY <2>2 DEF WithQueue
    <3>2. Dequeued(s) = Len(accepted[s])
      BY <1>2, <3>1 DEF Dequeued
    <3> QED BY <1>2, <3>1, <3>2, ConsecutiveNone
  <2> QED BY <2>1, <2>2
<1> DEFINE upToConsumer == forwarded[s] \o WithConsumer(s)
           upToBuffer == upToConsumer \o InBuffer(s)
           upToProducer == upToBuffer \o WithProducer(s)
<1>9. Consecutive(upToConsumer, 0) /\ Len(upToConsumer) = Left(s)
  <2>1. Consecutive(WithConsumer(s), 0 + Len(forwarded[s]))
    BY <1>2, <1>4
  <2> QED BY <1>2, <1>3, <1>4, <2>1, ConsecutiveConcat
<1> HIDE DEF upToConsumer
<1>10. Consecutive(upToBuffer, 0) /\ Len(upToBuffer) = Entered(s)
  <2>1. Consecutive(InBuffer(s), 0 + Len(upToConsumer))
    BY <1>2, <1>5, <1>9
  <2> QED BY <1>2, <1>5, <1>9, <2>1, ConsecutiveConcat
<1> HIDE DEF upToBuffer
<1>11. Consecutive(upToProducer, 0) /\ Len(upToProducer) = Dequeued(s)
  <2>1. Consecutive(WithProducer(s), 0 + Len(upToBuffer))
    BY <1>6, <1>7, <1>10
  <2> QED BY <1>2, <1>6, <1>7, <1>10, <2>1, ConsecutiveConcat
<1> HIDE DEF upToProducer
<1>12. Consecutive(upToProducer \o WithQueue(s), 0)
       /\ Len(upToProducer \o WithQueue(s)) = Len(accepted[s])
  <2>1. Consecutive(WithQueue(s), 0 + Len(upToProducer))
    BY <1>6, <1>8, <1>11
  <2> QED BY <1>2, <1>6, <1>8, <1>11, <2>1, ConsecutiveConcat
<1>13. accepted[s] = upToProducer \o WithQueue(s)
  BY <1>3, <1>12, ConsecutiveSame
<1> QED BY <1>13 DEF upToProducer, upToBuffer, upToConsumer

(* No publish is lost, repeated or overtaken between publish() and the     *)
(* send: at every moment what a source gave is what was forwarded, then    *)
(* what the consumer holds, the buffer's share, what the producer holds    *)
(* and what is queued, in this order.                                      *)
THEOREM OrderIsConserved == Spec => []PipelineConservesOrder
<1>1. WakeInv /\ DataInv /\ PipelineInv => PipelineConservesOrder
  BY NumbersMakeTheOrder DEF PipelineConservesOrder
<1> QED BY <1>1, PipelineInvIsInvariant, WakeInvIsInvariant, DataInvIsInvariant, PTL

-----------------------------------------------------------------------------
(* The queues, of which the above knows no more than that they are queues: *)
(* the linked list of message_queue.cpp is one, for every set of messages  *)
(* and every set of addresses.                                             *)
ListInv == MessageQueueTypeOK /\ ListIntact

(* The queue is empty exactly when head is NULL, the test both operations  *)
(* and both of their callers make.                                         *)
LEMMA HeadIsNull == ListInv => (head = NULL <=> cells = << >>)
  BY MessageQueueAssumption DEF ListInv, MessageQueueTypeOK, ListIntact

(* Linking a node behind the last one keeps the list intact.               *)
LEMMA EnqueueKeepsList ==
  ASSUME ListInv, NEW m \in Message, enqueue_unsafe(m)
  PROVE  ListInv'
<1> USE MessageQueueAssumption
<1>1. PICK node \in Address \ allocated :
        /\ allocated' = allocated \cup {node}
        /\ tail' = node
        /\ cells' = Append(cells, node)
        /\ IF head = NULL
             THEN /\ head' = node
                  /\ heap' = [heap EXCEPT ![node] = [message |-> m, next |-> NULL]]
             ELSE /\ head' = head
                  /\ heap' = [heap EXCEPT ![tail].next = node,
                                          ![node] = [message |-> m, next |-> NULL]]
        /\ UNCHANGED message
  BY DEF enqueue_unsafe
<1>2. /\ cells \in Seq(Address)
      /\ Len(cells') = Len(cells) + 1
      /\ \A i \in 1 .. Len(cells) : cells'[i] = cells[i]
      /\ cells'[Len(cells) + 1] = node
      /\ cells' \in Seq(Address)
  BY <1>1, AppendProperties DEF ListInv, MessageQueueTypeOK
<1>3. \A i \in 1 .. Len(cells) : cells[i] \in Address /\ cells[i] # node
  BY <1>1 DEF ListInv, MessageQueueTypeOK, ListIntact
<1>4. MessageQueueTypeOK'
  <2>1. heap' \in [Address -> MessageQueueNode]
    <3>1. CASE head = NULL
      BY <3>1, <1>1 DEF ListInv, MessageQueueTypeOK, MessageQueueNode
    <3>2. CASE head # NULL
      BY <3>2, <1>1 DEF ListInv, MessageQueueTypeOK, MessageQueueNode
    <3> QED BY <3>1, <3>2
  <2> QED BY <2>1, <1>1, <1>2 DEF ListInv, MessageQueueTypeOK
<1>5. CASE cells = << >>
  <2>1. head = NULL /\ Len(cells) = 0
    BY <1>5, HeadIsNull
  <2>2. /\ head' = node
        /\ heap'[node] = [message |-> m, next |-> NULL]
        /\ allocated = {}
    BY <2>1, <1>1 DEF ListInv, MessageQueueTypeOK, ListIntact
  <2>3. ListIntact'
    BY <2>1, <2>2, <1>1, <1>2 DEF ListIntact
  <2> QED BY <2>3, <1>4 DEF ListInv
<1>6. CASE cells # << >>
  <2>1. /\ Len(cells) \in Nat \ {0}
        /\ head # NULL
        /\ tail = cells[Len(cells)]
        /\ tail \in Address /\ tail # node
    BY <1>6, <1>2, <1>3, HeadIsNull, EmptySeq DEF ListInv, ListIntact
  <2>2. /\ head' = cells[1]
        /\ heap'[node] = [message |-> m, next |-> NULL]
        /\ heap'[tail] = [heap[tail] EXCEPT !.next = node]
        /\ \A a \in Address \ {tail, node} : heap'[a] = heap[a]
    BY <2>1, <1>1, <1>6 DEF ListInv, MessageQueueTypeOK, ListIntact
  <2>3. \A i \in 1 .. Len(cells) : cells[i] = tail <=> i = Len(cells)
    BY <2>1 DEF ListInv, ListIntact
  <2>4. head' = IF cells' = << >> THEN NULL ELSE cells'[1]
    BY <2>1, <2>2, <1>2
  <2>5. ASSUME NEW i \in 1 .. Len(cells')
        PROVE  /\ heap'[cells'[i]].message \in Message
               /\ heap'[cells'[i]].next =
                    IF i = Len(cells') THEN NULL ELSE cells'[i + 1]
    <3>1. CASE i = Len(cells) + 1
      BY <3>1, <2>2, <1>2
    <3>2. CASE i = Len(cells)
      <4>1. cells'[i] = tail /\ cells'[i + 1] = node
        BY <3>2, <2>1, <1>2
      <4>2. heap[tail] \in MessageQueueNode /\ heap[tail].message \in Message
        BY <3>2, <2>1 DEF ListInv, MessageQueueTypeOK, ListIntact
      <4> QED BY <4>1, <4>2, <3>2, <2>1, <2>2, <1>2 DEF MessageQueueNode
    <3>3. CASE i \in 1 .. Len(cells) - 1
      <4>1. /\ cells'[i] = cells[i] /\ cells'[i + 1] = cells[i + 1]
            /\ cells[i] \in Address \ {tail, node}
        BY <3>3, <2>1, <2>3, <1>2, <1>3
      <4> QED BY <4>1, <3>3, <2>1, <2>2, <1>2 DEF ListInv, ListIntact
    <3> QED BY <3>1, <3>2, <3>3, <2>1, <1>2
  <2>6. tail' = cells'[Len(cells')]
    BY <1>1, <1>2
  <2>7. allocated' = {cells'[i] : i \in 1 .. Len(cells')}
    BY <1>1, <1>2, <2>1 DEF ListInv, ListIntact
  <2>8. \A i, j \in 1 .. Len(cells') : cells'[i] = cells'[j] => i = j
    BY <1>2, <1>3, <2>1 DEF ListInv, ListIntact
  <2>9. ListIntact'
    BY <2>4, <2>5, <2>6, <2>7, <2>8 DEF ListIntact
  <2> QED BY <2>9, <1>4 DEF ListInv
<1> QED BY <1>5, <1>6

(* Unlinking the head keeps the list intact, although tail is left alone.  *)
LEMMA DequeueKeepsList ==
  ASSUME ListInv, dequeue_unsafe
  PROVE  ListInv'
<1> USE MessageQueueAssumption
<1>1. cells \in Seq(Address) /\ cells # << >> /\ head = cells[1]
  BY HeadIsNull DEF ListInv, MessageQueueTypeOK, ListIntact, dequeue_unsafe
<1>2. /\ Len(cells) \in Nat \ {0}
      /\ cells' = Tail(cells)
      /\ cells' \in Seq(Address)
      /\ Len(cells') = Len(cells) - 1
      /\ \A i \in 1 .. Len(cells) - 1 : cells'[i] = cells[i + 1]
  BY <1>1, HeadTailProperties, EmptySeq DEF dequeue_unsafe
<1>3. MessageQueueTypeOK'
  <2>1. head \in Address /\ 1 \in 1 .. Len(cells)
    BY <1>1, <1>2 DEF ListInv, MessageQueueTypeOK
  <2>2. heap[head].message \in Message /\ heap[head].next \in Address \cup {NULL}
    <3>1. /\ heap[cells[1]].message \in Message
          /\ heap[cells[1]].next = IF 1 = Len(cells) THEN NULL ELSE cells[1 + 1]
      BY <2>1 DEF ListInv, ListIntact
    <3>2. 1 # Len(cells) => cells[1 + 1] \in Address
      BY <1>1, <1>2
    <3> QED BY <3>1, <3>2, <1>1
  <2> QED BY <2>1, <2>2, <1>2 DEF ListInv, MessageQueueTypeOK, dequeue_unsafe
<1>4. cells' = << >> <=> Len(cells) = 1
  <2>1. cells' = << >> <=> Len(cells') = 0
    BY <1>2, EmptySeq
  <2> QED BY <2>1, <1>2
<1>5. head' = IF cells' = << >> THEN NULL ELSE cells'[1]
  <2>1. heap[cells[1]].next = IF 1 = Len(cells) THEN NULL ELSE cells[1 + 1]
    <3>1. 1 \in 1 .. Len(cells)
      BY <1>2
    <3> QED BY <3>1 DEF ListInv, ListIntact
  <2>2. head' = heap[cells[1]].next
    BY <1>1 DEF dequeue_unsafe
  <2> QED BY <2>1, <2>2, <1>2, <1>4
<1>6. ASSUME NEW i \in 1 .. Len(cells')
      PROVE  /\ heap'[cells'[i]].message \in Message
             /\ heap'[cells'[i]].next = IF i = Len(cells') THEN NULL ELSE cells'[i + 1]
  <2>1. i + 1 \in 1 .. Len(cells) /\ cells'[i] = cells[i + 1] /\ heap' = heap
    BY <1>2 DEF dequeue_unsafe
  <2>2. /\ heap[cells[i + 1]].message \in Message
        /\ heap[cells[i + 1]].next =
             IF i + 1 = Len(cells) THEN NULL ELSE cells[(i + 1) + 1]
    BY <2>1 DEF ListInv, ListIntact
  <2>3. i # Len(cells') => cells'[i + 1] = cells[(i + 1) + 1]
    <3> SUFFICES ASSUME i # Len(cells') PROVE cells'[i + 1] = cells[(i + 1) + 1]
      OBVIOUS
    <3>1. i + 1 \in 1 .. Len(cells) - 1
      <4>1. Len(cells') = Len(cells) - 1 /\ Len(cells) \in Nat \ {0}
        BY <1>2
      <4> QED BY <4>1
    <3> QED BY <3>1, <1>2
  <2>4. i = Len(cells') <=> i + 1 = Len(cells)
    BY <1>2
  <2> QED BY <2>1, <2>2, <2>3, <2>4
<1>7. cells' # << >> => tail' = cells'[Len(cells')]
  <2>1. tail' = cells[Len(cells)]
    BY <1>1 DEF ListInv, ListIntact, dequeue_unsafe
  <2>2. Len(cells) # 1 => cells'[Len(cells')] = cells[Len(cells)]
    BY <1>2
  <2> QED BY <2>1, <2>2, <1>4
<1>8. allocated' = {cells'[i] : i \in 1 .. Len(cells')}
  <2>1. /\ allocated' = allocated \ {cells[1]}
        /\ allocated = {cells[i] : i \in 1 .. Len(cells)}
    BY <1>1 DEF ListInv, ListIntact, dequeue_unsafe
  <2>4. \A i \in 1 .. Len(cells) : cells[i] = cells[1] => i = 1
    <3>1. 1 \in 1 .. Len(cells)
      BY <1>2
    <3> QED BY <3>1 DEF ListInv, ListIntact
  <2>2. \A i \in 2 .. Len(cells) : i - 1 \in 1 .. Len(cells') /\ cells'[i - 1] = cells[i]
    BY <1>2
  <2>3. \A i \in 1 .. Len(cells') : i + 1 \in 2 .. Len(cells) /\ cells'[i] = cells[i + 1]
    BY <1>2
  <2> QED BY <2>1, <2>4, <2>2, <2>3, <1>2
<1>9. \A i, j \in 1 .. Len(cells') : cells'[i] = cells'[j] => i = j
  <2> SUFFICES ASSUME NEW i \in 1 .. Len(cells'), NEW j \in 1 .. Len(cells'),
                      cells'[i] = cells'[j]
               PROVE  i = j
    OBVIOUS
  <2>1. /\ i + 1 \in 1 .. Len(cells) /\ j + 1 \in 1 .. Len(cells)
        /\ cells[i + 1] = cells[j + 1]
    BY <1>2
  <2>2. i + 1 = j + 1
    BY <2>1 DEF ListInv, ListIntact
  <2> QED BY <2>2, <1>2
<1>10. ListIntact'
  BY <1>5, <1>6, <1>7, <1>8, <1>9 DEF ListIntact
<1> QED BY <1>3, <1>10 DEF ListInv

LEMMA StartsIntact == initialize_message_queue => ListInv
<1> SUFFICES ASSUME initialize_message_queue PROVE ListInv
  OBVIOUS
<1>1. cells = << >> /\ cells \in Seq(Address) /\ Len(cells) = 0
  BY EmptySeq DEF initialize_message_queue
<1>2. MessageQueueTypeOK
  BY <1>1 DEF initialize_message_queue, MessageQueueTypeOK, MessageQueueNode
<1>3. ListIntact
  BY <1>1 DEF initialize_message_queue, ListIntact
<1> QED BY <1>2, <1>3 DEF ListInv

LEMMA ListInvIsInvariant == MessageQueueSpec => []ListInv
<1> USE MessageQueueAssumption
<1>1. initialize_message_queue => ListInv
  BY StartsIntact
<1>2. ListInv /\ [MessageQueueNext]_messageQueueVars => ListInv'
  <2>1. ASSUME ListInv, UNCHANGED messageQueueVars PROVE ListInv'
    BY <2>1 DEF messageQueueVars, ListInv, MessageQueueTypeOK, ListIntact
  <2> QED BY <2>1, EnqueueKeepsList, DequeueKeepsList DEF MessageQueueNext
<1> QED BY <1>1, <1>2, PTL DEF MessageQueueSpec

-----------------------------------------------------------------------------
(* The variables of a message queue stay in their types.                   *)
THEOREM MessageQueueTyped == MessageQueueSpec => []MessageQueueTypeOK
  BY ListInvIsInvariant, PTL DEF ListInv

(* enqueue_unsafe() never follows a dangling tail, dequeue_unsafe() frees  *)
(* each node once, and no node is lost: for every number of nodes and      *)
(* every choice malloc() makes.                                            *)
THEOREM ListStaysIntact == MessageQueueSpec => []ListIntact
  BY ListInvIsInvariant, PTL DEF ListInv

(* Two sequences that agree on every index are the same.                   *)
LEMMA SameSequence ==
  ASSUME NEW S, NEW s \in Seq(S), NEW t \in Seq(S), Len(s) = Len(t),
         \A i \in 1 .. Len(s) : s[i] = t[i]
  PROVE  s = t
  BY LenProperties

QueuedFollowsList ==
    /\ Len(cells) \in Nat
    /\ Queued \in Seq(Message)
    /\ Len(Queued) = Len(cells)
    /\ \A i \in 1 .. Len(cells) : Queued[i] = heap[cells[i]].message

(* What the list holds is a sequence of messages, one per node: in a       *)
(* state that satisfies ListInv, and in the state after a step that keeps it.  *)
LEMMA QueuedIsSequence == ListInv => QueuedFollowsList
<1> SUFFICES ASSUME ListInv PROVE QueuedFollowsList
  OBVIOUS
<1>1. Len(cells) \in Nat
  BY LenProperties DEF ListInv, MessageQueueTypeOK
<1>2. Queued \in [1 .. Len(cells) -> Message]
  BY DEF ListInv, ListIntact, Queued
<1>3. Queued \in Seq(Message)
  BY <1>1, <1>2
<1>4. Len(Queued) = Len(cells)
  BY <1>1, <1>3, LenProperties DEF Queued
<1> QED BY <1>1, <1>3, <1>4 DEF Queued, QueuedFollowsList

LEMMA QueuedIsSequenceNext == ListInv' => QueuedFollowsList'
  BY QueuedIsSequence, PTL

(* enqueue_unsafe() adds its message at the end of the queue and touches   *)
(* nothing that is already in it.                                          *)
LEMMA EnqueueAdds ==
  ASSUME ListInv, NEW m \in Message, enqueue_unsafe(m)
  PROVE  Nodes!Add(m)
<1> USE MessageQueueAssumption
<1>1. ListInv'
  BY EnqueueKeepsList
<1>2. /\ Queued \in Seq(Message) /\ Len(Queued) = Len(cells) /\ Len(cells) \in Nat
      /\ \A i \in 1 .. Len(cells) : Queued[i] = heap[cells[i]].message
  BY QueuedIsSequence DEF QueuedFollowsList
<1>3. /\ Queued' \in Seq(Message) /\ Len(Queued') = Len(cells')
      /\ \A i \in 1 .. Len(cells') : Queued'[i] = heap'[cells'[i]].message
  BY <1>1, QueuedIsSequenceNext DEF QueuedFollowsList
<1>4. PICK node \in Address \ allocated :
        /\ cells' = Append(cells, node)
        /\ heap'[node].message = m
        /\ \A a \in Address \ {node} : heap'[a].message = heap[a].message
  <2>1. PICK node \in Address \ allocated :
          /\ cells' = Append(cells, node)
          /\ IF head = NULL
               THEN heap' = [heap EXCEPT ![node] = [message |-> m, next |-> NULL]]
               ELSE heap' = [heap EXCEPT ![tail].next = node,
                                         ![node] = [message |-> m, next |-> NULL]]
    BY DEF enqueue_unsafe
  <2>2. heap \in [Address -> MessageQueueNode]
    BY DEF ListInv, MessageQueueTypeOK
  <2>3. CASE head = NULL
    BY <2>1, <2>2, <2>3
  <2>4. CASE head # NULL
    BY <2>1, <2>2, <2>4 DEF MessageQueueNode
  <2> QED BY <2>3, <2>4
<1>5. /\ cells \in Seq(Address)
      /\ Len(cells') = Len(cells) + 1
      /\ \A i \in 1 .. Len(cells) : cells'[i] = cells[i]
      /\ cells'[Len(cells) + 1] = node
  BY <1>4, AppendProperties DEF ListInv, MessageQueueTypeOK
<1>6. \A i \in 1 .. Len(cells) : cells[i] \in Address \ {node}
  BY <1>5, <1>4 DEF ListInv, ListIntact
<1>7. /\ Append(Queued, m) \in Seq(Message)
      /\ Len(Append(Queued, m)) = Len(cells) + 1
      /\ \A i \in 1 .. Len(cells) : Append(Queued, m)[i] = Queued[i]
      /\ Append(Queued, m)[Len(cells) + 1] = m
  BY <1>2, AppendProperties
<1>8. \A i \in 1 .. Len(cells) + 1 : Queued'[i] = Append(Queued, m)[i]
  <2> TAKE i \in 1 .. Len(cells) + 1
  <2>1. CASE i = Len(cells) + 1
    BY <2>1, <1>2, <1>3, <1>4, <1>5, <1>7
  <2>2. CASE i \in 1 .. Len(cells)
    BY <2>2, <1>2, <1>3, <1>4, <1>5, <1>6, <1>7
  <2> QED BY <2>1, <2>2, <1>2
<1>9. Queued' = Append(Queued, m)
  BY <1>3, <1>5, <1>7, <1>8, SameSequence
<1> QED BY <1>9 DEF Nodes!Add, enqueue_unsafe

(* dequeue_unsafe() returns the message at the front and removes only it.  *)
LEMMA DequeueTakes ==
  ASSUME ListInv, dequeue_unsafe
  PROVE  Nodes!Take
<1> USE MessageQueueAssumption
<1>1. ListInv'
  BY DequeueKeepsList
<1>2. /\ Queued \in Seq(Message) /\ Len(Queued) = Len(cells) /\ Len(cells) \in Nat
      /\ \A i \in 1 .. Len(cells) : Queued[i] = heap[cells[i]].message
  BY QueuedIsSequence DEF QueuedFollowsList
<1>3. /\ Queued' \in Seq(Message) /\ Len(Queued') = Len(cells')
      /\ \A i \in 1 .. Len(cells') : Queued'[i] = heap'[cells'[i]].message
  BY <1>1, QueuedIsSequenceNext DEF QueuedFollowsList
<1>4. cells \in Seq(Address) /\ cells # << >> /\ head = cells[1]
  BY HeadIsNull DEF ListInv, MessageQueueTypeOK, ListIntact, dequeue_unsafe
<1>5. /\ Len(cells) \in Nat \ {0}
      /\ Len(cells') = Len(cells) - 1
      /\ \A i \in 1 .. Len(cells) - 1 : cells'[i] = cells[i + 1]
  BY <1>4, HeadTailProperties, EmptySeq DEF dequeue_unsafe
<1>6. Queued # << >>
  BY <1>2, <1>5, EmptySeq
<1>7. message' = Head(Queued)
  <2>1. Head(Queued) = Queued[1]
    BY <1>2, <1>6
  <2>2. Queued[1] = heap[cells[1]].message
    BY <1>2, <1>5
  <2> QED BY <2>1, <2>2, <1>4 DEF dequeue_unsafe
<1>8. /\ Tail(Queued) \in Seq(Message)
      /\ Len(Tail(Queued)) = Len(cells) - 1
      /\ \A i \in 1 .. Len(cells) - 1 : Tail(Queued)[i] = Queued[i + 1]
  BY <1>2, <1>6, HeadTailProperties
<1>9. \A i \in 1 .. Len(cells) - 1 : Queued'[i] = Tail(Queued)[i]
  BY <1>2, <1>3, <1>5, <1>8 DEF dequeue_unsafe
<1>10. Queued' = Tail(Queued)
  BY <1>3, <1>5, <1>8, <1>9, SameSequence
<1> QED BY <1>6, <1>7, <1>10 DEF Nodes!Take

(* The linked list implements the abstract queue, whichever free address   *)
(* malloc() places each node at: messages come out in the order they were  *)
(* enqueued, each once.                                                    *)
THEOREM MessageQueueIsFifo == MessageQueueSpec => QueueImplementsFifo
<1> USE MessageQueueAssumption
<1>1. initialize_message_queue => Nodes!Init
  <2> SUFFICES ASSUME initialize_message_queue PROVE Nodes!Init
    OBVIOUS
  <2>1. ListInv /\ Len(cells) = 0
    BY EmptySeq, StartsIntact DEF initialize_message_queue
  <2>2. Queued \in Seq(Message) /\ Len(Queued) = 0
    BY <2>1, QueuedIsSequence DEF QueuedFollowsList
  <2> QED BY <2>2, EmptySeq DEF Nodes!Init, initialize_message_queue
<1>2. ListInv /\ [MessageQueueNext]_messageQueueVars => [Nodes!Next]_Nodes!fifoVars
  <2> SUFFICES ASSUME ListInv, [MessageQueueNext]_messageQueueVars
               PROVE  [Nodes!Next]_Nodes!fifoVars
    OBVIOUS
  <2>1. CASE UNCHANGED messageQueueVars
    BY <2>1 DEF messageQueueVars, Nodes!fifoVars, Queued
  <2>2. CASE dequeue_unsafe
    BY <2>2, DequeueTakes DEF Nodes!Next
  <2>3. ASSUME NEW m \in Message, enqueue_unsafe(m)
        PROVE  Nodes!Next
    BY <2>3, EnqueueAdds DEF Nodes!Next
  <2> QED BY <2>1, <2>2, <2>3 DEF MessageQueueNext
<1> QED BY <1>1, <1>2, ListInvIsInvariant, PTL DEF MessageQueueSpec, QueueImplementsFifo, Nodes!Spec
=============================================================================
