--------------------------- MODULE BrokerThreads ----------------------------
(***************************************************************************)
(* The broker's threads: main, one producer thread per topic, and the      *)
(* consumer thread; the critical sections and condition variables they     *)
(* meet at; their start-up and their shutdown (broker.cpp, message_queue.  *)
(* cpp, outgoing_buffer.cpp, global.cpp, mad.cpp).                         *)
(*                                                                         *)
(* A step is what a thread does between two points where another thread    *)
(* can get in: entering a critical section, going to sleep, and reading    *)
(* shutting_down.flag, which is under a critical section of its own, are   *)
(* steps of their own.  A message queue is the sequence that MessageQueue  *)
(* proves the linked list to be; the outgoing buffer is OutgoingBuffer.    *)
(***************************************************************************)
EXTENDS Integers, Sequences, FiniteSets, Selection

CONSTANTS Topics,                    \* a topic, and the producer thread that serves it
          Main, Consumer,            \* the other two threads
          None,                      \* NULL; a lock nobody has
          MAX_OUTGOING_BUFFER_SIZE,
          MaxAccepted                \* bound: messages per topic, and responses

Source == Topics \cup {Main}         \* who calls produce_new_message()
Threads == Source \cup {Consumer}

(* A message is its number within its source.                              *)
Element == [source : Source, message : Nat]

ASSUME BrokerThreadsAssumption ==
    /\ IsFiniteSet(Topics)
    /\ Main \notin Topics /\ Consumer \notin Topics /\ Main # Consumer
    /\ None \notin Threads \cup Nat \cup Element
    /\ MAX_OUTGOING_BUFFER_SIZE \in Nat \ {0}
    /\ MaxAccepted \in Nat

(* Where a thread can be: in each function, and in each wait loop.         *)
Label == {"create_threads", "connect_to_sm", "serve",
          "shut_down_threads", "wake_queues", "await_threads", "await_asleep",
          "not_created", "failed", "signal_shut_down", "done",
          "produce", "dequeue", "dequeue_while", "dequeue_sleep", "dequeue_asleep",
          "dequeue_if", "produce_new_message", "produce_while", "produce_sleep",
          "produce_asleep", "produce_if",
          "consume", "consume_enter", "consume_while", "consume_sleep",
          "consume_asleep", "consume_get", "consume_if", "send", "send_locked"}

VARIABLES
    process,                         \* "running", "exited" or "crashed"
    pc,                              \* where each thread is
    flag, num_of_shut_down_threads,  \* shutting_down
    to_wake,                         \* topics shut_down_threads() has not woken yet
    shut_down_cv,                    \* condition variables: the threads asleep on each
    mq, mq_lock, mq_cv,              \* each topic's message queue
    array, fill_idx, use_idx, count, \* the outgoing buffer
    element,                         \* what the consumer got from it last
    ob_lock, empty_cv, fill_cv,
    held,                            \* the message a thread is about to produce
    accepted, forwarded              \* history: see TopicLog

OB == INSTANCE OutgoingBuffer WITH OutgoingBufferElement <- Element,
                                   Unfilled <- None
bufferVars == <<array, fill_idx, use_idx, count, element>>
bufferSync == <<ob_lock, empty_cv, fill_cv>>
queueVars == <<mq, mq_lock, mq_cv>>
shutDownVars == <<flag, num_of_shut_down_threads, to_wake, shut_down_cv>>
historyVars == <<accepted, forwarded>>
vars == <<process, pc, shutDownVars, queueVars, bufferVars, bufferSync, held, historyVars>>

initialize ==
    /\ process = "running"
    /\ pc = [th \in Threads |-> IF th = Main THEN "create_threads" ELSE "not_created"]
    /\ flag = FALSE
    /\ num_of_shut_down_threads = 0
    /\ to_wake = Topics
    /\ shut_down_cv = {}
    /\ mq = [t \in Topics |-> << >>]
    /\ mq_lock = [t \in Topics |-> None]
    /\ mq_cv = [t \in Topics |-> {}]
    /\ OB!initialize_outgoing_buffer
    /\ ob_lock = None
    /\ empty_cv = {}
    /\ fill_cv = {}
    /\ held = [s \in Source |-> None]
    /\ accepted = [s \in Source |-> << >>]
    /\ forwarded = [s \in Source |-> << >>]

GoTo(th, label) == pc' = [pc EXCEPT ![th] = label]

(* WakeConditionVariable(): one of the sleepers, when there is any.        *)
WokenOne(cv, woken) == IF cv = {} THEN woken = {} ELSE \E th \in cv : woken = cv \ {th}

(* The tests of the three wait loops ...                                   *)
QueueEmptyIgnoringFlag(t) == mq[t] = << >>                          \* mutant
QueueEmpty(t) == mq[t] = << >> /\ ~flag

BufferFullLate == count > MAX_OUTGOING_BUFFER_SIZE /\ ~flag         \* mutant
BufferFull == count = MAX_OUTGOING_BUFFER_SIZE /\ ~flag

BufferEmptyIgnoringFlag == count = 0                                \* mutant
BufferEmpty == count = 0 /\ ~flag

(* ... and the wake-ups that end them.                                     *)
ForgetToWakeQueue(t) == UNCHANGED mq_cv                             \* mutant
WakeQueueCV(t) == \E woken \in SUBSET mq_cv[t] :
                    /\ WokenOne(mq_cv[t], woken)
                    /\ mq_cv' = [mq_cv EXCEPT ![t] = woken]

WakeEmptyCVWhenFull ==                                              \* mutant
    IF count + 1 = MAX_OUTGOING_BUFFER_SIZE
      THEN WokenOne(empty_cv, empty_cv') ELSE UNCHANGED empty_cv
ForgetToWakeEmptyCV == UNCHANGED empty_cv                           \* mutant
WakeEmptyCV == WokenOne(empty_cv, empty_cv')

WakeOnlyProducers == empty_cv' = {} /\ UNCHANGED fill_cv            \* mutant
WakeBothCVs == empty_cv' = {} /\ fill_cv' = {}

-----------------------------------------------------------------------------
(* main thread: create_and_start_threads().                                *)
CreateThread(th) ==
    /\ pc[Main] = "create_threads"
    /\ pc[th] = "not_created"
    /\ \E started \in BOOLEAN :
          GoTo(th, IF ~started THEN "failed"
                   ELSE IF th = Consumer THEN "consume" ELSE "produce")
    /\ UNCHANGED <<process, shutDownVars, queueVars, bufferVars, bufferSync, held, historyVars>>

ThreadsCreated ==
    /\ pc[Main] = "create_threads"
    /\ \A th \in Threads : pc[th] # "not_created"
    /\ GoTo(Main, IF \E th \in Threads : pc[th] = "failed"
                    THEN "shut_down_threads" ELSE "connect_to_sm")
    /\ UNCHANGED <<process, shutDownVars, queueVars, bufferVars, bufferSync, held, historyVars>>

(* exit(16), with the other threads running, when the StatsManager does    *)
(* not answer.                                                             *)
connect_to_sm ==
    /\ pc[Main] = "connect_to_sm"
    /\ \/ process' = "exited" /\ UNCHANGED pc
       \/ GoTo(Main, "serve") /\ UNCHANGED process
    /\ UNCHANGED <<shutDownVars, queueVars, bufferVars, bufferSync, held, historyVars>>

(* A publish command: enqueue().                                           *)
enqueue(t) ==
    /\ pc[Main] = "serve"
    /\ Len(accepted[t]) < MaxAccepted
    /\ mq_lock[t] = None
    /\ LET message == Len(accepted[t]) + 1
       IN  /\ mq' = [mq EXCEPT ![t] = Append(@, message)]
           /\ accepted' = [accepted EXCEPT ![t] = Append(@, message)]
    /\ WakeQueueCV(t)
    /\ UNCHANGED <<process, pc, shutDownVars, mq_lock, bufferVars, bufferSync, held, forwarded>>

(* Any other command: its response goes straight to the outgoing buffer.   *)
execute_command_and_produce ==
    /\ pc[Main] = "serve"
    /\ Len(accepted[Main]) < MaxAccepted
    /\ held' = [held EXCEPT ![Main] = Len(accepted[Main]) + 1]
    /\ accepted' = [accepted EXCEPT ![Main] = Append(@, held'[Main])]
    /\ GoTo(Main, "produce_new_message")
    /\ UNCHANGED <<process, shutDownVars, queueVars, bufferVars, bufferSync, forwarded>>

-----------------------------------------------------------------------------
(* Producer threads: produce() and dequeue().                              *)
produce(t) ==
    /\ pc[t] = "produce"
    /\ GoTo(t, IF flag THEN "signal_shut_down" ELSE "dequeue")
    /\ UNCHANGED <<process, shutDownVars, queueVars, bufferVars, bufferSync, held, historyVars>>

(* Entering the critical section, for the first time or after a sleep.     *)
DequeueEnter(t) ==
    /\ \/ pc[t] = "dequeue"
       \/ pc[t] = "dequeue_asleep" /\ t \notin mq_cv[t]
    /\ mq_lock[t] = None
    /\ mq_lock' = [mq_lock EXCEPT ![t] = t]
    /\ GoTo(t, "dequeue_while")
    /\ UNCHANGED <<process, shutDownVars, mq, mq_cv, bufferVars, bufferSync, held, historyVars>>

DequeueWhile(t) ==
    /\ pc[t] = "dequeue_while"
    /\ GoTo(t, IF QueueEmpty(t) THEN "dequeue_sleep" ELSE "dequeue_if")
    /\ UNCHANGED <<process, shutDownVars, queueVars, bufferVars, bufferSync, held, historyVars>>

DequeueSleep(t) ==
    /\ pc[t] = "dequeue_sleep"
    /\ mq_cv' = [mq_cv EXCEPT ![t] = @ \cup {t}]
    /\ mq_lock' = [mq_lock EXCEPT ![t] = None]
    /\ GoTo(t, "dequeue_asleep")
    /\ UNCHANGED <<process, shutDownVars, mq, bufferVars, bufferSync, held, historyVars>>

(* The flag is read again, after the loop.                                 *)
DequeueIf(t) ==
    /\ pc[t] = "dequeue_if"
    /\ LET empty == flag \/ mq[t] = << >>
       IN  /\ held' = [held EXCEPT ![t] = IF empty THEN None ELSE Head(mq[t])]
           /\ mq' = [mq EXCEPT ![t] = IF empty THEN @ ELSE Tail(@)]
    /\ mq_lock' = [mq_lock EXCEPT ![t] = None]
    /\ GoTo(t, "produce_new_message")
    /\ UNCHANGED <<process, shutDownVars, mq_cv, bufferVars, bufferSync, historyVars>>

-----------------------------------------------------------------------------
(* produce_new_message(), called by the producer threads and by main.      *)
ProduceEnter(s) ==
    /\ \/ pc[s] = "produce_new_message"
       \/ pc[s] = "produce_asleep" /\ s \notin empty_cv
    /\ ob_lock = None
    /\ ob_lock' = s
    /\ GoTo(s, "produce_while")
    /\ UNCHANGED <<process, shutDownVars, queueVars, bufferVars, empty_cv, fill_cv, held, historyVars>>

ProduceWhile(s) ==
    /\ pc[s] = "produce_while"
    /\ GoTo(s, IF BufferFull THEN "produce_sleep" ELSE "produce_if")
    /\ UNCHANGED <<process, shutDownVars, queueVars, bufferVars, bufferSync, held, historyVars>>

ProduceSleep(s) ==
    /\ pc[s] = "produce_sleep"
    /\ empty_cv' = empty_cv \cup {s}
    /\ ob_lock' = None
    /\ GoTo(s, "produce_asleep")
    /\ UNCHANGED <<process, shutDownVars, queueVars, bufferVars, fill_cv, held, historyVars>>

(* Once the flag is up the element is dropped.                             *)
ProduceIf(s) ==
    /\ pc[s] = "produce_if"
    /\ IF flag
         THEN UNCHANGED <<bufferVars, fill_cv>>
         ELSE /\ OB!put([source |-> s, message |-> held[s]])
              /\ WokenOne(fill_cv, fill_cv')
    /\ held' = [held EXCEPT ![s] = None]
    /\ ob_lock' = None
    /\ GoTo(s, IF s = Main THEN "serve" ELSE "produce")
    /\ UNCHANGED <<process, shutDownVars, queueVars, empty_cv, historyVars>>

-----------------------------------------------------------------------------
(* Consumer thread: consume().                                             *)
consume ==
    /\ pc[Consumer] = "consume"
    /\ GoTo(Consumer, IF flag THEN "signal_shut_down" ELSE "consume_enter")
    /\ UNCHANGED <<process, shutDownVars, queueVars, bufferVars, bufferSync, held, historyVars>>

ConsumeEnterOnce ==                                                 \* mutant: if, not while
    /\ \/ pc[Consumer] = "consume_enter" /\ GoTo(Consumer, "consume_while")
       \/ /\ pc[Consumer] = "consume_asleep" /\ Consumer \notin fill_cv
          /\ GoTo(Consumer, "consume_get")
    /\ ob_lock = None
    /\ ob_lock' = Consumer
    /\ UNCHANGED <<process, shutDownVars, queueVars, bufferVars, empty_cv, fill_cv, held, historyVars>>

ConsumeEnter ==
    /\ \/ pc[Consumer] = "consume_enter"
       \/ pc[Consumer] = "consume_asleep" /\ Consumer \notin fill_cv
    /\ ob_lock = None
    /\ ob_lock' = Consumer
    /\ GoTo(Consumer, "consume_while")
    /\ UNCHANGED <<process, shutDownVars, queueVars, bufferVars, empty_cv, fill_cv, held, historyVars>>

ConsumeWhile ==
    /\ pc[Consumer] = "consume_while"
    /\ GoTo(Consumer, IF BufferEmpty THEN "consume_sleep" ELSE "consume_get")
    /\ UNCHANGED <<process, shutDownVars, queueVars, bufferVars, bufferSync, held, historyVars>>

ConsumeSleep ==
    /\ pc[Consumer] = "consume_sleep"
    /\ fill_cv' = fill_cv \cup {Consumer}
    /\ ob_lock' = None
    /\ GoTo(Consumer, "consume_asleep")
    /\ UNCHANGED <<process, shutDownVars, queueVars, bufferVars, empty_cv, held, historyVars>>

(* get() is called whatever ended the loop, an empty buffer included.      *)
ConsumeGet ==
    /\ pc[Consumer] = "consume_get"
    /\ OB!get
    /\ GoTo(Consumer, "consume_if")
    /\ UNCHANGED <<process, shutDownVars, queueVars, bufferSync, held, historyVars>>

ConsumeIf ==
    /\ pc[Consumer] = "consume_if"
    /\ IF flag
         THEN GoTo(Consumer, "send_locked") /\ UNCHANGED bufferSync
         ELSE /\ WakeEmptyCV
              /\ ob_lock' = None
              /\ GoTo(Consumer, "send")
              /\ UNCHANGED fill_cv
    /\ UNCHANGED <<process, shutDownVars, queueVars, bufferVars, held, historyVars>>

(* send_subscription_message_or_response() and free(element.message).      *)
(* An element that was never put is read, sent and freed all the same:     *)
(* the process may crash, or live on.                                      *)
Send ==
    /\ pc[Consumer] \in {"send", "send_locked"}
    /\ IF element = None
         THEN UNCHANGED forwarded /\ process' \in {"running", "crashed"}
         ELSE /\ forwarded' = [forwarded EXCEPT
                    ![element.source] = Append(@, element.message)]
              /\ UNCHANGED process
    /\ IF pc[Consumer] = "send"
         THEN GoTo(Consumer, "consume") /\ UNCHANGED ob_lock
         ELSE GoTo(Consumer, "signal_shut_down") /\ ob_lock' = None
    /\ UNCHANGED <<shutDownVars, queueVars, bufferVars, empty_cv, fill_cv, held, accepted>>

-----------------------------------------------------------------------------
(* Shutdown: mutual_assured_destruction(), reached only from start-up.     *)
signal_shut_down(th) ==
    /\ pc[th] = "signal_shut_down"
    /\ num_of_shut_down_threads' = num_of_shut_down_threads + 1
    /\ shut_down_cv' = {}
    /\ GoTo(th, "done")
    /\ UNCHANGED <<process, flag, to_wake, queueVars, bufferVars, bufferSync, held, historyVars>>

SetFlag ==
    /\ pc[Main] = "shut_down_threads"
    /\ flag' = TRUE
    /\ GoTo(Main, "wake_queues")
    /\ UNCHANGED <<process, num_of_shut_down_threads, to_wake, shut_down_cv,
                   queueVars, bufferVars, bufferSync, held, historyVars>>

WakeQueue(t) ==
    /\ pc[Main] = "wake_queues"
    /\ t \in to_wake
    /\ mq_lock[t] = None
    /\ WakeQueueCV(t)
    /\ to_wake' = to_wake \ {t}
    /\ UNCHANGED <<process, pc, flag, num_of_shut_down_threads, shut_down_cv,
                   mq, mq_lock, bufferVars, bufferSync, held, historyVars>>

WakeBuffer ==
    /\ pc[Main] = "wake_queues"
    /\ to_wake = {}
    /\ ob_lock = None
    /\ WakeBothCVs
    /\ GoTo(Main, "await_threads")
    /\ UNCHANGED <<process, shutDownVars, queueVars, bufferVars, ob_lock, held, historyVars>>

(* The test, the sleep and signal_shut_down() share one critical section.  *)
(* Past the loop main frees everything and exit()s.                        *)
AwaitThreads ==
    /\ \/ pc[Main] = "await_threads"
       \/ pc[Main] = "await_asleep" /\ Main \notin shut_down_cv
    /\ IF num_of_shut_down_threads < Cardinality(Topics) + 1
         THEN /\ GoTo(Main, "await_asleep")
              /\ shut_down_cv' = {Main}
              /\ UNCHANGED process
         ELSE /\ process' = "exited"
              /\ UNCHANGED <<pc, shut_down_cv>>
    /\ UNCHANGED <<flag, num_of_shut_down_threads, to_wake,
                   queueVars, bufferVars, bufferSync, held, historyVars>>

-----------------------------------------------------------------------------
(* Windows may wake a sleeper that nobody signalled.                       *)
SpuriousWakeup ==
    /\ \/ \E t \in Topics : /\ mq_cv[t] # {}
                            /\ mq_cv' = [mq_cv EXCEPT ![t] = {}]
                            /\ UNCHANGED <<empty_cv, fill_cv, shut_down_cv>>
       \/ \E s \in empty_cv : /\ empty_cv' = empty_cv \ {s}
                              /\ UNCHANGED <<mq_cv, fill_cv, shut_down_cv>>
       \/ /\ fill_cv # {} /\ fill_cv' = {}
          /\ UNCHANGED <<mq_cv, empty_cv, shut_down_cv>>
       \/ /\ shut_down_cv # {} /\ shut_down_cv' = {}
          /\ UNCHANGED <<mq_cv, empty_cv, fill_cv>>
    /\ UNCHANGED <<process, pc, flag, num_of_shut_down_threads, to_wake,
                   mq, mq_lock, bufferVars, ob_lock, held, historyVars>>

produce_new_message(s) == ProduceEnter(s) \/ ProduceWhile(s) \/ ProduceSleep(s) \/ ProduceIf(s)

ProducerThread(t) ==
    \/ produce(t) \/ DequeueEnter(t) \/ DequeueWhile(t) \/ DequeueSleep(t) \/ DequeueIf(t)
    \/ produce_new_message(t)
    \/ signal_shut_down(t)

ConsumerThread ==
    \/ consume \/ ConsumeEnter \/ ConsumeWhile \/ ConsumeSleep
    \/ ConsumeGet \/ ConsumeIf \/ Send
    \/ signal_shut_down(Consumer)

MainCommands == execute_command_and_produce \/ \E t \in Topics : enqueue(t)

(* What main does without waiting for a client.                            *)
MainThread ==
    \/ \E th \in Topics \cup {Consumer} : CreateThread(th)
    \/ ThreadsCreated \/ connect_to_sm
    \/ produce_new_message(Main)
    \/ SetFlag \/ WakeBuffer \/ AwaitThreads
    \/ \E t \in Topics : WakeQueue(t)

Next == /\ process = "running"
        /\ \/ MainThread \/ MainCommands \/ ConsumerThread
           \/ \E t \in Topics : ProducerThread(t)
           \/ SpuriousWakeup

(* send_to_client() waits, without a time limit, until the client's socket *)
(* takes more.                                                             *)
AwaitsClient == pc[Consumer] \in {"send", "send_locked"} /\ element # None

(* Every thread keeps being scheduled and, as Windows documents for        *)
(* critical sections, every thread that waits to enter one gets its turn.  *)
(* That a client reads what the broker sends is not assumed.               *)
Running(A) == process = "running" /\ A
Fairness == /\ SF_vars(Running(MainThread))
            /\ SF_vars(Running(ConsumerThread /\ ~AwaitsClient))
            /\ \A t \in Topics : SF_vars(Running(ProducerThread(t)))

Spec == initialize /\ [][Next]_vars
FairSpec == Spec /\ Fairness
-----------------------------------------------------------------------------
BrokerThreadsTypeOK ==
    /\ process \in {"running", "exited", "crashed"}
    /\ pc \in [Threads -> Label]
    /\ flag \in BOOLEAN
    /\ num_of_shut_down_threads \in Nat
    /\ to_wake \subseteq Topics
    /\ shut_down_cv \subseteq {Main}
    /\ mq \in [Topics -> Seq(Nat)]
    /\ mq_lock \in [Topics -> Topics \cup {None}]
    /\ mq_cv \in [Topics -> SUBSET Topics]
    /\ array \in [OB!Index -> Element \cup {None}]
    /\ fill_idx \in OB!Index
    /\ use_idx \in OB!Index
    /\ count \in -1 .. MAX_OUTGOING_BUFFER_SIZE
    /\ element \in Element \cup {None}
    /\ ob_lock \in Threads \cup {None}
    /\ empty_cv \subseteq Source
    /\ fill_cv \subseteq {Consumer}
    /\ held \in [Source -> Nat \cup {None}]
    /\ accepted \in [Source -> Seq(Nat)]
    /\ forwarded \in [Source -> Seq(Nat)]

(* No message is lost, repeated or overtaken on its way from the client's  *)
(* command to the network: what was accepted from a source is, in order,   *)
(* what was forwarded, what the consumer holds, what is in the buffer,     *)
(* what the producer holds and what is in the topic's queue.               *)
InBuffer(s) ==
    IF count <= 0 THEN << >>
    ELSE LET own == Selected(OB!Contents, {i \in 1 .. count : OB!Contents[i].source = s})
         IN  [i \in 1 .. Len(own) |-> own[i].message]
WithConsumer(s) ==
    IF pc[Consumer] \in {"consume_if", "send", "send_locked"} /\ element # None
         /\ element.source = s
      THEN <<element.message>> ELSE << >>
WithProducer(s) == IF held[s] = None THEN << >> ELSE <<held[s]>>
WithQueue(s) == IF s \in Topics THEN mq[s] ELSE << >>

PipelineConservesOrder ==
    \A s \in Source :
        accepted[s] = forwarded[s] \o WithConsumer(s) \o InBuffer(s)
                        \o WithProducer(s) \o WithQueue(s)

(* The same promise as an abstract specification.                          *)
Log == INSTANCE TopicLog WITH Message <- 1 .. MaxAccepted
ImplementsTopicLog == Log!Spec

(* While the broker serves, whatever the threads do between their tests    *)
(* and their calls, put() meets a free slot and get() a filled one.        *)
BufferUsedWithinBounds == ~flag => OB!OutgoingBufferTypeOK /\ OB!IndicesAgree

(* No wake-up is lost.  A producer sleeps on its queue only while it is    *)
(* empty; during shutdown only if main has still to come and wake it, even *)
(* when the flag went up between its test and its sleep.                   *)
SleepingProducerHasNoWork ==
    \A t \in Topics : mq_cv[t] # {} =>
        IF flag THEN t \in to_wake ELSE mq[t] = << >>

(* The same for the consumer thread and the outgoing buffer.               *)
SleepingConsumerHasNoWork ==
    fill_cv # {} =>
        IF flag THEN pc[Main] \in {"wake_queues", "shut_down_threads"} ELSE count = 0

(* consume() wakes one of the threads that wait for a slot per element it  *)
(* removes.  Threads never stay asleep beside more free slots than threads *)
(* are on their way to fill.                                               *)
OnTheirWay == {s \in Source : \/ pc[s] = "produce_asleep" /\ s \notin empty_cv
                              \/ pc[s] \in {"produce_while", "produce_if"}}
FreeSlotHasATaker ==
    empty_cv # {} /\ ~flag =>
        \/ count + Cardinality(OnTheirWay) >= MAX_OUTGOING_BUFFER_SIZE
        \/ pc[Consumer] = "consume_if"
           /\ count + 1 + Cardinality(OnTheirWay) >= MAX_OUTGOING_BUFFER_SIZE

(* Clients may stop reading for a while, but none for good.                *)
EverySendEnds == []<>~AwaitsClient

(* Everything accepted is forwarded in the end, unless the consumer thread *)
(* waits for ever for a client that does not read.                         *)
EverythingForwarded ==
    EverySendEnds =>
        \A s \in Source : \A n \in 1 .. MaxAccepted :
            Len(accepted[s]) >= n ~> Len(forwarded[s]) >= n \/ process # "running"

(* main, which also waits for a slot in the buffer, comes back to serving  *)
(* the clients, with the same exception: one client that does not read     *)
(* stops the consumer thread, then the buffer fills up, then main waits.   *)
MainKeepsServing ==
    EverySendEnds =>
        (pc[Main] = "produce_new_message" ~> pc[Main] = "serve" \/ process # "running")

(* shut_down_threads() reaches every thread that was started, wherever it  *)
(* was when the flag went up.                                              *)
ShutDownReachesEveryThread ==
    flag ~> \/ \A th \in Topics \cup {Consumer} : pc[th] \in {"failed", "done"}
            \/ process = "crashed"

(* mad.cpp:3,21: it "waits until all other threads have been shut down"    *)
(* and then frees everything and ends the process.                         *)
ShutDownCompletes == flag ~> process # "running"
=============================================================================
