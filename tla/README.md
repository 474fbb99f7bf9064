# A verification of the Pub/Sub system

`PubSub` is a publish/subscribe system of three Windows programs that talk over
TCP on one machine: a **Broker**, any number of **Clients**, and a
**StatsManager** that counts what the clients ask for; a fourth, the **Runner**,
starts and kills them.  This directory holds TLA+ models of the system, the TLC
runs that check them on small instances, and TLAPS proofs about them.

To check a run: `tlc -config BrokerThreads.cfg BrokerThreads.tla`.  To check a
proof: `tlapm BrokerThreadsProofs.tla`.  `PROJECT.json` lists components, runs,
the source lines of every definition, findings, hazards and theorems.

Contents: [1 Inventory](#1-inventory) · [2 Plan](#2-plan) ·
[3 Modules](#3-modules-and-their-correspondence-to-the-code) ·
[4 Runs](#4-runs) · [5 Fairness](#5-fairness) · [6 Proofs](#6-proofs) ·
[7 Findings](#7-findings) · [8 Not modelled](#8-what-is-not-modelled-and-why)

## 1. Inventory

### 1.1 Broker (`src/PubSub/Broker`)

| part | state | operations | who calls it |
|---|---|---|---|
| message queue, one per topic (`message_queue.cpp`) | linked list `head`/`tail`, a critical section, a condition variable | `enqueue`, `dequeue`, `free_message_queue` | main enqueues, the topic's producer thread dequeues |
| outgoing buffer (`outgoing_buffer.cpp`) | array of 100, `fill_idx`, `use_idx`, `count`, a critical section, two condition variables | `produce_new_message`, `consume` (`put`, `get`) | producers and main fill it, the consumer thread empties it |
| threads (`broker.cpp`, `outgoing_buffer.cpp`) | main, three producers, one consumer | `create_and_start_threads`, `produce`, `consume` | |
| shutdown (`mad.cpp`, `global.cpp`) | `shutting_down.flag`, `num_of_shut_down_threads` | `mutual_assured_destruction`, `is_shutting_down`, `signal_shut_down` | main, when a thread could not be started |
| socket lists (`socket_list.cpp`): the connections, and the subscribers of each topic | linked list of `SOCKET*`, `size`, a critical section for the subscriber lists | `add_to_start`, `free_node`, the consumer's walk | main changes them, the consumer walks the subscriber lists |
| networking (`networking_broker.cpp`) | one welcoming socket, one `SOCKET` per client, the socket to the StatsManager | `accept_connection`, `receive_commands`, `send_to_client`, `send_to_stats_manager` | main; the consumer thread sends |
| commands (`command_execution.cpp`) | none of its own | publish (2), subscribe (3), topic exists (4), subscriber number (5), unsubscribe (6) | main |

A message's way: a client's publish command → main (`receive_commands`,
`execute_command`) → the topic's message queue → the topic's producer thread →
the outgoing buffer → the consumer thread → one `send` per subscriber.  A
query's answer enters at the outgoing buffer, put there by main.

### 1.2 StatsManager (`src/PubSub/StatsManager`)

| part | state | operations |
|---|---|---|
| main (`stats_manager.cpp`) | `notifications_received`, `last_update_time` | accept the broker; then for ever: handle what arrives, update the file when a period has passed |
| notification handling (`notification_handling.cpp`) | `topic_stats_array`: five counters for each of three topics | `handle_notifications` |
| file (`file_updating.cpp`) | `stats.txt` | `read_and_show_stats`, `update_and_show_stats` |
| networking (`networking_sm.cpp`) | a welcoming and a connection socket | `accept_connection`, `receive_notifications`; ends the process when the broker closes |

### 1.3 Client, Runner and the rest

| part | state | operations |
|---|---|---|
| Client (`Client.cpp`, `networking_client.cpp`, `command_creation.cpp`) | `connected`, a receive buffer, a socket | a menu of eight options: connect, the five commands, read messages, exit |
| stress test (`stress_test.cpp`) | none | loops over the client's functions |
| Runner (`Program.cs`) | the processes | starts all, kills all |
| Common (`common.cpp`) | none | moves a console window |

### 1.4 What is hard, and what makes it correct

| component | what is hard | what must hold |
|---|---|---|
| message queue | nodes are freed and their addresses reused; `tail` dangles while the queue is empty | it stays a list and is a FIFO queue |
| outgoing buffer | two indices and a counter, each wrapping or counting on its own | they agree; it is a FIFO queue |
| threads | wait loops whose condition spans two critical sections; one condition variable shared by producers and main; spurious wake-ups | nothing lost, repeated or overtaken; no lost wake-up; no thread asleep beside work |
| shutdown | threads are anywhere when the flag goes up | every thread ends, and then the process |
| socket lists | main changes a list that the consumer is in the middle of, without a lock during sends | the list stays a list; whoever stays is served once |
| networking, commands | handles are copied and used later; the operating system reuses them; clients come and go at any time | each client gets its own messages and answers, in order; lists and statistics agree with the commands |
| all critical sections | five kinds of them nest; sends and sleeps wait without a limit | no deadlock; nobody is inside one while it waits |
| connections | a stream of bytes without boundaries, bounded, and in the hands of the other side | commands executed as sent, answers and messages shown as sent; whoever asks is answered |
| StatsManager | stream of notifications without boundaries; a kill at any time; a file rewritten in place | every notification counted once, across restarts |

`PROJECT.json` lists the hazards one by one, each at its line, with the
properties that cover it.

## 2. Plan

The order is by how much of the system rests on a part.

| step | modules | composes / abstracts | status |
|---|---|---|---|
| 1 | `Fifo`, `MessageQueue`, `OutgoingBuffer`, `MCQueues` | the two data structures implement `Fifo` | written, checked, proved |
| 2 | `TopicLog`, `Selection`, `BrokerThreads` | threads over `OutgoingBuffer` and the queues (as `MessageQueue` proves them); implements `TopicLog` | written, checked; all safety proved, the refinement included |
| 3 | `SocketRoster`, `SocketList` | node-level list with a walking consumer; implements `SocketRoster` | written, checked, proved |
| 4 | `Broker`, `MCBroker` | clients, main's rounds and the consumer's sends over `TopicLog` and the lists as sequences | written, checked; all invariants of run `delivery` proved |
| 5 | `StatsManager` | the other end of the broker's notifications | written, checked; all invariants proved |
| 6 | `CriticalSections` | every critical section, and what each function does to them | written, checked; both invariants proved |
| 7 | `Conversation`, `MCConversation` | clients' loops, main's rounds and the threads over connections that split, coalesce and fill up | written, checked; both invariants proved |
| 8 | `RosterLemmas`, and a module of proofs for each of 1 to 7 (the linked list's are in `BrokerThreadsProofs`, the buffer's in `OutgoingBufferProofs`) | lemmas about sequences; the invariants and refinements of section 6 | proved |

Abstract specifications worth stating: `Fifo` (a queue), `TopicLog` (per-source
FIFO delivery), `SocketRoster` (a sequence of sockets with
removal of the first occurrence).  What a client may rely on is stated directly,
as `ShownAsSent` and `QuestionsEnd` of `Conversation`.

## 3. Modules and their correspondence to the code

Definitions that model code have the code's names.  Operators marked `mutant`
are variants of the definition below them with a plausible bug; nothing uses
them, they exist to show that each property can fail.

### 3.1 `Fifo`, `MessageQueue`, `OutgoingBuffer`

`MessageQueue` is the linked list with real pointers: `heap` maps addresses to
nodes, `allocated` is what `malloc()` has handed out, and `free()` only takes an
address out of `allocated`, so a dangling `tail` or a reused address is
representable.  `enqueue_unsafe` and `dequeue_unsafe` are one action each, since
both are called with the queue's critical section held.  `cells` is a history
variable: the order in which nodes were linked.

`OutgoingBuffer` is the ring: `put` and `get` are the code's assignments;
`Produce` and `Consume` are the calls as the wait loops let them through.

Both implement `Fifo`: `MessageQueue` with `Queued` (the messages along `cells`;
`QueueImplementsFifo`), `OutgoingBuffer` with `Contents` (the slots from `use_idx`
on; `BufferImplementsFifo`).  `MCQueues` puts them side by side for TLC.

### 3.2 `TopicLog`, `BrokerThreads`

A thread's `pc` names the function it is in and, inside a wait loop, whether it
is before the test, about to sleep, asleep, or past the loop.  A step is what
happens between two points where another thread can get in.  Two choices matter:

* `shutting_down.flag` is read under a critical section of its own, so the test
  of a wait loop (`DequeueWhile`, `ProduceWhile`, `ConsumeWhile`) is a step apart
  from the sleep that follows it; that is where a wake-up could get lost.
* A condition variable is the set of its sleepers.  `WakeConditionVariable`
  removes one of them, `WakeAllConditionVariable` all, and `SpuriousWakeup` any
  of them at any time, as Windows documents.

| code | actions |
|---|---|
| `create_and_start_threads`, `connect_to_sm` | `CreateThread`, `ThreadsCreated`, `connect_to_sm` |
| main's `enqueue`; `execute_command_and_produce` | `enqueue`; `execute_command_and_produce`, then `produce_new_message(Main)` |
| `dequeue` | `DequeueEnter`, `DequeueWhile`, `DequeueSleep`, `DequeueIf` |
| `produce_new_message` | `ProduceEnter`, `ProduceWhile`, `ProduceSleep`, `ProduceIf` |
| `consume` | `consume`, `ConsumeEnter`, `ConsumeWhile`, `ConsumeSleep`, `ConsumeGet`, `ConsumeIf`, `Send` |
| `signal_shut_down`, `shut_down_threads`, `mutual_assured_destruction` | `signal_shut_down`; `SetFlag`, `WakeQueue`, `WakeBuffer`, `AwaitThreads` |

A message queue is a sequence here, as `MessageQueueIsFifo` justifies; the
outgoing buffer is `OutgoingBuffer` itself.  The shutdown is reachable from
start-up only, as in the code, so `get()` on an empty buffer
(`outgoing_buffer.cpp:116`) meets a slot that nobody has filled; `Send` then
chooses between a crash and none.  While the consumer thread is about to send
(`AwaitsClient`) it waits for a client, without a limit
(`networking_broker.cpp:32`, `224`).  What main frees after its wait
(`mad.cpp:31-63`) is part of the step that ends the process.  The threads
may be created in any order; the code's order is one of them.

`accepted` and `forwarded` are history variables, and what `TopicLog` speaks of.
What one source has in the mixed buffer is `Selected` from it (`Selection`): the
elements at a set of places, in order.  `Broker` selects from what a client
received in the same way.

### 3.3 `SocketRoster`, `SocketList`

One subscriber list at the level of nodes, as in `MessageQueue`, with its two
users: main's `subscribe` and `free_node`, and the consumer's walk, whose step
is what happens from one send to the next (`WalkOn`).  A freed node's bytes stay
as they were until its address is reused; reading them may also crash.
`dangling` records that `walker`'s node was freed under it.  A walk that has gone
on from such a node may go round in a cycle of reused nodes for ever; `MaxServed`
ends it, and only it: a walk that is not `dangling` is never cut off.  The list
implements `SocketRoster`, the sequence that `Broker` uses.

### 3.4 `Broker`, `MCBroker`

What clients see.  `Connection` stands for both a client's connection and the
`SOCKET*` that the broker allocates for it; `socket[c]` is the value behind the
pointer, `peer[h]` is the operating system's table of who is connected to a
handle.  `accept()` returns any handle not in use, one closed a moment ago
included.

| code | actions |
|---|---|
| a client's `connect`, `send`, `closesocket`, or its death | `Connect`, `SendCommand`, `Leave` |
| `accept_connection` | `accept_connection`: nobody, accepted, or accepted and lost (`ioctlsocket` failed); then the round begins with the list's first node |
| `receive_commands` | `NothingReceived` (nothing has arrived, or `recv()` fails), `Received`, `ConnectionClosed`, and `RemoveSubscription`, one topic per step |
| `execute_command` | `execute_command`: `publish`, `subscribe`, `unsubscribe`, `query`, and `query_fails` |
| `send_subscription_message_or_response` | `ConsumeResponse`, or `ConsumeMessage`, `StartWalk`, `send_to_client`, `WalkOn`, ... |

Between main's `Accept` and the consumer's `Forward` is `TopicLog`, with the
`accepted` and `forwarded` that `BrokerThreads` refines.  (Forwarding is counted
where the consumer takes the element; `BrokerThreads` counts it where the send is
over.  The consumer handles one element at a time, so the order is the same.)

A list may be one longer than its limit, and its length may then have more digits
than its answer has room for (`NumberTooLong`): `query_fails` ends the process,
as `_itoa_s()` does (`command_execution.cpp:106-119`).  In the code this takes the
limit's 99999 subscribers and one more; the model's limit is a constant, and so
every number above it is too long.

The consumer's walker is an address, modelled as a number of nodes counted from
the list's end, which additions at the front leave alone.  When its node is
freed, the next `WalkOn` either crashes or goes on behind any node of any list;
`astray` remembers it, and the properties that depend on the walk are stated up
to that point.  `closesocket()` and the marking of the socket
(`networking_broker.cpp:202-203`) are one step: a consumer that copies the handle
between the two gets what it would have got just before the first.

### 3.5 `StatsManager`

`stream` is what the broker has sent and the StatsManager has not received;
`recv()` takes any non-empty prefix of it, and with it the front of the next
notification or not (`rest`).  A front that is received alone is counted if all
of it but `\0` is there, is otherwise passed over, or ends the process when it is
too short for `strcpy_s()` (`notification_handling.cpp:19-21`); with whole ones
before it, it is one more copy of the first.  Behind the rest of a notification
nothing is counted.  One that comes in three parts or more has a middle that is
received alone (`MiddleAlone`), and passed over or too short.  `lost` marks the steps at which something uncounted is gone.
A notification is its kind and topic.
`OpenForWriting` and `WriteFile` are two steps because `fopen(.., "w")` empties
the file first; either can fail, and the process can be killed between them.
`PeriodPasses` stands for the clock, `Kill` and `Start` for the Runner.  Counts
are natural numbers: 2^64 notifications are out of reach.

### 3.6 `CriticalSections`

Each function of the broker is the sequence of what it does to critical
sections, with `Send` and `Sleep` where it waits for something else, and with
`OneOf`, `Repeat` and `WaitLoop` where data decides: a test of data may come out
either way, so that every nesting of the code is reached, whatever the lists and
buffers hold.  `shutting_down.flag` is kept, because it decides which functions
run.  A thread's `code` is what it has still to do; `Branch` unfolds what data
or the flag decides, the other actions are the Windows calls.  `main` calls any of
its functions at any time, or, after a failed start, the shutdown.  What the
sections protect is in `BrokerThreads` and `SocketList`.

### 3.7 `Conversation`, `MCConversation`

The connections as streams of pieces: a string is its front, whose first byte is
`#` or not, and its rest, which ends in `\0`.  That is as much as the scanning
loops (`broker.cpp:115-128`, `Client.cpp:64-80`) tell apart: where a string
begins, whether its first byte is `#`, and whether it is there to its end.  Where
a string is cut is not kept, so the first byte of a rest may be a `#` or not: a
command has one before its topic, a publish two, and topics and messages may hold
more; an answer has none but its first.  So the loops stop at a rest that begins
with anything else, and at an answer that does not begin with `#` (`Stops`); a
rest that does begin with `#` (`Mistakable`) they take for a string of its own,
and go on behind it.  `Scanned` is the set of all ways this can go.

| code | actions |
|---|---|
| the client's loop: options 1, 2-6, 7, 8 | `connect_to_broker`; `get_option`, `send_command` and, for a query, `receive_answer`; `receive_subscription_messages`; `cleanup` |
| main's round | `accept_connection`, `receive_commands`, `execute_command`, `send_to_stats_manager`, `produce_new_message`, `batch_ends` |
| the producer and the consumer thread | `produce`; `consume`, `send_to_client` |
| the StatsManager, as far as main waits for it | `receive_notifications` |

* `recv()` returns all there is, up to the buffer's size, or less (`Portions`).
  It writes over what the buffer still holds, and what is left behind may begin
  anywhere (`Over`); main clears its buffer after every batch, the client only
  after reading messages.
* A command that was cut off is executed as far as it goes (`TakenFor`): only
  its `\0` is missing, or it names a part of a topic, or its extraction runs out
  of what there is.  The last, and a buffer filled to its last byte, is undefined
  behaviour: the model either goes on, or sets `broken` and stops.  A rest that
  begins with `#` is executed as what stands there: as one of the commands in
  `Inner`, as no command at all, or its extraction runs out in the same way.
* `accept_connection` may find nobody, have no room in the list
  (`networking_broker.cpp:129`), fail, or accept a client whose `ioctlsocket` then
  fails (lines 155-160): that client is in no list and is never served
  (`lost`).  `Unlucky` bounds who that may be.
* The client's sockets block, so `send_command` waits for room for all of its
  command.  The broker's do not: `send_to_client` waits for some room and sends
  what fits.
* The answer of `subscriber_number` for an unknown topic is `#`
  (`command_execution.cpp:113`), which the client's loop takes for a message.
* The broker's lists, queue and buffer are sequences; what main and the threads
  do to them is one step each, as `BrokerThreads` and `SocketList` justify.  There
  is one topic.  `unsubscribe`, which has no answer either, is in `Broker`.

## 4. Runs

| run | module, config | bounds | shows |
|---|---|---|---|
| `queues` | `MCQueues` | list: 3 addresses, 2 messages; ring: 3 slots, 2 elements | the list stays a list and is a queue; indices and count agree, the ring is a queue |
| `threads` | `BrokerThreads` | 2 producers and main, 2 slots, 2 messages from each | types, nothing lost or reordered, buffer bounds, no lost wake-up, implements `TopicLog` |
| `threads_live` | `BrokerThreadsLiveness` | 2 producers and main, 1 slot, 1 message from each | everything is forwarded and main keeps serving as long as every send ends; a shutdown reaches every thread |
| `shutdown` | `BrokerThreadsShutDown` | as above | violated: `ShutDownCompletes` |
| `list` | `SocketList` | 2 sockets, 3 addresses, limit 2 | the list stays a list; a walk serves everybody who stays, once |
| `delivery` | `MCBroker`, `BrokerDelivery` | 2 connections with 2 commands each, 2 handles, 2 topics (commands about the last one), limit 1 | who gets which messages and answers; lists and statistics |
| `delivery_live` | `MCBroker`, `BrokerLiveness` | one connection with 1 command, another with 2, 1 topic, limit 1 | every command is executed, everything is sent |
| `limit` | `MCBroker`, `BrokerLimit` | 2 connections with 2 commands each, 1 topic, limit 1 | violated: `ListsKeepToTheLimit` |
| `misdirected` | `MCBroker`, `BrokerMisdirected` | 2 connections, 1 handle | violated: `NeverMisdirected` |
| `stats` | `StatsManager` | 2 kinds of notification, 4 of them, 2 runs of the process | what is counted, across split and coalesced notifications, failures and restarts |
| `sections` | `CriticalSections` | main, 1 producer thread, the consumer thread | no circular wait; nothing held while a thread sends or sleeps; every entry is granted |
| `session` | `MCConversation`, `Conversation` | 2 clients with 2 commands and 1, connections of 4 pieces to the broker and 3 to a client, receive buffers of 4 and 3, outgoing buffer and notifications of 1, 1 client that may be accepted and lost | commands executed as sent, answers and messages shown as sent; questions end |

Why the bounds are enough for the cases of interest:

* A ring of three slots has a first, a middle and a last index, and every
  combination of `use_idx` and `count`; the proofs are for every size.
* Three addresses give a list with first, middle and last node and the reuse of
  each address; with limit 2 the `<=` of `command_execution.cpp:42` lets a third
  node in.  `MaxServed`, a constant, cuts off a walk that has gone astray into a cycle
  of reused nodes, and no other.
* Two producers and main are the least number of threads that compete on
  `empty_cv` with one that is not asleep; two messages from each suffice for
  reordering and for a full buffer of two slots with somebody waiting.  The
  bound `MaxAccepted` is in the guards of the two actions that accept.
* In `delivery` a connection can subscribe twice, subscribe and publish,
  subscribe and unsubscribe, or publish twice, while the other does the same,
  leaves, or takes over a freed handle.  With two topics, the commands name the
  last one, so that a closed connection is in one list, and not in the other.
  `MaxSent` bounds the commands, for each connection separately.  Connections and
  handles are interchangeable in this run, in `limit` and in `misdirected` (no
  property of theirs is temporal).
* In `delivery_live` one connection sends a second command while the other's
  first waits, is received, or is executed, in any order with the rounds.  The
  commands are a question, a subscription and a message about the topic.  The second
  question after two subscriptions meets a number that is too long.
* Four notifications cover two updates with two notifications in each, in the
  same or different counters, and a restart in between.
* One producer thread is enough for `sections`: two of them share no section that
  neither main nor the consumer thread enters, and nest nothing in the outgoing
  buffer's but the flag's.  All nestings are there, as every function is.
* In `session` c1 subscribes, and subscribes again or asks about the topic, and c2
  publishes or asks about another.  So messages arrive together and with an answer;
  c1 is due two strings at once and has room for one and a half (a partial send, or
  a consumer thread that waits for it), main waits for the outgoing buffer and for
  the StatsManager, c1 leaves with something unread or sent, and questions about a
  known and an unknown topic meet messages on their way.  `MaxCuts` lets one string
  be cut by its arriving in two parts (those cut by a full connection or a full
  buffer are not bounded); `Option` lists what each user may choose for each
  command.  A rest that begins with `#` may hold a question about the known topic
  (`Inner`): that is the command whose execution shows, since an answer comes of it
  that nobody asked for.  c2 may be accepted and lost.  The list of connections has
  room for both, so that the run does not come to a client who finds it full; the
  two proofs do not depend on any of these bounds.

`CHECK_DEADLOCK FALSE` is set where the modelled system stops for good reasons:
the process has ended, or all bounded commands are done and every thread waits.
`queues` is checked for deadlock.

## 5. Fairness

* `BrokerThreads!Fairness` is strong fairness for main's own steps, for the
  consumer and for each producer thread: a thread that waits for a critical
  section which others keep entering is enabled again and again, not all the
  time, and Windows documents that critical sections, although not first-come
  first-served, let every waiter in.  There is no fairness for `MainCommands` (no
  client owes the broker a command) nor for `SpuriousWakeup`, and none for the
  consumer thread while it waits for a client to read (`AwaitsClient`): a client
  that never does stops it for good, the buffer fills up, and then main waits
  too.  So `EverythingForwarded` and `MainKeepsServing` are implications, with
  `EverySendEnds` (no client stops reading for good) as their premise.
  `ShutDownReachesEveryThread` has no such premise: the shutdown is at start-up,
  and the consumer thread has nobody to send to.
* `Broker!FairSpec` is weak fairness for main's steps and for the consumer's: in
  this module neither ever waits for the other.  It assumes that every send
  completes, i.e. that clients and the StatsManager keep reading, because
  `send_to_client` waits without a limit (`networking_broker.cpp:224`).  Clients
  are under no fairness.
* `CriticalSections!FairSpec` is strong fairness for a thread's own steps within
  a function, as above.  There is none for `Sent` (no client has to read), for
  `Awake` (nobody has to be woken), or for calling another function.
* `Conversation!FairSpec` is weak fairness for each client's program between two
  prompts, for main, the producer and the consumer thread, and for the
  StatsManager's reading.  Users are under none: they may never come back to the
  prompt, and `QuestionsEnd` excepts the states in which such a client's
  connection is full for good.  Strong fairness for `Accept` says that `accept()`
  does not find nobody, or fail, for ever while somebody waits and there is room in
  the list; it does not say that main keeps whom it accepts (`lost`).
* `StatsManager!FairSpec` is weak fairness for main's loop, which waits 0.2
  seconds at most (`networking_sm.cpp:12`), and for the passing of time.

## 6. Proofs

TLAPS proves the following for every value of the constants that satisfies the
modules' named assumptions.  These keep special values apart (`NULL` is no
address, main is no topic, `INVALID_SOCKET` is no handle, a missing file is no
record of counts); they ask for a buffer of at least one slot, at least one topic,
finitely many topics and kinds of notification, and limits that are numbers.

| theorem | says | argument |
|---|---|---|
| `MessageQueueTyped`, `ListStaysIntact` | types; the list is what was linked and not removed | `Inv`, both together: appending behind `tail` keeps the list only because `tail` is its last node, which in turn needs that no other node has that address |
| `MessageQueueIsFifo` | the list implements `Fifo` | `Inv`; an enqueue is an append to `Queued` because it writes one address that is nobody else's, a dequeue is `Head`/`Tail` |
| `OutgoingBufferTyped`, `OutgoingBufferIndicesAgree` | index range, count range, `fill_idx = (use_idx + count) % N` | `BufferInv`, both together; `WrapOnce` reduces `%` to one conditional subtraction |
| `OutgoingBufferIsFifo` | the ring implements `Fifo` | `ContentsAreSlots`: the i-th element is in the slot `Slot(use_idx, i)`; `put` writes the first slot outside of these |
| `ProducersAreWoken`, `ConsumerIsWoken` | no producer, and not the consumer, sleeps beside work or through a shutdown | `WakeInv` |
| `BrokerThreadsTyped`, `BufferStaysWithinBounds` | types; while the broker serves `put` meets a free slot and `get` a filled one | `DataInv` on top of `WakeInv` |
| `FreeSlotsAreTaken` | a free slot does not leave everybody who waits for one asleep | `SlotInv` on top of both |
| `BrokerThreadsImplementTopicLog` | threads, queues and buffer implement `TopicLog` | `PipelineInv` on top of `DataInv` |
| `OrderIsConserved` | what a source gave is what was forwarded of it, then what is on its way, place by place | follows from `PipelineInv` |
| `SocketListStaysIntact` | the chain from `head` is the allocated nodes, each once, as many as `size` | `Inv`, with the types |
| `SocketListIsRoster` | the list implements the sequence that `Broker` uses | `Inv` |
| `StayersAreServed`, `NobodyIsServedTwice` | a walk whose node is not freed serves everybody who stays, and nobody twice | `WalkInv` on top of `Inv` |
| `HandlesAreNotConfused`, `NotificationsAddUp` | a socket in the lists is its own client's or marked closed; notifications agree with log and lists | `MainInv` |
| `BrokerTypesHold` | types | `DeliveryInv`: `ListsInv`, `WalkInv` and the types in the others |
| `ListsAgreeWithCommands` | who is in a topic's list, and how often | `SubscriptionsInv` on top of `MainInv`, `ListsInv` |
| `TopicsAreReceivedInOrder` | a client receives a topic's messages in order, whatever the walk meets | `ReceivedInv` on top of `LogInv`, `WalkInv` |
| `StayingSubscribersMissNothing` | whoever stays subscribed receives every message | `OwedInv` on top of all of these |
| `UnsubscribingEndsDelivery` | after an unsubscription at most the message being sent arrives | `LateInv` on top of them |
| `QueriesAreAnsweredOnce` | a client that stays receives main's answers, each once, in order | `AnswersInv` on top of them |
| `TotalsAreConserved`, `CountsAreExact`, `NothingIsCountedTwice` | what was told is on record, on its way, or marked as lost | `StatsInv` |
| `CommandsAreExecutedAsSent` | main executes a client's commands in order, none twice, except that of one received in two calls it may execute the first part and then the rest; while none was, what it executes is commands as they were sent, and all of them unless the connection was reset | `CommandsInv`, with the types |
| `UsersAreShownWhatWasSent` | nothing is shown more often than it was sent; who never asks, or is sent only answers, is shown all of it, in order, unless something was cut on its way to him, or a command of his was and he was sent an answer | `FrontsInv` and `AnswersInv`, with the types |
| `NoRingOfWaiters`, `BlockedThreadsHoldNothing` | no circular wait; nobody is inside a section while it sends or sleeps, unless a shutdown has begun | `SectionsInv` |

`WakeInv` is needed because "whoever sleeps has no work" is not inductive: a
thread that has tested and not yet gone to sleep will make it false unless the
grounds of its decision still hold.  `DecisionsStand` says that they do, which
holds because nobody can change the queue or the buffer while the thread is in
its critical section (`LocksFollowPc`), and because the flag, which *can* go up
in between, goes up before main enters the same critical section to wake the
sleepers (`FlagFollowsMain`; `mad.cpp:5-18`).  `SleepersAreAsleep` ties the
condition variables' contents to the threads' positions.  `DataInv` adds the
buffer's own invariant and what a wait loop's exit has established
(`LoopsEstablish`); `BrokerThreadsProofs` takes the lemmas about `put` and `get`
from an instance of `OutgoingBufferProofs`.  Of a queue it uses no more than that
it is one; that `MessageQueue`'s linked list is one is proved at its end.

`SlotInv` is about the one condition variable that producers and main share.
One sleeper is woken for each slot that `get()` frees, so a free slot has a
taker among the woken only as long as there are no more free slots than woken
takers; that is not inductive for two reasons, which the other two conjuncts
remove: whoever sleeps there found the buffer full in the same critical section
(`FullUntilAsleep`), and the condition variable's members are threads that are
asleep (`ProducersAsleep`), so that the counting is over finite sets.

`PipelineInv` is the refinement's invariant.  `TopicLog` promises order per
source, while the buffer mixes sources, so that its part of a source is a filtered
sequence.  Instead each message carries its number within
its source, and the invariant says that the places of the pipeline
hold consecutive ranges of numbers: what is forwarded ends where what the
consumer has begins, then the buffer, then what the producer thread holds, then
the queue, up to what was accepted (`LogNumbered`, `ConsumerNumbered`,
`BufferNumbered`, `HeldNumbered`, `QueueNumbered`).  Each step moves one message
over one boundary; a `Send` of number n forwards exactly the n-th accepted.
`OrderIsConserved` translates this back into sequences: each place holds a
`Consecutive` stretch, and consecutive stretches put together make up the one that
was accepted (`NumbersMakeTheOrder`).

`SocketListProofs` reasons about the chain of pointers by `ChainIsCells`: under
`Inv`, following `next` from `head` meets exactly the nodes in `cells`, then
`NULL`.  So a removal from the middle, which writes one `next`, takes one element
out of `cells`, and the addresses that are free again are in nobody's way.
`WalkInv` holds as long as the walker's node has not been freed: the walker is one
of the cells, nobody behind it has been served, and whoever is due has been
served or is behind it.  That "nobody is served twice" has to be said of the nodes
*ahead*, because the address of a node that was served and then freed may be in
the list again, at its front.

`MainInv` adds to its two properties where main is: `receive_commands()` and
`execute_command()` only dereference what `MainIsWhere` says is there, and topics'
lists are cut only for a connection whose socket has been marked.  The latter is
why `StatisticsAddUp` survives a removal.  The rest of `DeliveryInv` builds on it:

* `ListsInv`: main's round and the list of connections hold nobody twice and
  nobody closed (`Visitable`).  Without it a connection could be closed twice, and
  its subscriptions cut twice.
* `LogInv`: a topic's messages are numbered as accepted, and the consumer is busy
  with the one forwarded last.
* `WalkInv`: the walker is at a node of the topic's own list, unless that node was
  freed under it (`dangling`) or the walk went on from such a node (`astray`).
* `ReceivedInv`: nothing was received before it was forwarded.  It holds whether or
  not the walk is astray: even then the consumer only sends the element it has.
* `OwedInv` is what `SubscribersMissNothing` lacks to be inductive.  Whoever is
  due a message is in the topic's list, and the message is not yet forwarded, or
  it is `OnItsWay`: the walk has not begun, or is about to send to this
  connection with its present handle, or has a node of it still to come
  (`StillToVisit`).  Positions are counted from the list's end, so that an addition
  leaves them alone; a removal in front of the walker does too, and one behind it
  takes away a node of somebody who is no longer due.
* `LateInv`: a message that arrives late was being sent when the last
  subscription ended, and while it is counted the connection is not being sent
  this topic again, and is in none of its nodes.
* `AnswersInv`: an answer's handle leads to the one who asked for as long as it is
  there (`Reaches`), from the query through the log to the send; and what was
  received of main plus what is being sent is what main answered, as far as
  the consumer has come (`AnswersAddUp`).  The latter must also be said of clients
  that have not come yet, to whom nothing may have been sent.

`StatsInv` states the three properties as one (`NothingIsLost`), since each step
that keeps one keeps it for the same reason, and adds where the main loop is
(`RunInv`): nothing is in memory or on its way between two runs unless it was
marked as lost.  The totals are sums over functions; `Total` is the cardinality of
a set of numbered pairs, whose growth by one is a fact about finite sets.

`ConversationProofs` reasons about bytes in transit, where a string may be split
anywhere, about rests that may be taken for strings, and about leftovers in a
buffer that is written over.  Of strings in a row, the last of which may lack its
rest (`InARow`), the scanning loops find exactly these; if a rest comes before
them, they find it and all that follows, or nothing (`BatchIsOrdered`).  So what a
portion is taken for is known from where it begins and ends.  Three invariants
build on the types:

* `CommandsInv`: the pieces of a client's commands are numbered in the order of
  sending, and those in the connection are the last ones (`Coming`).  Each command
  that was executed, or is in main's batch, was executed from one piece to another
  (`Start`, `End`): a whole one from its front to its rest, one that is cut off
  from its front, and a rest taken for a command from itself.  Each ends before the
  next one starts, and before what is still coming (`Ordered`).  While no command
  was received in two calls, what comes begins with a front (`Even`), what was
  executed is whole (`Clean`) and, unless the connection was reset, all there is
  (`AllOf`).
* `FrontsInv`: how often a string was shown, plus its fronts in the connection,
  plus its fronts *behind the first piece* of what is left in the client's buffer,
  is no more than it was sent.  The leftovers have to be counted, because a later
  `recv()` that is shorter uncovers them; the first piece need not be, because
  every `recv()` writes over it.
* `AnswersInv` is about a client who is to be shown what he was sent (`Clear`).
  What was sent to him is what he was shown followed by the whole strings in the
  connection (`ShownOf`).  The answer that is taken for the next one would break
  this, so there must never be two: unless a command of his was received in two
  calls, a question in the connection or the batch is the one whose answer he waits
  for (`QuestionsOf`), at most one answer to him is on its way through `response`,
  the outgoing buffer and the consumer thread, it answers that question, and main
  has executed that question's command (`AnswersOf`); once it is in the connection
  nothing else is (`ArrivesOf`).  That his commands are received whole matters
  here: the first part of one may be taken for a question about another topic,
  whose answer is none he knows, and a rest for a question he never asked.  A client
  that this happened to is `Clear` as long as nothing but messages was sent to him,
  and needs no more than `ShownOf`.

`SectionsInv` is about the code a thread has still to run.  The sections have an
order (`Rank`): the queues' and the outgoing buffer's, `printf`'s, the
subscriber lists', the flag's.  A thread that enters one is inside only earlier
ones, so the thread of a ring that waits for the last section in the order would
have to hold a later one.  That a thread obeys the order is a property of its code
from the present point on, and of what it holds there; code contains loops, so
this cannot be said by recursion over it.  A point is
`Safe` if it lies in *some* set of points each of which does only what is allowed
and goes on within the set; `LoopIsSafe` is the rule for loops.  `Good(c, f, h, h2)`
says that c, begun with h held, is safe and ends with h2 held, if what follows
is safe; each of the broker's functions is shown to be so from its parts
(`CallsAreGood`, `ShutDownIsGood`).  Only the flag's being known to be set
excuses a thread that sends from inside the outgoing buffer's section.

What a recursive definition computes is proved here only where the well-ordering
of the numbers replaces induction (`LeastExists` in `RosterLemmas`: if a
claim fails somewhere, it fails at a least place, and holds just before it), and
only of recursive functions, which is why `Selection` is one: `SelectSeq` is
opaque to the prover.

The invariants hold of unboundedly many threads, slots, connections, handles and
messages; `MaxAccepted`, `MaxSent` and the lists' limits are constants too, so
these bounds do not weaken them.

Only model-checked: all liveness (fairness and ENABLED are out of the prover's
reach) and the three properties of the runs that expect a violation.  Every safety
property of a passing run has a theorem.

## 7. Findings

Three runs state what a comment says and show what the code does instead
(`PROJECT.json`, "findings"):

1. **A failed start never ends** (`shutdown`).  `mutual_assured_destruction()`
   runs only when a thread could not be started, and waits for
   `number_of_topics + 1` threads to end (`mad.cpp:22`): one of them does not
   exist.
2. **A message or an answer can go to another client** (`misdirected`).  A
   socket's value is copied, the lock given up, the socket closed and its value
   reused before the send (`outgoing_buffer.cpp:89`, `broker.cpp:99`).
3. **A list grows beyond its limit** (`limit`).  `command_execution.cpp:42` has
   `<=`, so that a subscriber list can hold one more than the limit its answer has
   room for (`command_execution.cpp:106`).  `connection_sockets` likewise
   (`networking_broker.cpp:129`).

Seen while reading, and visible in the models without a run of their own:

* A freed node is read: `outgoing_buffer.cpp:96` reads `walker->next` after the
  lock was given up for the send, against the comment of line 89.  `dangling`
  (`SocketList`) and `astray` (`Broker`) mark it.
* Notifications that arrive together are miscounted: `notification_handling.cpp:51`
  passes the buffer's first notification each time.  `CountsExact` holds only
  where `coalesced` is false; the total is right all the same
  (`TotalsConserved`).
* A client that asks while messages are on their way takes the first of them for
  its answer (`Client.cpp:179-185`), and the answer, when it comes, ends the
  reading of messages (`Client.cpp:77`): what is behind it is dropped.  A `send`
  that takes a part of a string (`networking_broker.cpp:226`) never sends the
  rest.  `ShownAsSent` is stated for the clients that none of this happens to
  (nor, if they ask or were answered, that a command of theirs is received in
  parts), and says of the others that nothing is shown more often than it was sent.
* A command received in two parts is executed as far as the first part goes.  If
  the second part begins with anything but `#`, it is dropped, with whatever came
  along; if it begins with a `#`, as `#topic#text` and `#text` do in a publish, it
  is executed as another command, and so is what came along
  (`broker.cpp:116-125`).  `ExecutedAsSent` says no more of such a client than
  that the order is kept.  A text that begins with `4` or `5` is then a question,
  whose answer the client takes for a message, or for the answer to his next
  question.  The client's loop has the same test (`Client.cpp:66`), and shows the
  rest of a message as another one.
* A client that is accepted and then lost (`networking_broker.cpp:155-160`:
  `ioctlsocket` fails, and the socket is neither closed nor listed), or that the
  list has no room for, waits for ever when it asks: `LeftOut` excepts it from
  `QuestionsEnd`.
* A client that stops reading stops the broker: the consumer thread waits in
  `select` (`networking_broker.cpp:32`), the buffer fills up, and main waits in
  `produce_new_message` for the first answer that finds it full.  The liveness
  properties name this case (section 5).
* `get()` is called on an empty buffer when a shutdown wakes the consumer
  (`outgoing_buffer.cpp:112`, `116`), against the comment of line 105: `count`
  becomes -1, as `BrokerThreadsTypeOK` allows.
* A client that subscribed twice and closed its connection stays in the list, and
  in the number that `subscriber_number` answers, for ever
  (`networking_broker.cpp:207-209`); the documentation (`Dokumentacija IKP.docx`)
  calls that number the one of subscribed clients.  A connection that was reset
  stays in every list, once or more (line 212).  `SubscriptionsAgreeWithCommands`
  states exactly what is in a list and how often.
* `stats.txt` is never created when it is missing, and everything in it is lost
  when the process is killed, or a write fails, after `fopen(.., "w")`
  (`file_updating.cpp:30`).  `lost` marks these steps in the model.

## 8. What is not modelled, and why

* Start-up networking (`setup()` in the three programs): it runs before anything
  else exists and ends the process on failure.  The order in which the programs
  come up relies on `Sleep(2000)` and `Sleep(5000)`.
* The text of commands, messages, answers and of `stats.txt`, beyond where a
  string begins and ends; a `stats.txt` that is not three lines of five numbers.
* A broker that ends while clients run, and the StatsManager's end in
  `Conversation` (it is in `StatsManager`).
* The stress test as a program of its own: it is a client whose user subscribes,
  publishes, reads after every command and never asks, one of `Conversation`'s.
* Printing changes no state; the sections it enters are in `CriticalSections`.
* Failures of `malloc()`, which the code does not test.
* What `close_sockets_and_free_socket_list()`, `free_message_queue()` and the rest
  of `mad.cpp:31-63` free: never reached, as run `shutdown` shows.
* `StatsManager/StatsManager.cpp` (a generated "Hello World"), `kill.bat`, project
  files, build output and the diagrams.  The Word document (`Dokumentacija
  IKP.docx`) is no code.
