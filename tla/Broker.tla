------------------------------- MODULE Broker -------------------------------
(***************************************************************************)
(* The broker as its clients see it (broker.cpp, networking_broker.cpp,    *)
(* command_execution.cpp, outgoing_buffer.cpp): main accepts connections   *)
(* and executes the commands that arrive on them, in rounds; the consumer  *)
(* thread sends what was accepted, to one connection or to a topic's       *)
(* subscribers; clients connect, send commands and leave whenever they     *)
(* like.  Between the two threads is TopicLog, which BrokerThreads shows   *)
(* the queues, the producer threads and the outgoing buffer to implement;  *)
(* a socket list is the sequence that SocketList shows it to be.           *)
(*                                                                         *)
(* The operating system is external: accept() returns a handle that is not *)
(* in use, possibly one that closesocket() gave back, and what is sent to  *)
(* a handle goes to whoever is connected to it at that moment.             *)
(***************************************************************************)
EXTENDS Integers, Sequences, FiniteSets, SequencesExt, Selection

CONSTANTS Connection,                \* a client's connection; SOCKET* of its socket
          Handle, INVALID_SOCKET,    \* values of a SOCKET
          NULL,
          Main,                      \* the source of responses; see TopicLog
          TOPICS_NUM,
          Command,                   \* bound: the commands that clients send
          MaxSent,                   \* bound: commands per connection
          SUBSCRIBER_LIST_MAX_SIZE, CONNECTION_SOCKET_LIST_MAX_SIZE

(* A topic is its index in topics[]; 0 stands for a name that is not there.*)
Topic == 1 .. TOPICS_NUM
Operation == {"publish", "subscribe", "topic_exists", "subscriber_number", "unsubscribe"}

(* The socket lists: connection_sockets and each topic's subscribers.      *)
connection_sockets == 0
SocketLists == {connection_sockets} \cup Topic

ASSUME BrokerAssumption ==
    /\ INVALID_SOCKET \notin Handle /\ NULL \notin Handle \cup Connection
    /\ INVALID_SOCKET # NULL
    /\ TOPICS_NUM \in Nat \ {0} /\ Main \notin Topic
    /\ Command \subseteq [operation : Operation, topic : {0} \cup Topic]
    /\ MaxSent \in [Connection -> Nat]
    /\ SUBSCRIBER_LIST_MAX_SIZE \in Nat /\ CONNECTION_SOCKET_LIST_MAX_SIZE \in Nat

VARIABLES
    client,            \* what each client has done: see Client
    inbox,             \* commands sent and not yet received by the broker
    sent,              \* how many commands each client has sent
    received,          \* history: what each client received
    peer,              \* the operating system's: who is connected to a handle
    socket,            \* *socket_ptr, by connection; NULL before accept()
    socket_list,       \* the socket lists, first node first
    main,              \* where main is
    to_visit,          \* what main's walker has still to visit, itself first
    batch,             \* commands received and not executed
    closing, i,        \* the connection being removed from the lists
    consumer,          \* where the consumer thread is
    element, connection_socket,
    walker,            \* its walk: the list, and how many nodes from its end
    process,           \* "running" or "crashed"
    notified,          \* how often the StatsManager was told of a command
    accepted, forwarded,             \* see TopicLog
    copied_from,       \* history: whose socket connection_socket was copied from
    dangling,          \* history: walker's node was freed
    astray,            \* history: a freed node was read
    misdirected,       \* history: something was sent to a handle's new owner
    net,               \* history: by connection and topic, subscriptions less unsubscriptions
    owed,              \* history: messages published while a connection was subscribed
    late               \* history: messages received since the last subscription ended

Client == {"absent", "open", "closed", "reset"}
Log == INSTANCE TopicLog WITH Source <- Topic \cup {Main},
                              Message <- Nat

clientVars == <<client, inbox, sent>>
mainVars == <<main, to_visit, batch, closing, i>>
consumerVars == <<consumer, element, connection_socket, copied_from>>
walkVars == <<walker, dangling, astray>>
sendVars == <<received, misdirected, owed, late>>
vars == <<clientVars, received, peer, socket, socket_list, mainVars, consumerVars,
          walkVars, process, notified, accepted, forwarded, misdirected, net, owed, late>>

Init == /\ client = [c \in Connection |-> "absent"]
        /\ inbox = [c \in Connection |-> << >>]
        /\ sent = [c \in Connection |-> 0]
        /\ received = [c \in Connection |-> << >>]
        /\ peer = [h \in Handle |-> NULL]
        /\ socket = [c \in Connection |-> NULL]
        /\ socket_list = [l \in SocketLists |-> << >>]
        /\ main = "accept" /\ to_visit = << >> /\ batch = << >>
        /\ closing = NULL /\ i = 1
        /\ consumer = "consume" /\ element = NULL
        /\ connection_socket = NULL /\ copied_from = NULL
        /\ walker = [list |-> 1, left |-> 0]
        /\ process = "running"
        /\ notified = [command \in Command |-> 0]
        /\ Log!Init
        /\ dangling = FALSE /\ astray = FALSE /\ misdirected = FALSE
        /\ net = [c \in Connection |-> [t \in Topic |-> 0]]
        /\ owed = {}
        /\ late = [c \in Connection |-> [t \in Topic |-> 0]]

-----------------------------------------------------------------------------
(* Clients (external): Client/networking_client.cpp connects, sends and    *)
(* closes; a client that dies resets its connection.                       *)
Connect(c) ==
    /\ client[c] = "absent"
    /\ client' = [client EXCEPT ![c] = "open"]
    /\ UNCHANGED <<inbox, sent, owed>>

SendCommand(c) ==
    /\ client[c] = "open"
    /\ sent[c] < MaxSent[c]
    /\ \E command \in Command : inbox' = [inbox EXCEPT ![c] = Append(@, command)]
    /\ sent' = [sent EXCEPT ![c] = @ + 1]
    /\ UNCHANGED <<client, owed>>

Leave(c) ==
    /\ client[c] = "open"
    /\ \/ client' = [client EXCEPT ![c] = "closed"] /\ UNCHANGED inbox
       \/ client' = [client EXCEPT ![c] = "reset"] /\ inbox' = [inbox EXCEPT ![c] = << >>]
    /\ owed' = {o \in owed : o.connection # c}
    /\ UNCHANGED sent

ClientStep ==
    /\ \E c \in Connection : Connect(c) \/ SendCommand(c) \/ Leave(c)
    /\ UNCHANGED <<received, peer, socket, socket_list, mainVars, consumerVars, walkVars,
                   process, notified, accepted, forwarded, misdirected, net, late>>

-----------------------------------------------------------------------------
(* Socket lists.                                                           *)
Occurrences(c, l) == Cardinality({k \in 1 .. Len(socket_list[l]) : socket_list[l][k] = c})

WalkerIsIn(l) == consumer \in {"send", "walk"} /\ element.source # Main /\ walker.list = l

add_to_start(l, c) == socket_list' = [socket_list EXCEPT ![l] = Cons(c, @)]

(* The first node of c, if there is one.  The consumer's walker, which has *)
(* only an address, is left behind if it is the node that goes.            *)
free_node_keeping_it(l, c) == UNCHANGED <<socket_list, walkVars>>   \* mutant
free_node(l, c) ==
    IF c \notin ToSet(socket_list[l])
      THEN UNCHANGED <<socket_list, walkVars>>
      ELSE LET left == Len(socket_list[l])
                        - SelectInSeq(socket_list[l], LAMBDA s : s = c) + 1
           IN  /\ socket_list' = [socket_list EXCEPT ![l] = RemoveFirst(@, c)]
               /\ dangling' = (dangling \/ (WalkerIsIn(l) /\ walker.left = left))
               /\ walker' = IF WalkerIsIn(l) /\ ~dangling /\ left < walker.left
                              THEN [walker EXCEPT !.left = @ - 1] ELSE walker
               /\ UNCHANGED astray

-----------------------------------------------------------------------------
(* main: accept_connection().  A connection is lost when ioctlsocket()     *)
(* fails; the round of visits then begins at the list's first node.        *)
visit_newest_only ==                                                \* mutant
    LET list == socket_list'[connection_sockets]
    IN  to_visit' = IF list = << >> THEN << >> ELSE <<Head(list)>>
begin_round == to_visit' = socket_list'[connection_sockets]

accept_connection ==
    /\ main = "accept"
    /\ \/ UNCHANGED <<peer, socket, socket_list>>
       \/ /\ Len(socket_list[connection_sockets]) <= CONNECTION_SOCKET_LIST_MAX_SIZE
          /\ \E c \in Connection, h \in Handle :
                /\ client[c] # "absent" /\ socket[c] = NULL
                /\ peer[h] = NULL
                /\ peer' = [peer EXCEPT ![h] = c]
                /\ socket' = [socket EXCEPT ![c] = h]
                /\ add_to_start(connection_sockets, c) \/ UNCHANGED socket_list
    /\ begin_round
    /\ main' = "receive"
    /\ UNCHANGED <<clientVars, batch, closing, i, consumerVars, walkVars, sendVars,
                   process, notified, accepted, forwarded, net>>

(* receive_commands(): nothing to receive, or an error, which leaves the   *)
(* socket where it is.                                                     *)
NothingReceived(c) ==
    /\ \/ client[c] = "reset"
       \/ client[c] = "open" /\ inbox[c] = << >>
    /\ to_visit' = Tail(to_visit)
    /\ UNCHANGED <<main, batch, closing, i, inbox, peer, socket, socket_list, walkVars>>

(* One recv() takes some of what has arrived.                              *)
Received(c) ==
    /\ client[c] # "reset"
    /\ \E n \in 1 .. Len(inbox[c]) :
          /\ batch' = SubSeq(inbox[c], 1, n)
          /\ inbox' = [inbox EXCEPT ![c] = SubSeq(@, n + 1, Len(@))]
    /\ main' = "execute"
    /\ UNCHANGED <<to_visit, closing, i, peer, socket, socket_list, walkVars>>

close_socket_only(c) == UNCHANGED socket                            \* mutant
mark_closed(c) == socket' = [socket EXCEPT ![c] = INVALID_SOCKET]

ConnectionClosed(c) ==
    /\ client[c] = "closed" /\ inbox[c] = << >>
    /\ peer' = [peer EXCEPT ![socket[c]] = NULL]
    /\ mark_closed(c)
    /\ to_visit' = Tail(to_visit)
    /\ free_node(connection_sockets, c)
    /\ closing' = c /\ i' = 1
    /\ main' = "remove"
    /\ UNCHANGED <<batch, inbox>>

receive_commands ==
    /\ main = "receive" /\ to_visit # << >>
    /\ LET c == Head(to_visit)
       IN  NothingReceived(c) \/ Received(c) \/ ConnectionClosed(c)
    /\ UNCHANGED <<client, sent, consumerVars, sendVars, process, notified,
                   accepted, forwarded, net>>

RoundEnds ==
    /\ main = "receive" /\ to_visit = << >>
    /\ main' = "accept"
    /\ UNCHANGED <<clientVars, peer, socket, socket_list, to_visit, batch, closing, i,
                   consumerVars, walkVars, sendVars, process, notified,
                   accepted, forwarded, net>>

remove_past_last_topic ==                            \* mutant
    /\ main = "remove"
    /\ free_node(i, closing)
    /\ IF i > TOPICS_NUM
         THEN main' = "receive" /\ closing' = NULL /\ UNCHANGED i
         ELSE i' = i + 1 /\ UNCHANGED <<main, closing>>
    /\ UNCHANGED <<clientVars, peer, socket, to_visit, batch, consumerVars, sendVars,
                   process, notified, accepted, forwarded, net>>

(* One node per topic, whatever the number of subscriptions.               *)
RemoveSubscription ==
    /\ main = "remove"
    /\ free_node(i, closing)
    /\ IF i = TOPICS_NUM
         THEN main' = "receive" /\ closing' = NULL /\ UNCHANGED i
         ELSE i' = i + 1 /\ UNCHANGED <<main, closing>>
    /\ UNCHANGED <<clientVars, peer, socket, to_visit, batch, consumerVars, sendVars,
                   process, notified, accepted, forwarded, net>>

-----------------------------------------------------------------------------
(* main: execute_command().                                                *)
notify_stats_manager(command) == notified' = [notified EXCEPT ![command] = @ + 1]

publish(c, command) ==
    /\ command.operation = "publish"
    /\ LET t == command.topic
           n == Len(accepted[t]) + 1
       IN  IF t \in Topic
             THEN /\ Log!Accept(t, n)
                  /\ owed' = owed \cup {[connection |-> s, topic |-> t, message |-> n] :
                                s \in {s \in ToSet(socket_list[t]) : client[s] = "open"}}
                  /\ notify_stats_manager(command)
             ELSE UNCHANGED <<accepted, forwarded, owed, notified>>
    /\ UNCHANGED <<socket_list, walkVars, net, late>>

(* There is no test whether the connection is in the list already.         *)
subscribe(c, command) ==
    /\ command.operation = "subscribe"
    /\ LET t == command.topic
       IN  IF t \in Topic /\ Len(socket_list[t]) <= SUBSCRIBER_LIST_MAX_SIZE
             THEN /\ add_to_start(t, c)
                  /\ net' = [net EXCEPT ![c][t] = @ + 1]
                  /\ late' = [late EXCEPT ![c][t] = 0]
                  /\ notify_stats_manager(command)
             ELSE UNCHANGED <<socket_list, net, late, notified>>
    /\ UNCHANGED <<accepted, forwarded, walkVars, owed>>

unsubscribe_always_notifying(c, command) ==                         \* mutant
    /\ command.operation = "unsubscribe"
    /\ command.topic \in Topic
    /\ notify_stats_manager(command)
    /\ free_node(command.topic, c)
    /\ IF c \in ToSet(socket_list[command.topic])
         THEN /\ net' = [net EXCEPT ![c][command.topic] = @ - 1]
              /\ owed' = IF Occurrences(c, command.topic) = 1
                           THEN {o \in owed : o.connection # c \/ o.topic # command.topic}
                           ELSE owed
         ELSE UNCHANGED <<net, owed>>
    /\ UNCHANGED <<accepted, forwarded, late>>

unsubscribe(c, command) ==
    /\ command.operation = "unsubscribe"
    /\ LET t == command.topic
       IN  IF t \in Topic /\ c \in ToSet(socket_list[t])
             THEN /\ free_node(t, c)
                  /\ net' = [net EXCEPT ![c][t] = @ - 1]
                  /\ owed' = IF Occurrences(c, t) = 1
                               THEN {o \in owed : o.connection # c \/ o.topic # t}
                               ELSE owed
                  /\ notify_stats_manager(command)
             ELSE UNCHANGED <<socket_list, walkVars, net, owed, notified>>
    /\ UNCHANGED <<accepted, forwarded, late>>

(* A query's response carries a copy of the socket's handle.  The strings  *)
(* are "1" and "0", a decimal number, and "#", which is -1 here.           *)
Answer(command) ==
    CASE command.operation = "topic_exists" -> IF command.topic \in Topic THEN 1 ELSE 0
      [] command.topic \in Topic -> Len(socket_list[command.topic])
      [] OTHER -> -1

(* The response has room for the digits of SUBSCRIBER_LIST_MAX_SIZE.  A    *)
(* number with more of them makes _itoa_s() end the process.               *)
NumberTooLong(command) ==
    /\ command.operation = "subscriber_number"
    /\ command.topic \in Topic /\ Len(socket_list[command.topic]) > SUBSCRIBER_LIST_MAX_SIZE

query(c, command) ==
    /\ command.operation \in {"topic_exists", "subscriber_number"}
    /\ ~NumberTooLong(command)
    /\ Log!Accept(Main, [to |-> socket[c], asker |-> c, answer |-> Answer(command)])
    /\ IF command.topic \in Topic THEN notify_stats_manager(command) ELSE UNCHANGED notified
    /\ UNCHANGED <<socket_list, walkVars, net, owed, late>>

query_fails(command) ==
    /\ NumberTooLong(command)
    /\ process' = "crashed"
    /\ UNCHANGED <<socket_list, walkVars, net, owed, late, accepted, forwarded, notified>>

execute_command ==
    /\ main = "execute"
    /\ LET c == Head(to_visit)
           command == Head(batch)
       IN  \/ /\ publish(c, command) \/ subscribe(c, command)
                   \/ unsubscribe(c, command) \/ query(c, command)
              /\ UNCHANGED process
           \/ query_fails(command)
    /\ batch' = Tail(batch)
    /\ IF batch' = << >>
         THEN main' = "receive" /\ to_visit' = Tail(to_visit)
         ELSE UNCHANGED <<main, to_visit>>
    /\ UNCHANGED <<clientVars, peer, socket, closing, i, consumerVars, received,
                   misdirected>>

-----------------------------------------------------------------------------
(* Consumer thread.                                                        *)
NewestFrom(s) ==                                                    \* mutant
    element' = [source |-> s, message |-> accepted[s][Len(accepted[s]) - Len(forwarded[s])]]
TakenFrom(s) == element' = [source |-> s, message |-> accepted[s][Len(forwarded'[s])]]

ConsumeResponse ==
    /\ consumer = "consume"
    /\ Log!Forward(Main)
    /\ TakenFrom(Main)
    /\ connection_socket' = element'.message.to
    /\ copied_from' = element'.message.asker
    /\ consumer' = "send"
    /\ UNCHANGED walkVars

ConsumeMessage(t) ==
    /\ consumer = "consume"
    /\ Log!Forward(t)
    /\ TakenFrom(t)
    /\ consumer' = "start"
    /\ UNCHANGED <<connection_socket, copied_from, walkVars>>

(* Inside the list's critical section: the walker moves and its node's     *)
(* socket is copied, or the walk ends.                                     *)
WalkTo(l, left) ==
    IF left = 0
      THEN /\ consumer' = "consume" /\ element' = NULL
           /\ connection_socket' = NULL /\ copied_from' = NULL
           /\ UNCHANGED walker
      ELSE /\ walker' = [list |-> l, left |-> left]
           /\ copied_from' = socket_list[l][Len(socket_list[l]) - left + 1]
           /\ connection_socket' = socket[copied_from']
           /\ consumer' = "send"
           /\ UNCHANGED element

StartWalk ==
    /\ consumer = "start"
    /\ WalkTo(element.source, Len(socket_list[element.source]))
    /\ UNCHANGED <<accepted, forwarded, dangling, astray>>

(* The next node of a freed node: the process crashes, or malloc() has     *)
(* placed another list's, or a new, node there and the walk goes on behind *)
(* that one.                                                               *)
walk_on_two_nodes ==                                                \* mutant
    IF walker.left = 1 THEN WalkTo(walker.list, 0) ELSE WalkTo(walker.list, walker.left - 2)
walk_on_forever ==                                                  \* mutant
    WalkTo(walker.list, IF walker.left = 1 THEN Len(socket_list[walker.list])
                        ELSE walker.left - 1)
walk_on == WalkTo(walker.list, walker.left - 1)

WalkOn ==
    /\ consumer = "walk"
    /\ IF ~dangling
         THEN walk_on /\ UNCHANGED <<dangling, astray, process>>
         ELSE /\ \/ /\ process' = "crashed"
                    /\ UNCHANGED <<consumerVars, walker>>
                 \/ /\ \E l \in SocketLists : \E left \in 0 .. Len(socket_list[l]) :
                          WalkTo(l, left)
                    /\ UNCHANGED process
              /\ dangling' = FALSE
              /\ astray' = TRUE
    /\ UNCHANGED <<accepted, forwarded>>

(* send_to_client(): to whoever has the handle now, if anybody.            *)
Recipient == IF connection_socket \in Handle THEN peer[connection_socket] ELSE NULL

send_to_client ==
    /\ consumer = "send"
    /\ IF Recipient # NULL /\ client[Recipient] = "open"
         THEN /\ received' = [received EXCEPT ![Recipient] = Append(@, element)]
              /\ owed' = {o \in owed : o.connection # Recipient \/ o.topic # element.source
                                           \/ o.message # element.message}
              /\ late' = IF element.source \in Topic /\ net[Recipient][element.source] = 0
                           THEN [late EXCEPT ![Recipient][element.source] = @ + 1]
                           ELSE late
         ELSE UNCHANGED <<received, owed, late>>
    /\ misdirected' = (misdirected \/ Recipient \notin {copied_from, NULL})
    /\ IF element.source = Main
         THEN /\ consumer' = "consume" /\ element' = NULL
              /\ connection_socket' = NULL /\ copied_from' = NULL
         ELSE consumer' = "walk" /\ UNCHANGED <<element, connection_socket, copied_from>>
    /\ UNCHANGED <<accepted, forwarded, walkVars>>

ConsumerStep ==
    /\ \/ /\ ConsumeResponse \/ StartWalk \/ \E t \in Topic : ConsumeMessage(t)
          /\ UNCHANGED <<sendVars, process>>
       \/ WalkOn /\ UNCHANGED sendVars
       \/ send_to_client /\ UNCHANGED process
    /\ UNCHANGED <<clientVars, peer, socket, socket_list, mainVars, notified, net>>

MainStep == \/ accept_connection \/ receive_commands \/ RoundEnds
            \/ RemoveSubscription \/ execute_command

Next == process = "running" /\ (ClientStep \/ MainStep \/ ConsumerStep)

Spec == Init /\ [][Next]_vars

(* Both threads keep being scheduled, and clients keep reading what they   *)
(* are sent, so that no send blocks for ever.  Clients owe the broker      *)
(* nothing else.                                                           *)
Running(A) == process = "running" /\ A
FairSpec == Spec /\ WF_vars(Running(MainStep)) /\ WF_vars(Running(ConsumerStep))
-----------------------------------------------------------------------------
BrokerTypeOK ==
    /\ client \in [Connection -> Client]
    /\ inbox \in [Connection -> Seq(Command)]
    /\ sent \in [Connection -> Nat]
    /\ peer \in [Handle -> Connection \cup {NULL}]
    /\ socket \in [Connection -> Handle \cup {INVALID_SOCKET, NULL}]
    /\ socket_list \in [SocketLists -> Seq(Connection)]
    /\ main \in {"accept", "receive", "execute", "remove"}
    /\ to_visit \in Seq(Connection)
    /\ batch \in Seq(Command)
    /\ closing \in Connection \cup {NULL} /\ i \in Topic
    /\ consumer \in {"consume", "start", "send", "walk"}
    /\ connection_socket \in Handle \cup {INVALID_SOCKET, NULL}
    /\ walker \in [list : SocketLists, left : Nat]
    /\ process \in {"running", "crashed"}
    /\ dangling \in BOOLEAN /\ astray \in BOOLEAN /\ misdirected \in BOOLEAN

(* A SOCKET that the lists still point to is a handle of that very client  *)
(* or is marked as closed: no later owner of the handle is taken for it.   *)
SocketsNameTheirPeers ==
    \A c \in Connection : socket[c] \in Handle => peer[socket[c]] = c

(* Through every mixture of commands, rounds, leaving clients and walks,   *)
(* a topic's list holds a connection as often as it has subscribed more    *)
(* than unsubscribed; a closed connection leaves one node per topic, so    *)
(* that only repeated subscriptions survive it.                            *)
Removed(c, t) == socket[c] = INVALID_SOCKET /\ ~(closing = c /\ t >= i)
SubscriptionsAgreeWithCommands ==
    \A c \in Connection, t \in Topic :
        Occurrences(c, t) = IF Removed(c, t) /\ net[c][t] > 0 THEN net[c][t] - 1 ELSE net[c][t]

(* What the StatsManager is told adds up: as many messages as publish      *)
(* commands, and, as long as nobody's connection was closed, as many       *)
(* subscribers as subscriptions less unsubscriptions.                      *)
Told(operation, t) == LET c == [operation |-> operation, topic |-> t]
                      IN  IF c \in Command THEN notified[c] ELSE 0
StatisticsAddUp ==
    \A t \in Topic :
        /\ Told("publish", t) = Len(accepted[t])
        /\ (\A c \in Connection : socket[c] # INVALID_SOCKET) =>
              Told("subscribe", t) - Told("unsubscribe", t) = Len(socket_list[t])

(* Nobody sees a topic's messages out of order, whatever happens to the    *)
(* lists.  (A connection that subscribed twice sees each of them twice.)   *)
MessagesInOrder ==
    \A c \in Connection, t \in Topic : \A j, k \in 1 .. Len(received[c]) :
        j < k /\ received[c][j].source = t /\ received[c][k].source = t
            => received[c][j].message <= received[c][k].message

(* A client that was subscribed when a message was published, and stayed   *)
(* connected and subscribed until the message had been sent, got it,       *)
(* whatever main did to the list meanwhile, unless the walk went astray.   *)
Sending(t, n) == consumer # "consume" /\ element = [source |-> t, message |-> n]
SubscribersMissNothing ==
    ~astray => \A o \in owed : \/ o.message > Len(forwarded[o.topic])
                               \/ Sending(o.topic, o.message)

(* After its last subscription to a topic has ended a client gets at most  *)
(* the one message that was being sent to it.                              *)
AtMostOneAfterUnsubscribing ==
    ~astray /\ ~misdirected => \A c \in Connection, t \in Topic : late[c][t] <= 1

(* Every query of a client that stays is answered once and in order: what  *)
(* it received, and what is being sent to it, is what main answered it, as *)
(* far as the consumer has come.                                           *)
ReceivedFrom(c, s) ==
    LET own == Selected(received[c], {k \in 1 .. Len(received[c]) : received[c][k].source = s})
    IN  [j \in 1 .. Len(own) |-> own[j].message]
AnswersTo(c, n) ==
    LET taken == SubSeq(accepted[Main], 1, n)
    IN  Selected(taken, {k \in 1 .. Len(taken) : taken[k].asker = c})
BeingSent(c) == IF consumer = "send" /\ element.source = Main /\ copied_from = c
                  THEN <<element.message>> ELSE << >>
AnswersConserved ==
    ~misdirected => \A c \in Connection : client[c] = "open" =>
        ReceivedFrom(c, Main) \o BeingSent(c) = AnswersTo(c, Len(forwarded[Main]))

(* Every command of an accepted connection is executed, whatever others    *)
(* send meanwhile: main visits every connection again and again.  A client *)
(* that resets its connection may take commands back, and a query that     *)
(* fails or a walk that goes astray may end the process.                   *)
ExecutedOf(c) ==
    sent[c] - Len(inbox[c])
            - (IF main = "execute" /\ Head(to_visit) = c THEN Len(batch) ELSE 0)
CommandsAreExecuted ==
    \A c \in Connection : \A n \in 1 .. MaxSent[c] :
        sent[c] >= n /\ c \in ToSet(socket_list[connection_sockets])
            ~> ExecutedOf(c) >= n \/ client[c] = "reset" \/ process = "crashed"

(* The consumer thread is done with every message some time.               *)
EverythingIsSent ==
    \A s \in Topic \cup {Main} :
        Len(accepted[s]) > Len(forwarded[s])
            ~> (Len(accepted[s]) = Len(forwarded[s]) /\ consumer = "consume")
               \/ process = "crashed"

(* outgoing_buffer.cpp:76, outgoing_buffer.h:27: a message goes "through   *)
(* all subscription sockets of a certain topic", a response to the "one    *)
(* connection socket that the response should be sent to".                 *)
NeverMisdirected == ~misdirected

(* command_execution.cpp:106: a topic's number of subscribers has "5       *)
(* characters for SUBSCRIBER_LIST_MAX_SIZE", so no list is ever longer.    *)
ListsKeepToTheLimit == \A t \in Topic : Len(socket_list[t]) <= SUBSCRIBER_LIST_MAX_SIZE
=============================================================================
