---------------------------- MODULE Conversation ----------------------------
(***************************************************************************)
(* What goes over the connections between the clients and the broker       *)
(* (Client.cpp, networking_client.cpp, command_creation.cpp and the        *)
(* sending and receiving in networking_broker.cpp and broker.cpp): strings *)
(* become bytes, which the sockets' bounded buffers hold and recv() hands  *)
(* out in arbitrary portions; and everybody may have to wait for somebody  *)
(* else to read.                                                           *)
(*                                                                         *)
(* A string is two pieces: its front, whose first byte is '#' or not, and  *)
(* its rest, which ends with '\0' and may itself begin with a '#' from the *)
(* string's middle.                                                        *)
(* There is one topic, known to the broker or not, and four of the five    *)
(* commands.  The broker's lists and threads are those of Broker and       *)
(* BrokerThreads, taken as sequences.                                      *)
(***************************************************************************)
EXTENDS Integers, Sequences, FiniteSets, SequencesExt, FiniteSetsExt, Selection

CONSTANTS Client, NULL,
          Option,                       \* what each client's user may choose for
                                        \*   his first command, his second ...
          Leaving,                      \* the clients whose users may exit
          Inner,                        \* what the inside of a command may look like,
                                        \*   from a '#' on, to the broker
          Unlucky,                      \* the clients whom main may accept and lose
          MaxCuts,                      \* bound: strings whose rest comes later than
                                        \*   their front
          CONNECTION_SOCKET_LIST_MAX_SIZE,
          BROKER_RECEIVE_BUFFER_SIZE, CLIENT_RECEIVE_BUFFER_SIZE,
          MAX_OUTGOING_BUFFER_SIZE,
          BrokerBuffer, ClientBuffer,   \* external: room of a connection, towards
          NotificationBuffer            \*   the broker, the client, the StatsManager

Queries == {"topic_exists", "subscriber_number"}
Operation == Queries \cup {"publish", "subscribe"}

(* What is sent.  Of a command received up to somewhere in its middle, the *)
(* first part and the rest may both be taken for commands.                 *)
Commands == [kind : {"command", "cut off", "rest"}, number : Nat, hashtag : {TRUE},
             operation : Operation, known : BOOLEAN]
Messages == [kind : {"message"}, number : Nat, hashtag : {TRUE}]
Answers == [kind : {"answer"}, number : Nat, to : Client, hashtag : BOOLEAN]

ASSUME ConversationAssumption ==
    /\ NULL \notin Client \cup Commands \cup Messages \cup Answers
    /\ Option \in [Client -> Seq(SUBSET [operation : Operation, known : BOOLEAN])]
    /\ Inner \subseteq [operation : Operation, known : BOOLEAN]
    /\ Leaving \subseteq Client /\ Unlucky \subseteq Client
    /\ {MaxCuts, CONNECTION_SOCKET_LIST_MAX_SIZE} \subseteq Nat
    /\ {BROKER_RECEIVE_BUFFER_SIZE, CLIENT_RECEIVE_BUFFER_SIZE,
        MAX_OUTGOING_BUFFER_SIZE, BrokerBuffer, ClientBuffer, NotificationBuffer}
         \subseteq Nat \ {0}

VARIABLES
    client,              \* where each client is in its loop
    command,             \* the command it sends or whose answer it waits for
    receive_buffer,      \* what is left in the client's receive_buffer
    to_broker, to_client,           \* the connections
    main, connections, to_visit, batch, response,
    subscribers, queue, outgoing_buffer,
    element, to_send,    \* the consumer thread's element, and whom to send it to
    notifications,       \* sent to the StatsManager and not yet received
    left_in_buffer,      \* what is left in main's receive_buffer
    broken,              \* somebody ran into undefined behaviour
    sent, asked, published,         \* history: how many commands, whether any
                         \*   was a question, how many messages
    executed,            \* history: what main executed for each client
    sent_to, shown,      \* history: what each client was sent, and made of it
    cut_in, cut_out,     \* history: something of a client's was received in two
                         \*   calls, or sent in part
    lost                 \* history: accepted, and then in no list

clientVars == <<client, command, receive_buffer, shown, sent, asked>>
mainVars == <<main, connections, to_visit, batch, response, subscribers, notifications,
              left_in_buffer, executed, published, cut_in, lost>>
consumerVars == <<element, to_send, sent_to>>
vars == <<clientVars, to_broker, to_client, mainVars, queue, outgoing_buffer,
          consumerVars, broken, cut_out>>

Init ==
    /\ client = [c \in Client |-> "absent"]
    /\ command = [c \in Client |-> NULL]
    /\ receive_buffer = [c \in Client |-> << >>]
    /\ to_broker = [c \in Client |-> << >>] /\ to_client = [c \in Client |-> << >>]
    /\ main = "receive" /\ connections = << >> /\ to_visit = << >> /\ batch = << >>
    /\ response = NULL /\ subscribers = << >> /\ queue = << >> /\ outgoing_buffer = << >>
    /\ element = NULL /\ to_send = << >> /\ notifications = 0 /\ left_in_buffer = << >>
    /\ broken = FALSE
    /\ sent = [c \in Client |-> 0] /\ published = 0
    /\ asked = [c \in Client |-> FALSE]
    /\ executed = [c \in Client |-> << >>]
    /\ sent_to = [c \in Client |-> << >>] /\ shown = [c \in Client |-> << >>]
    /\ cut_in = [c \in Client |-> FALSE] /\ cut_out = [c \in Client |-> FALSE]
    /\ lost = {}

-----------------------------------------------------------------------------
(* Strings and pieces.                                                     *)
create_command(option, n) ==
    [kind |-> "command", number |-> n, hashtag |-> TRUE,
     operation |-> option.operation, known |-> option.known]
Message(n) == [kind |-> "message", number |-> n, hashtag |-> TRUE]
Answer(c, question) ==
    [kind |-> "answer", number |-> question.number, to |-> c,
     hashtag |-> question.operation = "subscriber_number" /\ ~question.known]
Misread == [kind |-> "misread"]

FrontOf(item) == [item |-> item, part |-> "front"]
RestOf(item) == [item |-> item, part |-> "rest"]
Whole(item) == <<FrontOf(item), RestOf(item)>>

EndsWithin(portion) == Last(portion).part = "front"
MayCut == Cardinality({c \in Client : cut_in[c]}) + Cardinality({c \in Client : cut_out[c]})
            < MaxCuts

(* recv() takes some of what has arrived, over what is in the buffer; what *)
(* is left behind it may or may not begin with a string, and of a last     *)
(* string that is not there to its end a tail may be left.                 *)
Portions(stream, size) ==
    LET most == Min({Len(stream), size})
        portion == [n \in 1 .. most |-> SubSeq(stream, 1, n)]
    IN  {portion[n] : n \in {n \in 1 .. most : n = most \/ MayCut \/ ~EndsWithin(portion[n])}}
Remainder(stream, portion) == SubSeq(stream, Len(portion) + 1, Len(stream))
Tails(old) == {<<RestOf(piece.item)>> : piece \in {p \in {Last(old)} : p.part = "front"}}
Over(portion, old) ==
    IF old = << >> THEN {portion}
                   ELSE {portion \o left : left \in Suffixes(Tail(old)) \cup Tails(old)}

(* The loops over a receive buffer (broker.cpp:115-128, Client.cpp:64-80): *)
(* string by string, up to the first that does not begin with '#'.  A rest *)
(* may: every command has a '#' inside, and what users type may have more; *)
(* only answers have none.                                                 *)
Starts(s) == {k \in 1 .. Len(s) : k = 1 \/ s[k - 1].part = "rest"}
Mistakable(s) == {k \in Starts(s) : s[k].part = "rest" /\ s[k].item.kind # "answer"}
Stops(s, mistaken) == {k \in Starts(s) \ mistaken : s[k].part = "rest" \/ ~s[k].item.hashtag}
UpToStop(s, stops) == IF stops = {} THEN s ELSE SubSeq(s, 1, Min(stops) - 1)
Scanned(s) == {UpToStop(s, Stops(s, mistaken)) : mistaken \in SUBSET Mistakable(s)}

(* The strings that are there from end to end.                             *)
WholeAt(s) == {k \in Starts(s) : k < Len(s) /\ s[k + 1].part = "rest"}
Items(s) == [k \in 1 .. Len(s) |-> s[k].item]
Strings(s) == Selected(Items(s), WholeAt(s))

-----------------------------------------------------------------------------
(* The client's loop.  Its user may do nothing for as long as he likes.    *)
ClientAt(c, label) == client' = [client EXCEPT ![c] = label]

connect_to_broker(c) ==
    /\ client[c] = "absent"
    /\ ClientAt(c, "read")
    /\ UNCHANGED <<command, receive_buffer, shown, sent, asked, to_broker, to_client, broken, cut_out>>

get_option(c) ==
    /\ client[c] = "prompt"
    /\ sent[c] < Len(Option[c])
    /\ \E option \in Option[c][sent[c] + 1] :
          command' = [command EXCEPT ![c] = create_command(option, sent[c] + 1)]
    /\ ClientAt(c, "send")
    /\ UNCHANGED <<receive_buffer, shown, sent, asked, to_broker, to_client, broken, cut_out>>

(* With something unread this resets the connection, and what the broker   *)
(* has not received is gone.                                               *)
cleanup(c) ==
    /\ client[c] = "prompt" /\ c \in Leaving
    /\ \/ /\ to_client[c] = << >>
          /\ ClientAt(c, "exited")
          /\ UNCHANGED to_broker
       \/ /\ to_client[c] # << >>
          /\ ClientAt(c, "reset")
          /\ to_broker' = [to_broker EXCEPT ![c] = << >>]
    /\ UNCHANGED <<command, receive_buffer, shown, sent, asked, to_client, broken, cut_out>>

(* A blocking socket: send() waits for room for all of it.                 *)
send_command(c) ==
    /\ client[c] = "send"
    /\ Len(to_broker[c]) + 2 <= BrokerBuffer
    /\ to_broker' = [to_broker EXCEPT ![c] = @ \o Whole(command[c])]
    /\ sent' = [sent EXCEPT ![c] = @ + 1]
    /\ asked' = [asked EXCEPT ![c] = @ \/ command[c].operation \in Queries]
    /\ IF command[c].operation \in Queries
         THEN ClientAt(c, "ask") /\ UNCHANGED command
         ELSE ClientAt(c, "read") /\ command' = [command EXCEPT ![c] = NULL]
    /\ UNCHANGED <<receive_buffer, shown, to_client, broken, cut_out>>

(* recv() on the client's side.  A full buffer holds no zero byte behind   *)
(* what was received, and the loops run out of it.                         *)
receive_from_broker(c, portion) ==
    /\ portion \in Portions(to_client[c], CLIENT_RECEIVE_BUFFER_SIZE)
    /\ to_client' = [to_client EXCEPT ![c] = Remainder(@, portion)]
    /\ cut_out' = [cut_out EXCEPT ![c] = @ \/ EndsWithin(portion)]
    /\ broken' \in {FALSE, Len(portion) = CLIENT_RECEIVE_BUFFER_SIZE}

(* Whatever comes first is taken for the answer.                           *)
TakenForAnswer(c, piece) ==
    IF piece = FrontOf(Answer(c, command[c])) THEN piece.item ELSE Misread
answer_without_waiting(c) ==                                        \* mutant
    /\ client[c] = "ask"
    /\ \/ \E portion \in Portions(to_client[c], CLIENT_RECEIVE_BUFFER_SIZE) :
            /\ receive_from_broker(c, portion)
            /\ shown' = [shown EXCEPT ![c] = Append(@, TakenForAnswer(c, Head(portion)))]
       \/ /\ to_client[c] = << >>
          /\ shown' = [shown EXCEPT ![c] = Append(@, Misread)]
          /\ UNCHANGED <<to_client, broken, cut_out>>
    /\ ClientAt(c, "read") /\ command' = [command EXCEPT ![c] = NULL]
    /\ UNCHANGED <<receive_buffer, sent, asked, to_broker>>
receive_answer(c) ==
    /\ client[c] = "ask"
    /\ \E portion \in Portions(to_client[c], CLIENT_RECEIVE_BUFFER_SIZE) :
          /\ receive_from_broker(c, portion)
          /\ receive_buffer' \in {[receive_buffer EXCEPT ![c] = content] :
                                    content \in Over(portion, receive_buffer[c])}
          /\ shown' = [shown EXCEPT ![c] = Append(@, TakenForAnswer(c, Head(portion)))]
    /\ ClientAt(c, "read") /\ command' = [command EXCEPT ![c] = NULL]
    /\ UNCHANGED <<sent, asked, to_broker>>

(* What is shown of a string that is not there as it was sent.             *)
ShownAt(s, k) ==
    IF s[k].part = "front" /\ k < Len(s) /\ s[k + 1] = RestOf(s[k].item) THEN s[k].item
                                                                     ELSE Misread
ShownIn(s) == Selected([k \in 1 .. Len(s) |-> ShownAt(s, k)], Starts(s))

receive_subscription_messages(c) ==
    /\ \/ /\ to_client[c] = << >>
          /\ UNCHANGED <<receive_buffer, shown, to_client, broken, cut_out>>
       \/ \E portion \in Portions(to_client[c], CLIENT_RECEIVE_BUFFER_SIZE) :
             /\ receive_from_broker(c, portion)
             /\ \E content \in Over(portion, receive_buffer[c]) :
                   \E scanned \in Scanned(content) :
                      shown' = [shown EXCEPT ![c] = @ \o ShownIn(scanned)]
             /\ receive_buffer' = [receive_buffer EXCEPT ![c] = << >>]
    /\ ClientAt(c, "prompt")
    /\ UNCHANGED <<command, sent, asked, to_broker>>

ClientProgram(c) ==
    /\ \/ send_command(c) \/ receive_answer(c)
       \/ client[c] = "read" /\ receive_subscription_messages(c)
    /\ UNCHANGED <<mainVars, queue, outgoing_buffer, consumerVars>>
ClientUser(c) ==
    /\ \/ connect_to_broker(c) \/ get_option(c) \/ cleanup(c)
       \/ client[c] = "prompt" /\ receive_subscription_messages(c)    \* option 7
    /\ UNCHANGED <<mainVars, queue, outgoing_buffer, consumerVars>>

-----------------------------------------------------------------------------
(* main: accept_connection() and receive_commands(), connection by         *)
(* connection, newest first.                                               *)
Unaccepted == {c \in Client : client[c] \notin {"absent", "gone"}} \ (ToSet(connections) \cup lost)

ServeFrom(list) ==
    /\ main = "receive" /\ to_visit = << >>
    /\ connections' = list /\ to_visit' = list
    /\ UNCHANGED <<client, to_broker, main, batch, response, subscribers, queue, outgoing_buffer,
                   notifications, left_in_buffer, broken, executed, published, cut_in>>

(* Once it is accepted, ioctlsocket() may fail; then it is in no list.     *)
accept(c) ==
    /\ Len(connections) <= CONNECTION_SOCKET_LIST_MAX_SIZE
    /\ c \in Unaccepted
    /\ \/ ServeFrom(Cons(c, connections)) /\ UNCHANGED lost
       \/ c \in Unlucky /\ ServeFrom(connections) /\ lost' = lost \cup {c}

(* Nobody is there, there is no room for him, or select() or accept()      *)
(* fails; he may be accepted another time.                                 *)
accept_nobody == ServeFrom(connections) /\ UNCHANGED lost

accept_connection == accept_nobody \/ \E c \in Client : accept(c)

(* A command that is not there to its end is executed as far as it goes,   *)
(* and a rest that begins with '#' as if it were one.                      *)
CommandAt(s, k) ==
    CASE s[k].part = "rest" -> [s[k].item EXCEPT !.kind = "rest"]
      [] s[k].part = "front" /\ k = Len(s) -> [s[k].item EXCEPT !.kind = "cut off"]
      [] OTHER -> s[k].item
CommandsIn(s) == Selected([k \in 1 .. Len(s) |-> CommandAt(s, k)], Starts(s))
Received(c) ==
    /\ \E portion \in Portions(to_broker[c], BROKER_RECEIVE_BUFFER_SIZE) :
          /\ to_broker' = [to_broker EXCEPT ![c] = Remainder(@, portion)]
          /\ left_in_buffer' \in Over(portion, left_in_buffer)
          /\ cut_in' = [cut_in EXCEPT ![c] = @ \/ EndsWithin(portion)]
          /\ broken' \in {FALSE, Len(portion) = BROKER_RECEIVE_BUFFER_SIZE}
    /\ \E scanned \in Scanned(left_in_buffer') : batch' = CommandsIn(scanned)
    /\ main' = "execute"
    /\ UNCHANGED <<client, connections, to_visit, subscribers>>

NothingReceived(c) ==
    /\ to_broker[c] = << >> /\ client[c] # "exited"
    /\ to_visit' = Tail(to_visit)
    /\ UNCHANGED <<client, to_broker, main, connections, batch, subscribers,
                   left_in_buffer, broken, cut_in>>

ConnectionClosed(c) ==
    /\ to_broker[c] = << >> /\ client[c] = "exited"
    /\ ClientAt(c, "gone")
    /\ to_visit' = Tail(to_visit)
    /\ connections' = RemoveFirst(connections, c)
    /\ subscribers' = RemoveFirst(subscribers, c)
    /\ UNCHANGED <<to_broker, main, batch, left_in_buffer, broken, cut_in>>

receive_commands ==
    /\ main = "receive" /\ to_visit # << >>
    /\ LET c == Head(to_visit)
       IN  Received(c) \/ NothingReceived(c) \/ ConnectionClosed(c)
    /\ UNCHANGED <<response, queue, outgoing_buffer, notifications, executed, published, lost>>

(* What a command may be taken for: one that is cut off is complete but    *)
(* for its last byte, or names a part of a topic, or not even that, and    *)
(* the extraction of its topic then runs out of the buffer; a rest may be  *)
(* anything.                                                               *)
Nothing == [operation |-> "nothing", known |-> FALSE]
TakenFor(item) ==
    LET cut_at == {[operation |-> item.operation, known |-> known] : known \in BOOLEAN}
        takenFor(options) == {[item EXCEPT !.operation = option.operation, !.known = option.known] :
                                option \in options}
    IN  CASE item.kind = "command" -> {item}
          [] item.kind = "cut off" -> takenFor(cut_at) \cup {Nothing}
          [] item.kind = "rest" -> takenFor(Inner) \cup {Nothing}

answer_known_only(c, meant) ==                                      \* mutant
    IF meant.operation \in Queries /\ meant.known THEN Answer(c, meant) ELSE NULL
response_to(c, meant) ==
    IF meant.operation \in Queries THEN Answer(c, meant) ELSE NULL

execute_command ==
    /\ main = "execute" /\ batch # << >>
    /\ LET c == Head(to_visit)
           item == Head(batch)
       IN  /\ executed' = [executed EXCEPT ![c] = Append(@, item)]
           /\ \E meant \in TakenFor(item) :
                 /\ broken' \in {FALSE, meant = Nothing}
                 /\ IF meant.operation = "publish" /\ meant.known
                      THEN /\ queue' = Append(queue, Message(published + 1))
                           /\ published' = published + 1
                      ELSE UNCHANGED <<queue, published>>
                 /\ subscribers' = IF meant.operation = "subscribe" /\ meant.known
                                     THEN Cons(c, subscribers) ELSE subscribers
                 /\ response' = response_to(c, meant)
                 /\ main' = CASE meant.known -> "notify"
                              [] response' # NULL -> "produce"
                              [] OTHER -> "execute"
    /\ batch' = Tail(batch)
    /\ UNCHANGED <<client, to_broker, connections, to_visit, outgoing_buffer, notifications,
                   left_in_buffer, cut_in, lost>>

send_to_stats_manager ==
    /\ main = "notify"
    /\ notifications < NotificationBuffer
    /\ notifications' = notifications + 1
    /\ main' = IF response # NULL THEN "produce" ELSE "execute"
    /\ UNCHANGED <<response, outgoing_buffer>>

produce_new_message ==
    /\ main = "produce"
    /\ Len(outgoing_buffer) < MAX_OUTGOING_BUFFER_SIZE
    /\ outgoing_buffer' = Append(outgoing_buffer, response)
    /\ response' = NULL
    /\ main' = "execute"
    /\ UNCHANGED notifications

(* memset()                                                                *)
keep_receive_buffer == UNCHANGED left_in_buffer                     \* mutant
clear_receive_buffer == left_in_buffer' = << >>

batch_ends ==
    /\ main = "execute" /\ batch = << >>
    /\ clear_receive_buffer
    /\ main' = "receive" /\ to_visit' = Tail(to_visit)
    /\ UNCHANGED <<client, to_broker, connections, batch, response, subscribers, queue,
                   outgoing_buffer, notifications, broken, executed, published, cut_in, lost>>

MainStep ==
    /\ \/ accept_connection \/ receive_commands \/ execute_command \/ batch_ends
       \/ /\ send_to_stats_manager \/ produce_new_message
          /\ UNCHANGED <<client, to_broker, connections, to_visit, batch, subscribers, queue,
                         left_in_buffer, broken, executed, published, cut_in, lost>>
    /\ UNCHANGED <<command, receive_buffer, shown, sent, asked, to_client, consumerVars, cut_out>>

-----------------------------------------------------------------------------
(* The other threads, and the StatsManager.                                *)
produce ==
    /\ queue # << >> /\ Len(outgoing_buffer) < MAX_OUTGOING_BUFFER_SIZE
    /\ outgoing_buffer' = Append(outgoing_buffer, Head(queue))
    /\ queue' = Tail(queue)
    /\ UNCHANGED <<clientVars, to_broker, to_client, mainVars, consumerVars, broken, cut_out>>

consume ==
    /\ element = NULL /\ outgoing_buffer # << >>
    /\ LET first == Head(outgoing_buffer)
       IN  /\ to_send' = IF first.kind = "answer" THEN <<first.to>> ELSE subscribers
           /\ element' = IF to_send' = << >> THEN NULL ELSE first
    /\ outgoing_buffer' = Tail(outgoing_buffer)
    /\ UNCHANGED <<clientVars, to_broker, to_client, mainVars, queue, sent_to, broken, cut_out>>

(* send() on a socket that does not block puts in what there is room for,  *)
(* once select() has found room for something; its result is only compared *)
(* with SOCKET_ERROR.                                                      *)
send_to_client ==
    /\ element # NULL
    /\ LET c == Head(to_send)
           room == ClientBuffer - Len(to_client[c])
       IN  IF client[c] \in {"exited", "reset", "gone"}
             THEN UNCHANGED <<to_client, sent_to, cut_out>>
             ELSE /\ room > 0
                  /\ to_client' = [to_client EXCEPT ![c] =
                                     @ \o (IF room = 1 THEN <<FrontOf(element)>> ELSE Whole(element))]
                  /\ cut_out' = [cut_out EXCEPT ![c] = @ \/ room = 1]
                  /\ sent_to' = [sent_to EXCEPT ![c] = Append(@, element)]
    /\ to_send' = Tail(to_send)
    /\ element' = IF to_send' = << >> THEN NULL ELSE element
    /\ UNCHANGED <<clientVars, to_broker, mainVars, queue, outgoing_buffer, broken>>

receive_notifications ==
    /\ notifications > 0
    /\ notifications' = 0
    /\ UNCHANGED <<clientVars, to_broker, to_client, main, connections, to_visit, batch,
                   response, subscribers, left_in_buffer, executed, published, cut_in, lost, queue,
                   outgoing_buffer, consumerVars, broken, cut_out>>

ConsumerStep == consume \/ send_to_client

Next ==
    /\ ~broken
    /\ \/ \E c \in Client : ClientUser(c) \/ ClientProgram(c)
       \/ MainStep \/ produce \/ ConsumerStep \/ receive_notifications

Spec == Init /\ [][Next]_vars

(* Programs and threads run on wherever they can, and accept() does not    *)
(* fail for ever; users need do nothing.                                   *)
Accept == ~broken /\ MainStep /\ \E c \in Client : accept(c)
FairSpec ==
    /\ Spec
    /\ \A c \in Client : WF_vars(~broken /\ ClientProgram(c))
    /\ WF_vars(~broken /\ MainStep) /\ SF_vars(Accept) /\ WF_vars(~broken /\ produce)
    /\ WF_vars(~broken /\ ConsumerStep) /\ WF_vars(~broken /\ receive_notifications)
-----------------------------------------------------------------------------
(* However recv() portions them out, main executes a client's commands in  *)
(* the order of their sending and none of them twice; but of one received  *)
(* in two calls it may execute the first part, and then the rest as if it  *)
(* were another.  While none was, whatever it executes is a command as it  *)
(* was sent, and none is left out unless the connection was reset.         *)
Numbers(s) == [k \in 1 .. Len(s) |-> s[k].number]
Taken(c) == IF main \in {"execute", "notify", "produce"} /\ Head(to_visit) = c
              THEN batch ELSE << >>
Before(one, other) ==
    \/ one.number < other.number
    \/ one.number = other.number /\ one.kind = "cut off" /\ other.kind = "rest"
ExecutedAsSent ==
    ~broken => \A c \in Client :
        /\ \A j, k \in 1 .. Len(executed[c]) : j < k => Before(executed[c][j], executed[c][k])
        /\ ~cut_in[c] => \A k \in 1 .. Len(executed[c]) : executed[c][k].kind = "command"
        /\ ~cut_in[c] /\ client[c] # "reset" =>
              Numbers(executed[c] \o Taken(c) \o Strings(to_broker[c])) = [n \in 1 .. sent[c] |-> n]

(* Nothing is shown to a user more often than it was sent to him; and he   *)
(* is shown all of it and in order, every answer for the question it       *)
(* answers, if nothing on its way to him was sent or received in two parts *)
(* and he never asks, or was only ever sent answers.  But once a command   *)
(* of his is received in two parts, he may be sent answers to questions    *)
(* that he never asked, or not as he asked them, and from then on nothing  *)
(* can be said of what he is shown.                                        *)
OnlySent(c, kind) == \A item \in ToSet(sent_to[c]) : item.kind = kind
Times(item, s) == Cardinality({k \in 1 .. Len(s) : s[k] = item})
ShownAsSent ==
    ~broken => \A c \in Client :
        /\ \A item \in ToSet(shown[c]) \ {Misread} :
              Times(item, shown[c]) <= Times(item, sent_to[c])
        /\ /\ ~cut_out[c]
           /\ asked[c] => ~cut_in[c] /\ OnlySent(c, "answer")
           /\ cut_in[c] => OnlySent(c, "message")
           => sent_to[c] = shown[c] \o Strings(to_client[c])

(* Whoever asks is not left waiting: main, the threads and the buffers     *)
(* keep moving, unless somebody's connection is full and stays so, because *)
(* his user does not come back or because his own send() has no room; or   *)
(* unless he was accepted and lost, or never accepted for want of room in  *)
(* the broker's list.                                                      *)
Stalls(c) == Len(to_client[c]) = ClientBuffer /\ client[c] \in {"prompt", "send"}
LeftOut(c) ==
    \/ c \in lost
    \/ c \notin ToSet(connections) /\ Len(connections) > CONNECTION_SOCKET_LIST_MAX_SIZE
QuestionsEnd ==
    \A c \in Client :
        \/ []<>(client[c] # "ask")
        \/ <>[](broken \/ cut_in[c] \/ LeftOut(c) \/ \E d \in Client : Stalls(d))
=============================================================================
