---------------------------- MODULE BrokerProofs ----------------------------
(* For any number of connections, handles, topics and messages and any     *)
(* limits of the lists: handles that the operating system gives out again  *)
(* are never taken for their former owners', the counts the StatsManager   *)
(* is told and the lists agree with the commands, messages arrive in order *)
(* and at everybody who stays subscribed, unsubscribing ends them, and     *)
(* every query is answered once, whatever the consumer's walk meets.       *)
EXTENDS Broker, RosterLemmas

-----------------------------------------------------------------------------
Sources == Topic \cup {Main}
Response == [to : Handle \cup {INVALID_SOCKET, NULL}, asker : Connection, answer : Int]

(* What main works on.                                                     *)
MainTypeOK ==
    /\ peer \in [Handle -> Connection \cup {NULL}]
    /\ socket \in [Connection -> Handle \cup {INVALID_SOCKET, NULL}]
    /\ socket_list \in [SocketLists -> Seq(Connection)]
    /\ inbox \in [Connection -> Seq(Command)]
    /\ batch \in Seq(Command)
    /\ to_visit \in Seq(Connection)
    /\ notified \in [Command -> Nat]
    /\ accepted \in [Sources -> Seq(Nat \cup Response)]
    /\ i \in Topic

(* main executes only what it received, from the connection it visits, and *)
(* removes from the topics' lists only a connection it has closed.         *)
MainIsWhere ==
    /\ main = "execute" => to_visit # << >> /\ batch # << >>
    /\ main = "remove" => closing \in Connection /\ socket[closing] = INVALID_SOCKET

MainInv == MainTypeOK /\ MainIsWhere /\ SocketsNameTheirPeers /\ StatisticsAddUp

LEMMA FreeNodeShortens ==
  ASSUME socket_list \in [SocketLists -> Seq(Connection)], NEW l \in SocketLists,
         NEW c \in Connection, free_node(l, c)
  PROVE  /\ socket_list' \in [SocketLists -> Seq(Connection)]
         /\ \A k \in SocketLists : k # l => socket_list'[k] = socket_list[k]
         /\ Len(socket_list'[l]) =
               IF c \in ToSet(socket_list[l]) THEN Len(socket_list[l]) - 1 ELSE Len(socket_list[l])
<1>1. CASE c \notin ToSet(socket_list[l])
  BY <1>1 DEF free_node
<1>2. CASE c \in ToSet(socket_list[l])
  <2>1. socket_list' = [socket_list EXCEPT ![l] = RemoveFirst(@, c)]
    BY <1>2 DEF free_node
  <2>2. /\ RemoveFirst(socket_list[l], c) \in Seq(Connection)
        /\ Len(RemoveFirst(socket_list[l], c)) = Len(socket_list[l]) - 1
    BY <1>2, RemoveFirstElements
  <2> QED BY <1>2, <2>1, <2>2
<1> QED BY <1>1, <1>2

LEMMA AddToStartLengthens ==
  ASSUME socket_list \in [SocketLists -> Seq(Connection)], NEW l \in SocketLists,
         NEW c \in Connection, add_to_start(l, c)
  PROVE  /\ socket_list' \in [SocketLists -> Seq(Connection)]
         /\ \A k \in SocketLists : k # l => socket_list'[k] = socket_list[k]
         /\ Len(socket_list'[l]) = Len(socket_list[l]) + 1
<1>1. /\ Cons(c, socket_list[l]) \in Seq(Connection)
      /\ Len(Cons(c, socket_list[l])) = Len(socket_list[l]) + 1
  BY ConsElements
<1> QED BY <1>1 DEF add_to_start

LEMMA MainInvInit == Init => MainInv
<1> SUFFICES ASSUME Init PROVE MainInv
  OBVIOUS
<1> USE BrokerAssumption DEF Init
<1>1. MainTypeOK
  BY DEF MainTypeOK, Sources, Log!Init, Topic
<1>2. MainIsWhere
  BY DEF MainIsWhere
<1>3. SocketsNameTheirPeers
  BY DEF SocketsNameTheirPeers
<1>4. StatisticsAddUp
  BY DEF StatisticsAddUp, Told, Log!Init, SocketLists
<1> QED BY <1>1, <1>2, <1>3, <1>4 DEF MainInv

(* A notification counts for its operation and its topic, and no other.    *)
LEMMA ToldOfOne ==
  ASSUME notified \in [Command -> Nat], NEW command \in Command,
         notify_stats_manager(command), NEW op \in Operation, NEW t \in Topic
  PROVE  Told(op, t)' = IF command.operation = op /\ command.topic = t
                          THEN Told(op, t) + 1 ELSE Told(op, t)
<1> DEFINE c == [operation |-> op, topic |-> t]
<1>1. c = command <=> command.operation = op /\ command.topic = t
  BY BrokerAssumption
<1>2. c \in Command => notified'[c] = IF c = command THEN notified[c] + 1 ELSE notified[c]
  BY DEF notify_stats_manager
<1>3. Told(op, t) = (IF c \in Command THEN notified[c] ELSE 0)
  BY DEF Told
<1>4. Told(op, t)' = (IF c \in Command THEN notified'[c] ELSE 0)
  BY DEF Told
<1> HIDE DEF c
<1>5. CASE c \in Command
  BY <1>1, <1>2, <1>3, <1>4, <1>5
<1>6. CASE c \notin Command
  BY <1>1, <1>3, <1>4, <1>6
<1> QED BY <1>5, <1>6

LEMMA ToldIsNumber ==
  ASSUME notified \in [Command -> Nat], NEW op \in Operation, NEW t \in Topic
  PROVE  Told(op, t) \in Nat
  BY DEF Told

(* Steps that touch neither commands nor lists.                            *)
LEMMA StatisticsStand ==
  ASSUME StatisticsAddUp, UNCHANGED <<notified, accepted, socket>>,
         \A t \in Topic : socket_list'[t] = socket_list[t]
  PROVE  StatisticsAddUp'
  BY DEF StatisticsAddUp, Told

LEMMA AcceptKeepsInv ==
  ASSUME MainInv, accept_connection
  PROVE  MainInv'
<1> USE BrokerAssumption DEF MainInv
<1>0. /\ UNCHANGED <<inbox, batch, notified, accepted, i>>
      /\ main' = "receive" /\ to_visit' = socket_list'[connection_sockets]
      /\ connection_sockets \in SocketLists /\ connection_sockets \notin Topic
      /\ Topic \subseteq SocketLists
  BY DEF accept_connection, clientVars, begin_round, SocketLists, Topic, connection_sockets
<1>1. CASE UNCHANGED <<peer, socket, socket_list>>
  <2>1. MainTypeOK'
    BY <1>0, <1>1 DEF MainTypeOK
  <2>2. MainIsWhere' /\ SocketsNameTheirPeers'
    BY <1>0, <1>1 DEF MainIsWhere, SocketsNameTheirPeers
  <2> QED BY <1>0, <1>1, <2>1, <2>2, StatisticsStand
<1>2. ASSUME NEW c \in Connection, NEW h \in Handle, socket[c] = NULL, peer[h] = NULL,
             peer' = [peer EXCEPT ![h] = c], socket' = [socket EXCEPT ![c] = h],
             add_to_start(connection_sockets, c) \/ UNCHANGED socket_list
      PROVE  MainInv'
  <2>1. /\ socket_list' \in [SocketLists -> Seq(Connection)]
        /\ \A k \in SocketLists : k # connection_sockets => socket_list'[k] = socket_list[k]
    BY <1>0, <1>2, AddToStartLengthens DEF MainTypeOK
  <2>2. MainTypeOK'
    BY <1>0, <1>2, <2>1 DEF MainTypeOK
  <2>3. MainIsWhere'
    BY <1>0 DEF MainIsWhere
  <2>4. SocketsNameTheirPeers'
    BY <1>2 DEF SocketsNameTheirPeers, MainTypeOK
  <2>5. StatisticsAddUp'
    <3>1. \A t \in Topic : socket_list'[t] = socket_list[t]
      BY <1>0, <2>1
    <3>2. (\A d \in Connection : socket'[d] # INVALID_SOCKET)
             => (\A d \in Connection : socket[d] # INVALID_SOCKET)
      BY <1>2 DEF MainTypeOK
    <3> QED BY <1>0, <3>1, <3>2 DEF StatisticsAddUp, Told
  <2> QED BY <2>2, <2>3, <2>4, <2>5
<1> QED BY <1>1, <1>2 DEF accept_connection

LEMMA ReceiveKeepsInv ==
  ASSUME MainInv, receive_commands
  PROVE  MainInv'
<1> USE BrokerAssumption DEF MainInv
<1> DEFINE c == Head(to_visit)
<1>1. /\ main = "receive" /\ c \in Connection /\ Tail(to_visit) \in Seq(Connection)
      /\ NothingReceived(c) \/ Received(c) \/ ConnectionClosed(c)
      /\ UNCHANGED <<notified, accepted>>
  BY DEF receive_commands, MainTypeOK
<1> HIDE DEF c
<1>2. CASE NothingReceived(c)
  <2>1. MainTypeOK'
    BY <1>1, <1>2 DEF NothingReceived, MainTypeOK, c
  <2>2. MainIsWhere' /\ SocketsNameTheirPeers'
    BY <1>1, <1>2 DEF NothingReceived, MainIsWhere, SocketsNameTheirPeers
  <2> QED BY <1>1, <1>2, <2>1, <2>2, StatisticsStand DEF NothingReceived
<1>3. CASE Received(c)
  <2>1. inbox[c] \in Seq(Command)
    BY <1>1 DEF MainTypeOK
  <2>2. PICK n \in 1 .. Len(inbox[c]) :
          /\ batch' = SubSeq(inbox[c], 1, n)
          /\ inbox' = [inbox EXCEPT ![c] = SubSeq(@, n + 1, Len(@))]
    BY <1>3 DEF Received
  <2>3. /\ batch' \in Seq(Command) /\ Len(batch') = n
        /\ SubSeq(inbox[c], n + 1, Len(inbox[c])) \in Seq(Command)
    BY <2>1, <2>2
  <2>4. MainTypeOK'
    BY <1>1, <1>3, <2>2, <2>3 DEF Received, MainTypeOK
  <2>5. MainIsWhere'
    <3>1. batch' # << >>
      <4>1. n \in Nat \ {0} /\ Len(batch') = n
        BY <2>1, <2>2, <2>3
      <4>2. Len(<< >>) = 0
        OBVIOUS
      <4>3. Len(batch') # Len(<< >>)
        BY <4>1, <4>2
      <4> QED BY <4>3, Zenon
    <3>2. to_visit' # << >>
      BY <1>3 DEF Received, receive_commands
    <3> QED BY <1>3, <3>1, <3>2 DEF Received, MainIsWhere
  <2>6. SocketsNameTheirPeers'
    BY <1>3 DEF Received, SocketsNameTheirPeers
  <2> QED BY <1>1, <1>3, <2>4, <2>5, <2>6, StatisticsStand DEF Received
<1>4. CASE ConnectionClosed(c)
  <2>1. /\ peer' = [peer EXCEPT ![socket[c]] = NULL]
        /\ socket' = [socket EXCEPT ![c] = INVALID_SOCKET]
        /\ to_visit' = Tail(to_visit) /\ closing' = c /\ i' = 1 /\ main' = "remove"
        /\ UNCHANGED <<batch, inbox>>
        /\ free_node(connection_sockets, c)
    BY <1>4 DEF ConnectionClosed, mark_closed, c
  <2>2. socket_list' \in [SocketLists -> Seq(Connection)]
    BY <1>1, <2>1, FreeNodeShortens DEF MainTypeOK, SocketLists
  <2>3. MainTypeOK'
    <3>1. peer' \in [Handle -> Connection \cup {NULL}]
      BY <2>1 DEF MainTypeOK
    <3>2. socket' \in [Connection -> Handle \cup {INVALID_SOCKET, NULL}]
      BY <2>1 DEF MainTypeOK
    <3>3. i' \in Topic
      BY <2>1 DEF Topic
    <3>4. to_visit' \in Seq(Connection)
      BY <1>1, <2>1 DEF c
    <3> QED BY <1>1, <2>1, <2>2, <3>1, <3>2, <3>3, <3>4 DEF MainTypeOK
  <2>4. MainIsWhere'
    BY <1>1, <2>1 DEF MainIsWhere, MainTypeOK
  <2>5. SocketsNameTheirPeers'
    BY <1>1, <2>1 DEF SocketsNameTheirPeers, MainTypeOK
  <2>6. StatisticsAddUp'
    <3>1. socket'[c] = INVALID_SOCKET
      BY <1>1, <2>1 DEF MainTypeOK
    <3> QED BY <1>1, <3>1 DEF StatisticsAddUp, Told
  <2> QED BY <2>3, <2>4, <2>5, <2>6
<1> QED BY <1>1, <1>2, <1>3, <1>4

LEMMA RemoveKeepsInv ==
  ASSUME MainInv, RemoveSubscription
  PROVE  MainInv'
<1> USE BrokerAssumption DEF MainInv
<1>1. /\ closing \in Connection /\ socket[closing] = INVALID_SOCKET /\ i \in SocketLists
      /\ free_node(i, closing)
      /\ UNCHANGED <<inbox, peer, socket, to_visit, batch, notified, accepted>>
  BY DEF RemoveSubscription, MainIsWhere, MainTypeOK, SocketLists, clientVars
<1>2. socket_list' \in [SocketLists -> Seq(Connection)]
  BY <1>1, FreeNodeShortens DEF MainTypeOK
<1>3. i' \in Topic
  BY DEF RemoveSubscription, MainTypeOK, Topic
<1>4. MainTypeOK'
  BY <1>1, <1>2, <1>3 DEF MainTypeOK
<1>5. MainIsWhere' /\ SocketsNameTheirPeers'
  BY <1>1 DEF MainIsWhere, SocketsNameTheirPeers, RemoveSubscription
<1>6. StatisticsAddUp'
  BY <1>1 DEF StatisticsAddUp, Told
<1> QED BY <1>4, <1>5, <1>6

(* One command: what is notified, accepted and listed changes together.    *)
LEMMA CommandKeepsStatistics ==
  ASSUME MainInv, NEW c \in Connection, NEW command \in Command, UNCHANGED socket,
         publish(c, command) \/ subscribe(c, command) \/ unsubscribe(c, command)
           \/ query(c, command) \/ query_fails(command)
  PROVE  /\ socket_list' \in [SocketLists -> Seq(Connection)]
         /\ accepted' \in [Sources -> Seq(Nat \cup Response)]
         /\ notified' \in [Command -> Nat]
         /\ StatisticsAddUp'
<1> USE BrokerAssumption DEF MainInv, Operation
<1> DEFINE t == command.topic
<1>0. /\ Topic \subseteq SocketLists /\ Topic \subseteq Sources /\ Main \in Sources
      /\ socket_list \in [SocketLists -> Seq(Connection)]
      /\ accepted \in [Sources -> Seq(Nat \cup Response)]
      /\ notified \in [Command -> Nat]
      /\ command.operation \in Operation
  BY DEF SocketLists, Sources, MainTypeOK
<1>1. notify_stats_manager(command) => notified' \in [Command -> Nat]
  BY <1>0 DEF notify_stats_manager
<1>2. ASSUME UNCHANGED <<socket_list, notified>>,
             \A u \in Topic : accepted'[u] = accepted[u]
      PROVE  StatisticsAddUp'
  BY <1>2 DEF StatisticsAddUp, Told
<1>3. \A u \in Topic : Len(socket_list[u]) \in Nat /\ Len(accepted[u]) \in Nat
  BY <1>0
<1>4. \A u \in Topic, op \in Operation : Told(op, u) \in Nat
  BY <1>0, ToldIsNumber
<1>5. ASSUME notify_stats_manager(command) PROVE
      \A u \in Topic, op \in Operation :
         Told(op, u)' = IF command.operation = op /\ command.topic = u
                          THEN Told(op, u) + 1 ELSE Told(op, u)
  BY <1>0, <1>5, ToldOfOne
<1>6. CASE publish(c, command)
  <2>1. CASE t \notin Topic
    <3>1. UNCHANGED <<accepted, notified, socket_list>>
      BY <1>6, <2>1 DEF publish
    <3> QED BY <1>0, <1>2, <3>1
  <2>2. CASE t \in Topic
    <3>1. /\ accepted' = [accepted EXCEPT ![t] = Append(@, Len(accepted[t]) + 1)]
          /\ notify_stats_manager(command) /\ UNCHANGED socket_list
          /\ command.operation = "publish"
      BY <1>6, <2>2 DEF publish, Log!Accept
    <3>2. /\ Append(accepted[t], Len(accepted[t]) + 1) \in Seq(Nat \cup Response)
          /\ Len(Append(accepted[t], Len(accepted[t]) + 1)) = Len(accepted[t]) + 1
      BY <1>0, <1>3, <2>2
    <3>3. /\ accepted' \in [Sources -> Seq(Nat \cup Response)]
          /\ \A u \in Topic : Len(accepted'[u]) =
                IF u = t THEN Len(accepted[u]) + 1 ELSE Len(accepted[u])
      BY <1>0, <2>2, <3>1, <3>2
    <3>4. \A u \in Topic :
            /\ Told("publish", u)' = Len(accepted'[u])
            /\ Told("subscribe", u)' = Told("subscribe", u)
            /\ Told("unsubscribe", u)' = Told("unsubscribe", u)
      BY <1>5, <3>1, <3>3 DEF StatisticsAddUp
    <3>5. StatisticsAddUp'
      BY <3>1, <3>4 DEF StatisticsAddUp
    <3> QED BY <1>0, <1>1, <3>1, <3>3, <3>5
  <2> QED BY <2>1, <2>2
<1>7. CASE subscribe(c, command)
  <2>1. CASE ~(t \in Topic /\ Len(socket_list[t]) <= SUBSCRIBER_LIST_MAX_SIZE)
    <3>1. UNCHANGED <<accepted, notified, socket_list>>
      BY <1>7, <2>1 DEF subscribe
    <3> QED BY <1>0, <1>2, <3>1
  <2>2. CASE t \in Topic /\ Len(socket_list[t]) <= SUBSCRIBER_LIST_MAX_SIZE
    <3>1. /\ add_to_start(t, c) /\ notify_stats_manager(command) /\ UNCHANGED accepted
          /\ command.operation = "subscribe"
      BY <1>7, <2>2 DEF subscribe
    <3>2. /\ socket_list' \in [SocketLists -> Seq(Connection)]
          /\ \A k \in SocketLists : k # t => socket_list'[k] = socket_list[k]
          /\ Len(socket_list'[t]) = Len(socket_list[t]) + 1
      BY <1>0, <2>2, <3>1, AddToStartLengthens
    <3>3. SUFFICES ASSUME NEW u \in Topic
                   PROVE  /\ Told("publish", u)' = Len(accepted'[u])
                          /\ (\A d \in Connection : socket'[d] # INVALID_SOCKET) =>
                               Told("subscribe", u)' - Told("unsubscribe", u)'
                                 = Len(socket_list'[u])
      BY <1>0, <1>1, <3>1, <3>2 DEF StatisticsAddUp
    <3>4. /\ Told("publish", u)' = Told("publish", u)
          /\ Told("subscribe", u)' = IF u = t THEN Told("subscribe", u) + 1 ELSE Told("subscribe", u)
          /\ Told("unsubscribe", u)' = Told("unsubscribe", u)
      BY <1>5, <3>1
    <3>5. Len(socket_list'[u]) =
            IF u = t THEN Len(socket_list[u]) + 1 ELSE Len(socket_list[u])
      BY <1>0, <3>2
    <3>6. /\ Told("publish", u) = Len(accepted[u])
          /\ (\A d \in Connection : socket[d] # INVALID_SOCKET) =>
               Told("subscribe", u) - Told("unsubscribe", u) = Len(socket_list[u])
      BY DEF StatisticsAddUp
    <3>7. Told("publish", u)' = Len(accepted'[u])
      BY <3>1, <3>4, <3>6
    <3>8. ASSUME \A d \in Connection : socket'[d] # INVALID_SOCKET
          PROVE  Told("subscribe", u)' - Told("unsubscribe", u)' = Len(socket_list'[u])
      <4>1. Told("subscribe", u) - Told("unsubscribe", u) = Len(socket_list[u])
        BY <3>6, <3>8
      <4>2. /\ Told("subscribe", u) \in Nat /\ Told("unsubscribe", u) \in Nat
            /\ Len(socket_list[u]) \in Nat
        BY <1>3, <1>4
      <4> QED BY <3>4, <3>5, <4>1, <4>2
    <3> QED BY <3>7, <3>8
  <2> QED BY <2>1, <2>2
<1>8. CASE unsubscribe(c, command)
  <2>1. CASE ~(t \in Topic /\ c \in ToSet(socket_list[t]))
    <3>1. UNCHANGED <<accepted, notified, socket_list>>
      BY <1>8, <2>1 DEF unsubscribe
    <3> QED BY <1>0, <1>2, <3>1
  <2>2. CASE t \in Topic /\ c \in ToSet(socket_list[t])
    <3>1. /\ free_node(t, c) /\ notify_stats_manager(command) /\ UNCHANGED accepted
          /\ command.operation = "unsubscribe"
      BY <1>8, <2>2 DEF unsubscribe
    <3>2. /\ socket_list' \in [SocketLists -> Seq(Connection)]
          /\ \A k \in SocketLists : k # t => socket_list'[k] = socket_list[k]
          /\ Len(socket_list'[t]) = Len(socket_list[t]) - 1
      BY <1>0, <2>2, <3>1, FreeNodeShortens
    <3>3. SUFFICES ASSUME NEW u \in Topic
                   PROVE  /\ Told("publish", u)' = Len(accepted'[u])
                          /\ (\A d \in Connection : socket'[d] # INVALID_SOCKET) =>
                               Told("subscribe", u)' - Told("unsubscribe", u)'
                                 = Len(socket_list'[u])
      BY <1>0, <1>1, <3>1, <3>2 DEF StatisticsAddUp
    <3>4. /\ Told("publish", u)' = Told("publish", u)
          /\ Told("subscribe", u)' = Told("subscribe", u)
          /\ Told("unsubscribe", u)' =
               IF u = t THEN Told("unsubscribe", u) + 1 ELSE Told("unsubscribe", u)
      BY <1>5, <3>1
    <3>5. Len(socket_list'[u]) =
            IF u = t THEN Len(socket_list[u]) - 1 ELSE Len(socket_list[u])
      BY <1>0, <3>2
    <3>6. /\ Told("publish", u) = Len(accepted[u])
          /\ (\A d \in Connection : socket[d] # INVALID_SOCKET) =>
               Told("subscribe", u) - Told("unsubscribe", u) = Len(socket_list[u])
      BY DEF StatisticsAddUp
    <3>7. Told("publish", u)' = Len(accepted'[u])
      BY <3>1, <3>4, <3>6
    <3>8. ASSUME \A d \in Connection : socket'[d] # INVALID_SOCKET
          PROVE  Told("subscribe", u)' - Told("unsubscribe", u)' = Len(socket_list'[u])
      <4>1. Told("subscribe", u) - Told("unsubscribe", u) = Len(socket_list[u])
        BY <3>6, <3>8
      <4>2. /\ Told("subscribe", u) \in Nat /\ Told("unsubscribe", u) \in Nat
            /\ Len(socket_list[u]) \in Nat
        BY <1>3, <1>4
      <4> QED BY <3>4, <3>5, <4>1, <4>2
    <3> QED BY <3>7, <3>8
  <2> QED BY <2>1, <2>2
<1>9. CASE query(c, command)
  <2> DEFINE r == [to |-> socket[c], asker |-> c, answer |-> Answer(command)]
  <2>1. /\ accepted' = [accepted EXCEPT ![Main] = Append(@, r)] /\ UNCHANGED socket_list
        /\ command.operation \in {"topic_exists", "subscriber_number"}
        /\ notify_stats_manager(command) \/ UNCHANGED notified
    BY <1>9 DEF query, Log!Accept
  <2>2. r \in Response
    <3>1. Answer(command) \in Int
      BY <1>3, <2>1 DEF Answer
    <3> QED BY <3>1 DEF Response, MainTypeOK
  <2>3. /\ accepted' \in [Sources -> Seq(Nat \cup Response)]
        /\ \A u \in Topic : accepted'[u] = accepted[u]
    BY <1>0, <2>1, <2>2
  <2>4. CASE UNCHANGED notified
    BY <1>0, <1>2, <2>1, <2>3, <2>4
  <2>5. CASE notify_stats_manager(command)
    <3>1. \A u \in Topic : \A op \in {"publish", "subscribe", "unsubscribe"} :
             Told(op, u)' = Told(op, u)
      BY <1>5, <2>1, <2>5
    <3>2. StatisticsAddUp'
      BY <2>1, <2>3, <3>1 DEF StatisticsAddUp
    <3> QED BY <1>0, <1>1, <2>1, <2>3, <2>5, <3>2
  <2> QED BY <2>1, <2>4, <2>5
<1>10. CASE query_fails(command)
  BY <1>0, <1>2, <1>10 DEF query_fails
<1> QED BY <1>6, <1>7, <1>8, <1>9, <1>10

LEMMA ExecuteKeepsInv ==
  ASSUME MainInv, execute_command
  PROVE  MainInv'
<1> USE BrokerAssumption DEF MainInv
<1> DEFINE c == Head(to_visit)
           command == Head(batch)
<1>1. /\ to_visit # << >> /\ batch # << >>
      /\ to_visit \in Seq(Connection) /\ batch \in Seq(Command)
  BY DEF execute_command, MainIsWhere, MainTypeOK
<1>2. /\ c \in Connection /\ Tail(to_visit) \in Seq(Connection)
      /\ command \in Command /\ Tail(batch) \in Seq(Command)
  BY <1>1
<1>3. /\ publish(c, command) \/ subscribe(c, command) \/ unsubscribe(c, command)
           \/ query(c, command) \/ query_fails(command)
      /\ batch' = Tail(batch)
      /\ IF batch' = << >> THEN main' = "receive" /\ to_visit' = Tail(to_visit)
                          ELSE UNCHANGED <<main, to_visit>>
      /\ UNCHANGED <<inbox, peer, socket, i>>
      /\ main = "execute"
  BY DEF execute_command, clientVars
<1> HIDE DEF c, command
<1>4. /\ socket_list' \in [SocketLists -> Seq(Connection)]
      /\ accepted' \in [Sources -> Seq(Nat \cup Response)]
      /\ notified' \in [Command -> Nat]
      /\ StatisticsAddUp'
  BY <1>2, <1>3, CommandKeepsStatistics
<1>5. MainTypeOK'
  BY <1>1, <1>2, <1>3, <1>4 DEF MainTypeOK
<1>6. MainIsWhere'
  BY <1>1, <1>3 DEF MainIsWhere
<1>7. SocketsNameTheirPeers'
  BY <1>3 DEF SocketsNameTheirPeers
<1> QED BY <1>4, <1>5, <1>6, <1>7

LEMMA ClientKeepsInv ==
  ASSUME MainInv, ClientStep
  PROVE  MainInv'
<1> USE BrokerAssumption DEF MainInv
<1>1. UNCHANGED <<peer, socket, socket_list, mainVars, notified, accepted>>
  BY DEF ClientStep
<1>2. inbox' \in [Connection -> Seq(Command)]
  <2>1. PICK c \in Connection : Connect(c) \/ SendCommand(c) \/ Leave(c)
    BY DEF ClientStep
  <2>2. CASE Connect(c)
    BY <2>2 DEF Connect, MainTypeOK
  <2>3. CASE SendCommand(c)
    BY <2>3 DEF SendCommand, MainTypeOK
  <2>4. CASE Leave(c)
    <3>1. UNCHANGED inbox \/ inbox' = [inbox EXCEPT ![c] = << >>]
      BY <2>4 DEF Leave
    <3>2. CASE UNCHANGED inbox
      BY <3>2 DEF MainTypeOK
    <3>3. CASE inbox' = [inbox EXCEPT ![c] = << >>]
      <4>1. << >> \in Seq(Command)
        OBVIOUS
      <4> QED BY <3>3, <4>1 DEF MainTypeOK
    <3> QED BY <3>1, <3>2, <3>3
  <2> QED BY <2>1, <2>2, <2>3, <2>4
<1>3. MainTypeOK'
  BY <1>1, <1>2 DEF MainTypeOK, mainVars
<1>4. MainIsWhere' /\ SocketsNameTheirPeers'
  BY <1>1 DEF MainIsWhere, SocketsNameTheirPeers, mainVars
<1> QED BY <1>1, <1>3, <1>4, StatisticsStand

(* The consumer thread takes from the log and reads the lists.             *)
LEMMA ConsumerKeepsInv ==
  ASSUME MainInv, ConsumerStep
  PROVE  MainInv'
<1> USE DEF MainInv
<1>1. UNCHANGED <<inbox, peer, socket, socket_list, mainVars, notified>>
  BY DEF ConsumerStep, clientVars
<1>2. UNCHANGED accepted
  BY DEF ConsumerStep, ConsumeResponse, ConsumeMessage, StartWalk, WalkOn, send_to_client,
         Log!Forward
<1>3. MainTypeOK'
  BY <1>1, <1>2 DEF MainTypeOK, mainVars
<1>4. MainIsWhere' /\ SocketsNameTheirPeers'
  BY <1>1 DEF MainIsWhere, SocketsNameTheirPeers, mainVars
<1> QED BY <1>1, <1>2, <1>3, <1>4, StatisticsStand

LEMMA RoundEndsKeepsInv ==
  ASSUME MainInv, RoundEnds
  PROVE  MainInv'
<1> USE DEF MainInv
<1>1. /\ UNCHANGED <<inbox, peer, socket, socket_list, to_visit, batch, i, notified, accepted>>
      /\ main' = "accept"
  BY DEF RoundEnds, clientVars
<1>2. MainTypeOK' /\ MainIsWhere' /\ SocketsNameTheirPeers'
  BY <1>1 DEF MainTypeOK, MainIsWhere, SocketsNameTheirPeers
<1> QED BY <1>1, <1>2, StatisticsStand

LEMMA MainInvStep == MainInv /\ [Next]_vars => MainInv'
<1> SUFFICES ASSUME MainInv, [Next]_vars PROVE MainInv'
  OBVIOUS
<1>1. CASE UNCHANGED vars
  <2>1. UNCHANGED <<inbox, peer, socket, socket_list, main, to_visit, batch, closing, i,
                    notified, accepted>>
    BY <1>1 DEF vars, clientVars, mainVars
  <2>2. MainTypeOK' /\ MainIsWhere' /\ SocketsNameTheirPeers'
    BY <2>1 DEF MainInv, MainTypeOK, MainIsWhere, SocketsNameTheirPeers
  <2> QED BY <2>1, <2>2, StatisticsStand DEF MainInv
<1>2. CASE ClientStep
  BY <1>2, ClientKeepsInv
<1>3. CASE ConsumerStep
  BY <1>3, ConsumerKeepsInv
<1>4. CASE MainStep
  BY <1>4, AcceptKeepsInv, ReceiveKeepsInv, RoundEndsKeepsInv, RemoveKeepsInv,
     ExecuteKeepsInv DEF MainStep
<1> QED BY <1>1, <1>2, <1>3, <1>4 DEF Next

LEMMA MainInvIsInvariant == Spec => []MainInv
  BY MainInvInit, MainInvStep, PTL DEF Spec

-----------------------------------------------------------------------------
(* A handle that the operating system gives to a new connection after      *)
(* closesocket() is never taken for the old connection's: every SOCKET the *)
(* lists still reach is its own client's or is marked INVALID_SOCKET,      *)
(* because receive_commands() marks it before anything else can run.       *)
THEOREM HandlesAreNotConfused == Spec => []SocketsNameTheirPeers
<1>1. MainInv => SocketsNameTheirPeers
  BY DEF MainInv
<1> QED BY <1>1, MainInvIsInvariant, PTL

(* What execute_command() tells the StatsManager is what the broker did:   *)
(* one notification per published message, and subscriptions less          *)
(* unsubscriptions are the length of the topic's list as long as no        *)
(* connection has been closed, however commands and walks interleave.      *)
THEOREM NotificationsAddUp == Spec => []StatisticsAddUp
<1>1. MainInv => StatisticsAddUp
  BY DEF MainInv
<1> QED BY <1>1, MainInvIsInvariant, PTL

-----------------------------------------------------------------------------
(* Where free_node() takes a node away, and what becomes of the walker,    *)
(* counted from the list's end as the walker is.                           *)
FreedFromEnd(l, c) == Len(socket_list[l]) - FirstAt(socket_list[l], c) + 1

LEMMA FreeNodeTakesFirst ==
  ASSUME NEW l, NEW c \in ToSet(socket_list[l]), free_node(l, c)
  PROVE  /\ socket_list' = [socket_list EXCEPT ![l] = RemoveFirst(@, c)]
         /\ dangling' = (dangling \/ (WalkerIsIn(l) /\ walker.left = FreedFromEnd(l, c)))
         /\ walker' = IF WalkerIsIn(l) /\ ~dangling /\ FreedFromEnd(l, c) < walker.left
                        THEN [walker EXCEPT !.left = @ - 1] ELSE walker
         /\ UNCHANGED astray
<1>1. PICK k \in 1 .. Len(socket_list[l]) : socket_list[l][k] = c
  BY DEF ToSet
<1>2. SelectInSeq(socket_list[l], LAMBDA s : s = c) = FirstAt(socket_list[l], c)
  BY <1>1 DEF SelectInSeq, FirstAt
<1> QED BY <1>2 DEF free_node, FreedFromEnd

LEMMA FreeNodeFindsNone ==
  ASSUME NEW l, NEW c, c \notin ToSet(socket_list[l]), free_node(l, c)
  PROVE  UNCHANGED <<socket_list, walkVars>>
  BY DEF free_node

-----------------------------------------------------------------------------
(* A connection added to the front of a list.                              *)
LEMMA ConsConnection ==
  ASSUME NEW q \in Seq(Connection), NEW c \in Connection
  PROVE  /\ Cons(c, q) \in Seq(Connection)
         /\ Len(Cons(c, q)) = Len(q) + 1
         /\ \A j \in 1 .. Len(q) + 1 : Cons(c, q)[j] = IF j = 1 THEN c ELSE q[j - 1]
  BY DEF Cons

(* What main visits: nothing twice, and only connections whose sockets are *)
(* handles, neither closed nor never opened.                               *)
Visitable(q, sockets) ==
    \A k \in 1 .. Len(q) :
        /\ sockets[q[k]] \in Handle
        /\ \A j \in 1 .. Len(q) : q[j] = q[k] => j = k

Sockets == [Connection -> Handle \cup {INVALID_SOCKET, NULL}]

LEMMA VisitableTail ==
  ASSUME NEW q \in Seq(Connection), q # << >>, NEW s \in Sockets, Visitable(q, s)
  PROVE  /\ Visitable(Tail(q), s)
         /\ Visitable(Tail(q), [s EXCEPT ![Head(q)] = INVALID_SOCKET])
         /\ s[Head(q)] \in Handle
<1>1. /\ Len(Tail(q)) = Len(q) - 1 /\ Len(q) \in Nat /\ Len(q) >= 1
      /\ Head(q) = q[1] /\ q[1] \in Connection
      /\ \A k \in 1 .. Len(q) - 1 : Tail(q)[k] = q[k + 1] /\ Tail(q)[k] \in Connection
  OBVIOUS
<1> DEFINE r == Tail(q)
<1>2. /\ Len(r) = Len(q) - 1 /\ \A k \in 1 .. Len(r) : r[k] = q[k + 1] /\ r[k] \in Connection
      /\ \A k \in 1 .. Len(r) : k + 1 \in 1 .. Len(q)
  BY <1>1
<1> HIDE DEF r
<1>3. s[q[1]] \in Handle
  BY <1>1 DEF Visitable
<1>4. ASSUME NEW k \in 1 .. Len(r)
      PROVE  /\ s[r[k]] \in Handle /\ r[k] # q[1]
             /\ \A j \in 1 .. Len(r) : r[j] = r[k] => j = k
  <2>1. k + 1 \in 1 .. Len(q) /\ k + 1 # 1 /\ 1 \in 1 .. Len(q) /\ k \in Int
    BY <1>1, <1>2
  <2>2. s[q[k + 1]] \in Handle /\ \A j \in 1 .. Len(q) : q[j] = q[k + 1] => j = k + 1
    BY <2>1 DEF Visitable
  <2>3. ASSUME NEW j \in 1 .. Len(r), r[j] = r[k] PROVE j = k
    <3>1. j + 1 \in 1 .. Len(q) /\ q[j + 1] = q[k + 1] /\ j \in Int
      BY <1>2, <2>3
    <3>2. j + 1 = k + 1
      BY <2>2, <3>1
    <3> QED BY <2>1, <3>1, <3>2
  <2> QED BY <1>2, <2>1, <2>2, <2>3
<1>5. Visitable(r, s)
  BY <1>4 DEF Visitable
<1>6. Visitable(r, [s EXCEPT ![q[1]] = INVALID_SOCKET])
  BY <1>2, <1>4 DEF Visitable, Sockets
<1> QED BY <1>1, <1>3, <1>5, <1>6 DEF r

LEMMA VisitableOpened ==
  ASSUME NEW q \in Seq(Connection), NEW s \in Sockets, Visitable(q, s),
         NEW c \in Connection, NEW h \in Handle, s[c] = NULL
  PROVE  /\ Visitable(q, [s EXCEPT ![c] = h])
         /\ Visitable(Cons(c, q), [s EXCEPT ![c] = h])
<1> DEFINE r == Cons(c, q)
           n == Len(q)
<1>0. n \in Nat
  OBVIOUS
<1>1. /\ Len(r) = n + 1 /\ n \in Nat
      /\ \A j \in 1 .. n + 1 : r[j] = IF j = 1 THEN c ELSE q[j - 1]
  <2>1. /\ Len(Cons(c, q)) = Len(q) + 1
        /\ \A j \in 1 .. Len(q) + 1 : Cons(c, q)[j] = IF j = 1 THEN c ELSE q[j - 1]
    BY ConsConnection
  <2> QED BY <1>0, <2>1
<1> USE BrokerAssumption
<1>2. \A k \in 1 .. n : q[k] \in Connection /\ s[q[k]] \in Handle /\ q[k] # c
  BY DEF Visitable
<1>3. \A j, k \in 1 .. n : q[j] = q[k] => j = k
  BY DEF Visitable
<1>4. Visitable(q, [s EXCEPT ![c] = h])
  BY <1>2 DEF Visitable, Sockets
<1> HIDE DEF r, n
<1>5. ASSUME NEW k \in 1 .. n + 1
      PROVE  /\ [s EXCEPT ![c] = h][r[k]] \in Handle
             /\ \A j \in 1 .. n + 1 : r[j] = r[k] => j = k
  <2>1. CASE k = 1
    <3>1. r[k] = c
      BY <1>1, <2>1
    <3>2. \A j \in 1 .. n + 1 : j # 1 => r[j] # c
      <4> TAKE j \in 1 .. n + 1
      <4> HAVE j # 1
      <4>1. j - 1 \in 1 .. n
        BY <1>1
      <4> QED BY <1>1, <1>2, <4>1
    <3> QED BY <2>1, <3>1, <3>2 DEF Sockets
  <2>2. CASE k # 1
    <3>1. k - 1 \in 1 .. n /\ r[k] = q[k - 1]
      BY <1>1, <2>2
    <3>2. [s EXCEPT ![c] = h][r[k]] \in Handle /\ r[k] # c
      BY <1>2, <3>1 DEF Sockets
    <3>3. ASSUME NEW j \in 1 .. n + 1, r[j] = r[k] PROVE j = k
      <4>1. j # 1
        BY <1>1, <3>2, <3>3
      <4>2. j - 1 \in 1 .. n /\ r[j] = q[j - 1]
        BY <1>1, <4>1
      <4>3. j - 1 = k - 1
        BY <1>3, <3>1, <3>3, <4>2
      <4> QED BY <1>1, <4>3
    <3> QED BY <3>2, <3>3
  <2> QED BY <2>1, <2>2
<1>6. Visitable(r, [s EXCEPT ![c] = h])
  BY <1>1, <1>5 DEF Visitable
<1> QED BY <1>4, <1>6 DEF r

LEMMA VisitableClosed ==
  ASSUME NEW q \in Seq(Connection), NEW s \in Sockets, Visitable(q, s), NEW c \in Connection
  PROVE  Visitable(IF c \in ToSet(q) THEN RemoveFirst(q, c) ELSE q,
                   [s EXCEPT ![c] = INVALID_SOCKET])
<1>1. CASE c \notin ToSet(q)
  <2>1. \A k \in 1 .. Len(q) : q[k] \in Connection /\ q[k] # c
    BY <1>1 DEF ToSet
  <2> QED BY <1>1, <2>1 DEF Visitable, Sockets
<1>2. CASE c \in ToSet(q)
  <2> DEFINE r == RemoveFirst(q, c)
             p == FirstAt(q, c)
             n == Len(q)
  <2>1. /\ r \in Seq(Connection) /\ Len(r) = n - 1
        /\ \A j \in 1 .. n - 1 : r[j] = IF j < p THEN q[j] ELSE q[j + 1]
    BY <1>2, RemoveFirstElements
  <2>2. p \in 1 .. n /\ q[p] = c /\ n \in Nat
    BY <1>2, FirstIsNearest
  <2>3. \A j, k \in 1 .. n : q[j] = q[k] => j = k
    BY DEF Visitable
  <2>4. \A k \in 1 .. n : s[q[k]] \in Handle /\ q[k] \in Connection
    BY DEF Visitable
  <2> HIDE DEF r, p, n
  <2>5. ASSUME NEW k \in 1 .. n - 1
        PROVE  /\ [s EXCEPT ![c] = INVALID_SOCKET][r[k]] \in Handle
               /\ \A j \in 1 .. n - 1 : r[j] = r[k] => j = k
    <3> DEFINE at(j) == IF j < p THEN j ELSE j + 1
    <3>1. \A j \in 1 .. n - 1 : at(j) \in 1 .. n /\ at(j) # p /\ r[j] = q[at(j)]
      <4> TAKE j \in 1 .. n - 1
      <4>1. CASE j < p
        BY <2>1, <2>2, <4>1
      <4>2. CASE ~(j < p)
        BY <2>1, <2>2, <4>2
      <4> QED BY <4>1, <4>2
    <3>2. \A j \in 1 .. n - 1 : at(j) = at(k) => j = k
      BY <2>2
    <3> HIDE DEF at
    <3>3. r[k] # c /\ s[r[k]] \in Handle
      BY <2>2, <2>3, <2>4, <3>1
    <3>4. \A j \in 1 .. n - 1 : r[j] = r[k] => j = k
      BY <2>3, <3>1, <3>2
    <3> QED BY <3>3, <3>4 DEF Sockets
  <2>6. Visitable(r, [s EXCEPT ![c] = INVALID_SOCKET])
    BY <2>1, <2>5 DEF Visitable
  <2> QED BY <1>2, <2>6 DEF r
<1> QED BY <1>1, <1>2

-----------------------------------------------------------------------------
ControlTypeOK ==
    /\ client \in [Connection -> Client]
    /\ sent \in [Connection -> Nat]
    /\ main \in {"accept", "receive", "execute", "remove"}
    /\ closing \in Connection \cup {NULL}
    /\ process \in {"running", "crashed"}

(* No connection is in a list before it is accepted, and main's round and  *)
(* the list it comes from hold connections that are neither closed nor     *)
(* there twice.                                                            *)
ListsInv ==
    /\ ControlTypeOK
    /\ main # "remove" => closing = NULL
    /\ \A c \in Connection : socket[c] = INVALID_SOCKET => client[c] = "closed"
    /\ \A l \in SocketLists : \A k \in 1 .. Len(socket_list[l]) :
          socket[socket_list[l][k]] # NULL
    /\ Visitable(to_visit, socket)
    /\ Visitable(socket_list[connection_sockets], socket)

LEMMA ListsInvInit == Init => ListsInv
<1> SUFFICES ASSUME Init PROVE ListsInv
  OBVIOUS
<1> USE BrokerAssumption DEF Init
<1>1. ControlTypeOK
  BY DEF ControlTypeOK, Client
<1>2. \A l \in SocketLists : Len(socket_list[l]) = 0
  OBVIOUS
<1>3. Len(to_visit) = 0 /\ connection_sockets \in SocketLists /\ Topic \subseteq SocketLists
  BY DEF SocketLists
<1>4. Visitable(to_visit, socket) /\ Visitable(socket_list[connection_sockets], socket)
  BY <1>2, <1>3 DEF Visitable
<1> QED BY <1>1, <1>2, <1>3, <1>4 DEF ListsInv

LEMMA ListsFacts ==
  /\ connection_sockets \in SocketLists /\ connection_sockets \notin Topic
  /\ Topic \subseteq SocketLists /\ Topic \subseteq Nat /\ 1 \in Topic
  /\ Topic \subseteq Sources /\ Main \in Sources /\ Main \notin Topic
  BY BrokerAssumption DEF SocketLists, Topic, connection_sockets, Sources

(* What leaves the lists, the sockets and main's place alone.              *)
LEMMA ListsInvStands ==
  ASSUME ListsInv, UNCHANGED <<main, closing, socket, socket_list, to_visit>>,
         ControlTypeOK', \A c \in Connection : client[c] = "closed" => client'[c] = "closed"
  PROVE  ListsInv'
  BY DEF ListsInv

LEMMA ClientKeepsLists ==
  ASSUME MainInv, ListsInv, ClientStep
  PROVE  ListsInv'
<1>1. UNCHANGED <<main, closing, socket, socket_list, to_visit, process>>
  BY DEF ClientStep, mainVars
<1>2. PICK c \in Connection : Connect(c) \/ SendCommand(c) \/ Leave(c)
  BY DEF ClientStep
<1>3. /\ client' \in [Connection -> Client]
      /\ \A d \in Connection : client[d] = "closed" => client'[d] = "closed"
  BY <1>2 DEF Connect, SendCommand, Leave, ListsInv, ControlTypeOK, Client
<1>4. sent' \in [Connection -> Nat]
  BY <1>2 DEF Connect, SendCommand, Leave, ListsInv, ControlTypeOK
<1>5. ControlTypeOK'
  BY <1>1, <1>3, <1>4 DEF ListsInv, ControlTypeOK
<1> QED BY <1>1, <1>3, <1>5, ListsInvStands

LEMMA ConsumerKeepsLists ==
  ASSUME ListsInv, ConsumerStep
  PROVE  ListsInv'
<1>1. UNCHANGED <<client, sent, main, closing, socket, socket_list, to_visit>>
  BY DEF ConsumerStep, mainVars, clientVars
<1>2. process' = process \/ process' = "crashed"
  BY DEF ConsumerStep, WalkOn
<1>3. ControlTypeOK'
  BY <1>1, <1>2 DEF ListsInv, ControlTypeOK
<1> QED BY <1>1, <1>3, ListsInvStands

LEMMA AcceptKeepsLists ==
  ASSUME MainInv, ListsInv, accept_connection
  PROVE  ListsInv'
<1> USE BrokerAssumption, ListsFacts
<1>0. /\ UNCHANGED <<client, sent, process, closing>>
      /\ main = "accept" /\ main' = "receive"
      /\ to_visit' = socket_list'[connection_sockets]
  BY DEF accept_connection, clientVars, begin_round
<1>1. ControlTypeOK'
  BY <1>0 DEF ListsInv, ControlTypeOK
<1>2. main' # "remove" => closing' = NULL
  BY <1>0 DEF ListsInv
<1>3. CASE UNCHANGED <<peer, socket, socket_list>>
  BY <1>0, <1>1, <1>2, <1>3 DEF ListsInv
<1>4. ASSUME NEW c \in Connection, NEW h \in Handle, socket[c] = NULL,
             socket' = [socket EXCEPT ![c] = h],
             add_to_start(connection_sockets, c) \/ UNCHANGED socket_list
      PROVE  ListsInv'
  <2> DEFINE q == socket_list[connection_sockets]
  <2>1. q \in Seq(Connection) /\ socket \in Sockets /\ Visitable(q, socket)
    BY DEF MainInv, MainTypeOK, ListsInv, Sockets
  <2> HIDE DEF q
  <2>2. Visitable(q, socket') /\ Visitable(Cons(c, q), socket')
    BY ONLY <1>4, <2>1, VisitableOpened
  <2>3. socket_list'[connection_sockets] \in {q, Cons(c, q)}
    BY <1>4 DEF add_to_start, MainInv, MainTypeOK, q
  <2>4. Visitable(to_visit', socket') /\ Visitable(socket_list'[connection_sockets], socket')
    BY <1>0, <2>2, <2>3
  <2>5. \A l \in SocketLists : l # connection_sockets => socket_list'[l] = socket_list[l]
    BY <1>4 DEF add_to_start, MainInv, MainTypeOK
  <2>6. \A d \in Connection : socket[d] # NULL => socket'[d] # NULL
    BY <1>4 DEF MainInv, MainTypeOK
  <2>7. \A d \in Connection : socket'[d] = INVALID_SOCKET => client'[d] = "closed"
    BY <1>0, <1>4 DEF ListsInv, MainInv, MainTypeOK
  <2>8. ASSUME NEW l \in SocketLists, NEW k \in 1 .. Len(socket_list'[l])
        PROVE  socket'[socket_list'[l][k]] # NULL
    <3>1. CASE l = connection_sockets
      BY <2>4, <2>8, <3>1 DEF Visitable
    <3>2. CASE l # connection_sockets
      <4>1. socket_list'[l] = socket_list[l] /\ socket_list[l] \in Seq(Connection)
        BY <2>5, <3>2 DEF MainInv, MainTypeOK
      <4>2. socket_list[l][k] \in Connection /\ socket[socket_list[l][k]] # NULL
        BY <2>8, <4>1 DEF ListsInv
      <4> QED BY <2>6, <4>1, <4>2
    <3> QED BY <3>1, <3>2
  <2> QED BY <1>1, <1>2, <2>4, <2>7, <2>8 DEF ListsInv
<1> QED BY <1>3, <1>4 DEF accept_connection

LEMMA FreeNodeKeepsMembers ==
  ASSUME socket_list \in [SocketLists -> Seq(Connection)], NEW l \in SocketLists,
         NEW c \in Connection, free_node(l, c), NEW m \in SocketLists
  PROVE  /\ Len(socket_list'[m]) <= Len(socket_list[m])
         /\ \A k \in 1 .. Len(socket_list'[m]) : \E j \in 1 .. Len(socket_list[m]) :
               socket_list'[m][k] = socket_list[m][j]
         /\ socket_list'[m] = IF m = l /\ c \in ToSet(socket_list[l])
                                THEN RemoveFirst(socket_list[l], c) ELSE socket_list[m]
<1> DEFINE q == socket_list[m]
<1>0. q \in Seq(Connection) /\ Len(q) \in Nat
  OBVIOUS
<1>1. socket_list'[m] = IF m = l /\ c \in ToSet(socket_list[l])
                         THEN RemoveFirst(socket_list[l], c) ELSE q
  <2>1. CASE c \notin ToSet(socket_list[l])
    BY <2>1, FreeNodeFindsNone
  <2>2. CASE c \in ToSet(socket_list[l])
    <3>1. socket_list' = [socket_list EXCEPT ![l] = RemoveFirst(@, c)]
      BY <2>2, FreeNodeTakesFirst
    <3> QED BY <2>2, <3>1
  <2> QED BY <2>1, <2>2
<1>2. CASE ~(m = l /\ c \in ToSet(socket_list[l]))
  <2>1. socket_list'[m] = q
    BY <1>1, <1>2
  <2> QED BY <1>0, <1>1, <2>1
<1>3. CASE m = l /\ c \in ToSet(socket_list[l])
  <2> HIDE DEF q
  <2> DEFINE p == FirstAt(q, c)
  <2>1. c \in ToSet(q) /\ socket_list'[m] = RemoveFirst(q, c)
    BY <1>1, <1>3 DEF q
  <2>2. /\ Len(RemoveFirst(q, c)) = Len(q) - 1
        /\ \A j \in 1 .. Len(q) - 1 : RemoveFirst(q, c)[j] = IF j < p THEN q[j] ELSE q[j + 1]
    BY <1>0, <2>1, RemoveFirstElements
  <2> HIDE DEF p
  <2>3. ASSUME NEW k \in 1 .. Len(q) - 1
        PROVE  \E j \in 1 .. Len(q) : RemoveFirst(q, c)[k] = q[j]
    <3>1. k \in 1 .. Len(q) /\ k + 1 \in 1 .. Len(q)
      BY <1>0
    <3> QED BY <2>2, <3>1
  <2>4. Len(q) - 1 <= Len(q)
    BY <1>0
  <2> QED BY <1>1, <2>1, <2>2, <2>3, <2>4 DEF q
<1> QED BY <1>2, <1>3

LEMMA AddToStartMembers ==
  ASSUME socket_list \in [SocketLists -> Seq(Connection)], NEW l \in SocketLists,
         NEW c \in Connection, add_to_start(l, c), NEW m \in SocketLists
  PROVE  /\ \A k \in 1 .. Len(socket_list'[m]) :
               \/ m = l /\ socket_list'[m][k] = c
               \/ \E j \in 1 .. Len(socket_list[m]) : socket_list'[m][k] = socket_list[m][j]
         /\ socket_list'[m] = IF m = l THEN Cons(c, socket_list[l]) ELSE socket_list[m]
<1> DEFINE q == socket_list[m]
<1>0. q \in Seq(Connection) /\ Len(q) \in Nat
  OBVIOUS
<1>1. socket_list'[m] = IF m = l THEN Cons(c, q) ELSE q
  BY DEF add_to_start
<1>2. CASE m # l
  BY <1>1, <1>2
<1>3. CASE m = l
  <2> HIDE DEF q
  <2>1. /\ Len(Cons(c, q)) = Len(q) + 1
        /\ \A j \in 1 .. Len(q) + 1 : Cons(c, q)[j] = IF j = 1 THEN c ELSE q[j - 1]
    BY ONLY c \in Connection, <1>0, ConsConnection
  <2>2. ASSUME NEW k \in 1 .. Len(q) + 1
        PROVE  Cons(c, q)[k] = c \/ \E j \in 1 .. Len(q) : Cons(c, q)[k] = q[j]
    <3>1. k # 1 => k - 1 \in 1 .. Len(q)
      BY <1>0
    <3> QED BY <2>1, <3>1
  <2> QED BY <1>1, <1>3, <2>1, <2>2 DEF q
<1> QED BY <1>2, <1>3

LEMMA ReceiveKeepsLists ==
  ASSUME MainInv, ListsInv, receive_commands
  PROVE  ListsInv'
<1> USE BrokerAssumption, ListsFacts
<1> DEFINE c == Head(to_visit)
<1>1. /\ main = "receive" /\ c \in Connection /\ to_visit # << >>
      /\ to_visit \in Seq(Connection) /\ socket \in Sockets
      /\ socket_list \in [SocketLists -> Seq(Connection)]
      /\ NothingReceived(c) \/ Received(c) \/ ConnectionClosed(c)
      /\ UNCHANGED <<client, sent, process>>
      /\ closing = NULL
  <2>1. /\ socket \in Sockets /\ socket_list \in [SocketLists -> Seq(Connection)]
        /\ to_visit \in Seq(Connection) /\ (main # "remove" => closing = NULL)
    BY DEF MainInv, MainTypeOK, ListsInv, Sockets
  <2>2. /\ main = "receive" /\ to_visit # << >>
        /\ NothingReceived(c) \/ Received(c) \/ ConnectionClosed(c)
        /\ UNCHANGED <<client, sent, process>>
    BY DEF receive_commands
  <2>3. c \in Connection
    BY <2>1, <2>2, HeadTailProperties
  <2> QED BY <2>1, <2>2, <2>3
<1>2. /\ Visitable(Tail(to_visit), socket)
      /\ Visitable(Tail(to_visit), [socket EXCEPT ![c] = INVALID_SOCKET])
      /\ socket[c] \in Handle
  BY <1>1, VisitableTail DEF ListsInv
<1> HIDE DEF c
<1>3. CASE NothingReceived(c)
  <2>1. ControlTypeOK'
    BY <1>1, <1>3 DEF NothingReceived, ListsInv, ControlTypeOK
  <2> QED BY <1>1, <1>2, <1>3, <2>1 DEF NothingReceived, ListsInv
<1>4. CASE Received(c)
  <2>1. ControlTypeOK'
    BY <1>1, <1>4 DEF Received, ListsInv, ControlTypeOK
  <2> QED BY <1>1, <1>4, <2>1 DEF Received, ListsInv
<1>5. CASE ConnectionClosed(c)
  <2>1. /\ client[c] = "closed"
        /\ socket' = [socket EXCEPT ![c] = INVALID_SOCKET]
        /\ to_visit' = Tail(to_visit) /\ closing' = c /\ main' = "remove"
        /\ free_node(connection_sockets, c)
    BY <1>5 DEF ConnectionClosed, mark_closed
  <2>2. ControlTypeOK'
    BY <1>1, <2>1 DEF ListsInv, ControlTypeOK
  <2>3. \A d \in Connection : socket'[d] = INVALID_SOCKET => client'[d] = "closed"
    BY <1>1, <2>1 DEF ListsInv, Sockets
  <2>4. \A m \in SocketLists :
          /\ Len(socket_list'[m]) <= Len(socket_list[m])
          /\ \A k \in 1 .. Len(socket_list'[m]) : \E j \in 1 .. Len(socket_list[m]) :
                socket_list'[m][k] = socket_list[m][j]
          /\ socket_list'[m] = IF m = connection_sockets
                                    /\ c \in ToSet(socket_list[connection_sockets])
                                 THEN RemoveFirst(socket_list[connection_sockets], c)
                                 ELSE socket_list[m]
    BY <1>1, <2>1, FreeNodeKeepsMembers
  <2>5. ASSUME NEW l \in SocketLists, NEW k \in 1 .. Len(socket_list'[l])
        PROVE  socket'[socket_list'[l][k]] # NULL
    <3>1. PICK j \in 1 .. Len(socket_list[l]) : socket_list'[l][k] = socket_list[l][j]
      BY <2>4
    <3>2. socket_list[l][j] \in Connection /\ socket[socket_list[l][j]] # NULL
      BY <1>1 DEF ListsInv
    <3> QED BY <1>1, <2>1, <3>1, <3>2 DEF Sockets
  <2>7. Visitable(socket_list'[connection_sockets], socket')
    <3> DEFINE q == socket_list[connection_sockets]
    <3>1. q \in Seq(Connection) /\ Visitable(q, socket)
      BY <1>1 DEF ListsInv
    <3>2. socket_list'[connection_sockets] = IF c \in ToSet(q) THEN RemoveFirst(q, c) ELSE q
      BY <2>4
    <3> HIDE DEF q
    <3> QED BY <1>1, <2>1, <3>1, <3>2, VisitableClosed
  <2>8. Visitable(to_visit', socket')
    BY <1>2, <2>1
  <2> QED BY <2>1, <2>2, <2>3, <2>5, <2>7, <2>8 DEF ListsInv
<1> QED BY <1>1, <1>3, <1>4, <1>5

LEMMA RoundEndsKeepsLists ==
  ASSUME ListsInv, RoundEnds
  PROVE  ListsInv'
<1>1. /\ UNCHANGED <<client, sent, process, socket, socket_list, to_visit, closing>>
      /\ main = "receive" /\ main' = "accept"
  BY DEF RoundEnds, clientVars
<1>2. ControlTypeOK'
  BY <1>1 DEF ListsInv, ControlTypeOK
<1> QED BY <1>1, <1>2 DEF ListsInv

LEMMA RemoveKeepsLists ==
  ASSUME MainInv, ListsInv, RemoveSubscription
  PROVE  ListsInv'
<1> USE BrokerAssumption, ListsFacts
<1>1. /\ UNCHANGED <<client, sent, process, socket, to_visit>>
      /\ free_node(i, closing) /\ i \in SocketLists /\ i \in Topic /\ closing \in Connection
      /\ socket_list \in [SocketLists -> Seq(Connection)]
      /\ IF i = TOPICS_NUM THEN main' = "receive" /\ closing' = NULL
                           ELSE UNCHANGED <<main, closing>>
      /\ main = "remove"
  BY DEF RemoveSubscription, MainInv, MainTypeOK, MainIsWhere, clientVars
<1>2. ControlTypeOK'
  BY <1>1 DEF ListsInv, ControlTypeOK
<1>3. \A m \in SocketLists :
          /\ Len(socket_list'[m]) <= Len(socket_list[m])
          /\ \A k \in 1 .. Len(socket_list'[m]) : \E j \in 1 .. Len(socket_list[m]) :
                socket_list'[m][k] = socket_list[m][j]
          /\ m # i => socket_list'[m] = socket_list[m]
  BY ONLY <1>1, FreeNodeKeepsMembers
<1>4. \A l \in SocketLists : \A k \in 1 .. Len(socket_list'[l]) :
          socket'[socket_list'[l][k]] # NULL
  <2> TAKE l \in SocketLists
  <2> TAKE k \in 1 .. Len(socket_list'[l])
  <2>1. PICK j \in 1 .. Len(socket_list[l]) : socket_list'[l][k] = socket_list[l][j]
    BY <1>3
  <2> QED BY <1>1, <2>1 DEF ListsInv
<1>6. socket_list'[connection_sockets] = socket_list[connection_sockets]
  BY <1>1, <1>3
<1>7. main' # "remove" => closing' = NULL
  BY <1>1
<1> QED BY <1>1, <1>2, <1>4, <1>6, <1>7 DEF ListsInv

(* execute_command() executes a command of a connection that is open on    *)
(* the broker's side, and the visit ends with the batch.                   *)
Executed(c, command) == publish(c, command) \/ subscribe(c, command) \/ unsubscribe(c, command)
                          \/ query(c, command) \/ query_fails(command)

LEMMA ExecuteExecutes ==
  ASSUME MainInv, ListsInv, execute_command
  PROVE  /\ \E c \in Connection, command \in Command :
               c = Head(to_visit) /\ socket[c] \in Handle /\ Executed(c, command)
         /\ to_visit # << >> /\ Tail(to_visit) \in Seq(Connection)
         /\ main = "execute"
         /\ \/ main' = "receive" /\ to_visit' = Tail(to_visit)
            \/ UNCHANGED <<main, to_visit>>
         /\ UNCHANGED <<client, sent, inbox, peer, socket, closing, i, consumer, element,
                        connection_socket, copied_from, received, misdirected>>
         /\ process' \in {process, "crashed"}
<1>1. /\ to_visit # << >> /\ batch # << >>
      /\ to_visit \in Seq(Connection) /\ batch \in Seq(Command) /\ socket \in Sockets
  BY DEF execute_command, MainInv, MainIsWhere, MainTypeOK, Sockets
<1>2. Head(to_visit) \in Connection /\ Head(batch) \in Command
      /\ Tail(to_visit) \in Seq(Connection)
  BY <1>1
<1>3. socket[Head(to_visit)] \in Handle
  BY <1>1, VisitableTail DEF ListsInv
<1>4. Executed(Head(to_visit), Head(batch))
  BY DEF execute_command, Executed
<1>5. /\ main = "execute"
      /\ \/ main' = "receive" /\ to_visit' = Tail(to_visit)
         \/ UNCHANGED <<main, to_visit>>
      /\ UNCHANGED <<client, sent, inbox, peer, socket, closing, i, consumer, element,
                     connection_socket, copied_from, received, misdirected>>
      /\ process' \in {process, "crashed"}
  BY DEF execute_command, query_fails, clientVars, consumerVars
<1> QED BY <1>1, <1>2, <1>3, <1>4, <1>5

LEMMA ExecutedOnLists ==
  ASSUME NEW c, NEW command, Executed(c, command)
  PROVE  \/ UNCHANGED socket_list
         \/ \E t \in Topic : add_to_start(t, c) \/ free_node(t, c)
<1>1. CASE subscribe(c, command)
  BY <1>1 DEF subscribe
<1>2. CASE unsubscribe(c, command)
  BY <1>2 DEF unsubscribe
<1> QED BY <1>1, <1>2 DEF Executed, publish, query, query_fails

LEMMA ExecuteKeepsLists ==
  ASSUME MainInv, ListsInv, execute_command
  PROVE  ListsInv'
<1> USE BrokerAssumption, ListsFacts
<1>1. PICK c \in Connection, command \in Command :
        c = Head(to_visit) /\ socket[c] \in Handle /\ Executed(c, command)
  BY ExecuteExecutes
<1>2. /\ to_visit # << >> /\ main = "execute"
      /\ \/ main' = "receive" /\ to_visit' = Tail(to_visit)
         \/ UNCHANGED <<main, to_visit>>
      /\ UNCHANGED <<client, sent, socket, closing>>
      /\ process' \in {process, "crashed"}
  BY ExecuteExecutes
<1>3. /\ to_visit \in Seq(Connection) /\ socket \in Sockets
      /\ socket_list \in [SocketLists -> Seq(Connection)]
  BY DEF MainInv, MainTypeOK, Sockets
<1>4. ControlTypeOK'
  BY <1>2 DEF ListsInv, ControlTypeOK
<1>5. Visitable(to_visit', socket')
  <2>1. Visitable(to_visit, socket)
    BY DEF ListsInv
  <2>2. Visitable(Tail(to_visit), socket)
    BY <1>2, <1>3, <2>1, VisitableTail
  <2> QED BY <1>2, <2>1, <2>2
<1>6. ASSUME /\ \A l \in SocketLists : \A k \in 1 .. Len(socket_list'[l]) :
                   \/ socket_list'[l][k] = c
                   \/ \E j \in 1 .. Len(socket_list[l]) : socket_list'[l][k] = socket_list[l][j],
             socket_list'[connection_sockets] = socket_list[connection_sockets]
      PROVE  ListsInv'
  <2>1. \A l \in SocketLists : \A k \in 1 .. Len(socket_list'[l]) :
          socket'[socket_list'[l][k]] # NULL
    <3> TAKE l \in SocketLists
    <3> TAKE k \in 1 .. Len(socket_list'[l])
    <3>1. CASE socket_list'[l][k] = c
      BY <1>1, <1>2, <3>1
    <3>2. CASE \E j \in 1 .. Len(socket_list[l]) : socket_list'[l][k] = socket_list[l][j]
      BY <1>2, <3>2 DEF ListsInv
    <3> QED BY <1>6, <3>1, <3>2
  <2> QED BY <1>2, <1>4, <1>5, <1>6, <2>1 DEF ListsInv
<1>7. CASE UNCHANGED socket_list
  BY <1>6, <1>7 DEF ListsInv
<1>8. ASSUME NEW t \in Topic, add_to_start(t, c) PROVE ListsInv'
  <2>0. t \in SocketLists /\ t # connection_sockets
    OBVIOUS
  <2>1. \A m \in SocketLists :
          /\ \A k \in 1 .. Len(socket_list'[m]) :
               \/ m = t /\ socket_list'[m][k] = c
               \/ \E j \in 1 .. Len(socket_list[m]) : socket_list'[m][k] = socket_list[m][j]
          /\ socket_list'[m] = IF m = t THEN Cons(c, socket_list[t]) ELSE socket_list[m]
    BY ONLY c \in Connection, <1>3, <1>8, <2>0, AddToStartMembers
  <2>4. socket_list'[connection_sockets] = socket_list[connection_sockets]
    BY <2>0, <2>1
  <2> QED BY <1>6, <2>1, <2>4
<1>9. ASSUME NEW t \in Topic, free_node(t, c)
      PROVE  ListsInv'
  <2>0. t \in SocketLists /\ t # connection_sockets
    OBVIOUS
  <2>1. \A m \in SocketLists :
          /\ Len(socket_list'[m]) <= Len(socket_list[m])
          /\ \A k \in 1 .. Len(socket_list'[m]) : \E j \in 1 .. Len(socket_list[m]) :
                socket_list'[m][k] = socket_list[m][j]
          /\ m # t => socket_list'[m] = socket_list[m]
    BY ONLY c \in Connection, <1>3, <1>9, <2>0, FreeNodeKeepsMembers
  <2>3. socket_list'[connection_sockets] = socket_list[connection_sockets]
    BY <2>0, <2>1
  <2> QED BY <1>6, <2>1, <2>3
<1> QED BY <1>1, <1>7, <1>8, <1>9, ExecutedOnLists

LEMMA ListsInvStep == MainInv /\ ListsInv /\ [Next]_vars => ListsInv'
<1> SUFFICES ASSUME MainInv, ListsInv, [Next]_vars PROVE ListsInv'
  OBVIOUS
<1>1. CASE UNCHANGED vars
  <2>1. UNCHANGED <<client, sent, main, closing, process, socket, socket_list, to_visit>>
    BY <1>1 DEF vars, clientVars, mainVars
  <2>2. ControlTypeOK'
    BY <2>1 DEF ListsInv, ControlTypeOK
  <2> QED BY <2>1, <2>2, ListsInvStands
<1>2. CASE ClientStep
  BY <1>2, ClientKeepsLists
<1>3. CASE ConsumerStep
  BY <1>3, ConsumerKeepsLists
<1>4. CASE MainStep
  BY <1>4, AcceptKeepsLists, ReceiveKeepsLists, RoundEndsKeepsLists, RemoveKeepsLists,
     ExecuteKeepsLists DEF MainStep
<1> QED BY <1>1, <1>2, <1>3, <1>4 DEF Next

-----------------------------------------------------------------------------
(* How often a connection is in a list.                                    *)
LEMMA OccurrencesAreNumbers ==
  ASSUME socket_list \in [SocketLists -> Seq(Connection)], NEW l \in SocketLists, NEW c
  PROVE  /\ Occurrences(c, l) \in Nat
         /\ Occurrences(c, l) = 0 <=> c \notin ToSet(socket_list[l])
<1> DEFINE q == socket_list[l]
<1>1. q \in Seq(Connection)
  OBVIOUS
<1>2. Occurrences(c, l) = Cardinality(Places(q, c))
  BY DEF Occurrences, Places
<1> HIDE DEF q
<1>3. /\ Cardinality(Places(q, c)) \in Nat
      /\ Cardinality(Places(q, c)) = 0 <=> c \notin ToSet(q)
  BY <1>1, PlacesAreFinite
<1> QED BY <1>2, <1>3 DEF q

LEMMA OccurrencesAdded ==
  ASSUME socket_list \in [SocketLists -> Seq(Connection)], NEW l \in SocketLists,
         NEW c \in Connection, add_to_start(l, c), NEW d \in Connection, NEW m \in SocketLists
  PROVE  Occurrences(d, m)' = IF d = c /\ m = l THEN Occurrences(d, m) + 1 ELSE Occurrences(d, m)
<1> DEFINE q == socket_list[m]
<1>1. q \in Seq(Connection) /\ socket_list'[m] = IF m = l THEN Cons(c, q) ELSE q
  BY DEF add_to_start
<1>2. Occurrences(d, m) = Cardinality(Places(q, d))
  BY DEF Occurrences, Places
<1>3. Occurrences(d, m)' = Cardinality(Places(socket_list'[m], d))
  BY DEF Occurrences, Places
<1> HIDE DEF q
<1>4. Cardinality(Places(Cons(c, q), d)) =
        IF d = c THEN Cardinality(Places(q, d)) + 1 ELSE Cardinality(Places(q, d))
  BY ONLY c \in Connection, <1>1, ConsCounts
<1>5. CASE m = l
  BY <1>1, <1>2, <1>3, <1>4, <1>5
<1>6. CASE m # l
  BY <1>1, <1>2, <1>3, <1>6
<1> QED BY <1>5, <1>6

LEMMA OccurrencesFreed ==
  ASSUME socket_list \in [SocketLists -> Seq(Connection)], NEW l \in SocketLists,
         NEW c \in Connection, free_node(l, c), NEW d \in Connection, NEW m \in SocketLists
  PROVE  Occurrences(d, m)' = IF d = c /\ m = l /\ c \in ToSet(socket_list[l])
                                THEN Occurrences(d, m) - 1 ELSE Occurrences(d, m)
<1> DEFINE q == socket_list[m]
<1>1. /\ q \in Seq(Connection)
      /\ socket_list'[m] = IF m = l /\ c \in ToSet(socket_list[l])
                             THEN RemoveFirst(socket_list[l], c) ELSE q
  BY FreeNodeKeepsMembers
<1>2. Occurrences(d, m) = Cardinality(Places(q, d))
  BY DEF Occurrences, Places
<1>3. Occurrences(d, m)' = Cardinality(Places(socket_list'[m], d))
  BY DEF Occurrences, Places
<1>4. m = l => q = socket_list[l]
  OBVIOUS
<1> HIDE DEF q
<1>5. CASE m = l /\ c \in ToSet(socket_list[l])
  <2>1. c \in ToSet(q)
    BY <1>4, <1>5
  <2>2. Cardinality(Places(RemoveFirst(q, c), d)) =
          IF d = c THEN Cardinality(Places(q, d)) - 1 ELSE Cardinality(Places(q, d))
    BY ONLY <1>1, <2>1, RemoveFirstCounts
  <2> QED BY <1>1, <1>2, <1>3, <1>4, <1>5, <2>2
<1>6. CASE ~(m = l /\ c \in ToSet(socket_list[l]))
  BY <1>1, <1>2, <1>3, <1>6
<1> QED BY <1>5, <1>6

(* Only a connection that has subscribed is in a topic's list.             *)
SubscriptionsInv ==
    /\ net \in [Connection -> [Topic -> Nat]]
    /\ SubscriptionsAgreeWithCommands

LEMMA SubscribersHaveSubscribed ==
  ASSUME MainInv, SubscriptionsInv, NEW t \in Topic, NEW c \in ToSet(socket_list[t])
  PROVE  c \in Connection /\ net[c][t] # 0
<1>1. t \in SocketLists /\ socket_list \in [SocketLists -> Seq(Connection)]
  BY ListsFacts DEF MainInv, MainTypeOK
<1>2. socket_list[t] \in Seq(Connection)
  BY <1>1
<1>3. c \in Connection
  BY <1>2 DEF ToSet
<1>4. Occurrences(c, t) # 0
  BY <1>1, OccurrencesAreNumbers
<1>5. Occurrences(c, t) = IF Removed(c, t) /\ net[c][t] > 0 THEN net[c][t] - 1 ELSE net[c][t]
  BY <1>3 DEF SubscriptionsInv, SubscriptionsAgreeWithCommands
<1>6. net[c][t] = 0 => ~(net[c][t] > 0)
  OBVIOUS
<1> QED BY <1>3, <1>4, <1>5, <1>6

LEMMA SubscriptionsInvInit == Init => SubscriptionsInv
<1> SUFFICES ASSUME Init PROVE SubscriptionsInv
  OBVIOUS
<1> USE BrokerAssumption DEF Init
<1>1. net \in [Connection -> [Topic -> Nat]]
  OBVIOUS
<1>2. ASSUME NEW c \in Connection, NEW t \in Topic
      PROVE  Occurrences(c, t) = IF Removed(c, t) /\ net[c][t] > 0 THEN net[c][t] - 1
                                   ELSE net[c][t]
  <2>1. t \in SocketLists /\ socket_list \in [SocketLists -> Seq(Connection)]
    BY ListsFacts
  <2>2. c \notin ToSet(socket_list[t])
    <3>1. Len(socket_list[t]) = 0
      BY <2>1
    <3> QED BY <3>1 DEF ToSet
  <2>3. Occurrences(c, t) = 0
    BY <2>1, <2>2, OccurrencesAreNumbers
  <2>4. net[c][t] = 0
    OBVIOUS
  <2> QED BY <2>3, <2>4
<1> QED BY <1>1, <1>2 DEF SubscriptionsInv, SubscriptionsAgreeWithCommands

(* Neither commands nor topics' lists, and no connection closes.           *)
LEMMA SubscriptionsStand ==
  ASSUME SubscriptionsInv, UNCHANGED net,
         \A t \in Topic : socket_list'[t] = socket_list[t],
         \A c \in Connection, t \in Topic : Removed(c, t)' = Removed(c, t)
  PROVE  SubscriptionsInv'
<1>1. \A c \in Connection, t \in Topic : Occurrences(c, t)' = Occurrences(c, t)
  BY DEF Occurrences
<1>2. ASSUME NEW c \in Connection, NEW t \in Topic
      PROVE  Occurrences(c, t)' = IF Removed(c, t)' /\ net'[c][t] > 0 THEN net'[c][t] - 1
                                    ELSE net'[c][t]
  BY <1>1 DEF SubscriptionsInv, SubscriptionsAgreeWithCommands
<1> QED BY <1>2 DEF SubscriptionsInv, SubscriptionsAgreeWithCommands

LEMMA AcceptKeepsSubscriptions ==
  ASSUME MainInv, SubscriptionsInv, accept_connection
  PROVE  SubscriptionsInv'
<1> USE BrokerAssumption
<1>1. UNCHANGED <<net, closing, i>>
  BY DEF accept_connection
<1>2. CASE UNCHANGED <<peer, socket, socket_list>>
  <2>1. \A c \in Connection, t \in Topic : Removed(c, t)' = Removed(c, t)
    BY <1>1, <1>2 DEF Removed
  <2> QED BY <1>1, <1>2, <2>1, SubscriptionsStand
<1>3. ASSUME NEW c \in Connection, NEW h \in Handle, socket[c] = NULL,
             socket' = [socket EXCEPT ![c] = h],
             add_to_start(connection_sockets, c) \/ UNCHANGED socket_list
      PROVE  SubscriptionsInv'
  <2>1. \A t \in Topic : socket_list'[t] = socket_list[t]
    BY <1>3, ListsFacts DEF add_to_start, MainInv, MainTypeOK
  <2>2. \A d \in Connection, t \in Topic : Removed(d, t)' = Removed(d, t)
    BY <1>1, <1>3 DEF Removed, MainInv, MainTypeOK
  <2> QED BY <1>1, <2>1, <2>2, SubscriptionsStand
<1> QED BY <1>2, <1>3 DEF accept_connection

LEMMA ReceiveKeepsSubscriptions ==
  ASSUME MainInv, ListsInv, SubscriptionsInv, receive_commands
  PROVE  SubscriptionsInv'
<1> USE BrokerAssumption
<1> DEFINE c == Head(to_visit)
<1>1. /\ c \in Connection /\ UNCHANGED net /\ closing = NULL
      /\ to_visit # << >> /\ to_visit \in Seq(Connection) /\ socket \in Sockets
      /\ socket_list \in [SocketLists -> Seq(Connection)]
      /\ NothingReceived(c) \/ Received(c) \/ ConnectionClosed(c)
  BY DEF receive_commands, MainInv, MainTypeOK, ListsInv, Sockets
<1>2. socket[c] \in Handle
  <2>1. Visitable(to_visit, socket)
    BY DEF ListsInv
  <2> QED BY <1>1, <2>1, VisitableTail
<1> HIDE DEF c
<1>3. CASE NothingReceived(c) \/ Received(c)
  <2>1. UNCHANGED <<socket, socket_list, closing, i>>
    BY <1>3 DEF NothingReceived, Received
  <2>2. \A d \in Connection, t \in Topic : Removed(d, t)' = Removed(d, t)
    BY <2>1 DEF Removed
  <2> QED BY <1>1, <2>1, <2>2, SubscriptionsStand
<1>4. CASE ConnectionClosed(c)
  <2>1. /\ socket' = [socket EXCEPT ![c] = INVALID_SOCKET] /\ closing' = c /\ i' = 1
        /\ free_node(connection_sockets, c)
    BY <1>4 DEF ConnectionClosed, mark_closed
  <2>2. ASSUME NEW t \in Topic PROVE socket_list'[t] = socket_list[t]
    <3>1. connection_sockets \in SocketLists /\ t \in SocketLists /\ t # connection_sockets
      BY ListsFacts
    <3> QED BY <1>1, <2>1, <3>1, FreeNodeKeepsMembers
  <2>3. ASSUME NEW d \in Connection, NEW t \in Topic
        PROVE  Removed(d, t)' = Removed(d, t)
    <3>1. CASE d = c
      <4>1. ~Removed(d, t)
        BY <1>2, <3>1 DEF Removed
      <4>2. t >= 1
        BY DEF Topic
      <4>3. ~Removed(d, t)'
        BY <2>1, <3>1, <4>2 DEF Removed
      <4> QED BY <4>1, <4>3 DEF Removed
    <3>2. CASE d # c
      <4>1. socket'[d] = socket[d]
        BY <1>1, <2>1, <3>2 DEF Sockets
      <4>2. closing # d /\ closing' # d
        BY <1>1, <2>1, <3>2
      <4> QED BY <4>1, <4>2 DEF Removed
    <3> QED BY <3>1, <3>2
  <2> QED BY <1>1, <2>2, <2>3, SubscriptionsStand
<1> QED BY <1>1, <1>3, <1>4

LEMMA RemoveKeepsSubscriptions ==
  ASSUME MainInv, SubscriptionsInv, RemoveSubscription
  PROVE  SubscriptionsInv'
<1> USE BrokerAssumption
<1>1. /\ UNCHANGED <<net, socket>> /\ free_node(i, closing)
      /\ i \in SocketLists /\ i \in Topic /\ closing \in Connection
      /\ socket[closing] = INVALID_SOCKET
      /\ socket_list \in [SocketLists -> Seq(Connection)]
      /\ IF i = TOPICS_NUM THEN closing' = NULL /\ i' = i
                           ELSE i' = i + 1 /\ closing' = closing
  BY ListsFacts DEF RemoveSubscription, MainInv, MainTypeOK, MainIsWhere
<1>2. net' = net /\ net \in [Connection -> [Topic -> Nat]]
  BY <1>1 DEF SubscriptionsInv
<1>3. ASSUME NEW c \in Connection, NEW t \in Topic
      PROVE  Occurrences(c, t)' = IF Removed(c, t)' /\ net'[c][t] > 0 THEN net'[c][t] - 1
                                    ELSE net'[c][t]
  <2>0. t \in SocketLists /\ t \in Int /\ i \in Int /\ TOPICS_NUM \in Int
        /\ t <= TOPICS_NUM
    BY <1>1, ListsFacts DEF Topic
  <2>1. Occurrences(c, t)' = IF c = closing /\ t = i /\ closing \in ToSet(socket_list[i])
                               THEN Occurrences(c, t) - 1 ELSE Occurrences(c, t)
    BY ONLY <1>1, c \in Connection, <2>0, OccurrencesFreed
  <2>2. Occurrences(c, t) = IF Removed(c, t) /\ net[c][t] > 0 THEN net[c][t] - 1 ELSE net[c][t]
    BY DEF SubscriptionsInv, SubscriptionsAgreeWithCommands
  <2>3. CASE c = closing /\ t = i
    <3>1. ~Removed(c, t)
      BY <2>0, <2>3 DEF Removed
    <3>2. Removed(c, t)'
      BY <1>1, <2>0, <2>3 DEF Removed
    <3>3. net[c][t] \in Nat
      BY <1>2
    <3>4. Occurrences(c, t) = net[c][t]
      BY <2>2, <3>1
    <3>5. closing \in ToSet(socket_list[i]) <=> net[c][t] > 0
      <4>1. Occurrences(c, t) = 0 <=> c \notin ToSet(socket_list[t])
        BY <1>1, <2>0, OccurrencesAreNumbers
      <4> QED BY <2>3, <3>3, <3>4, <4>1
    <3>6. CASE net[c][t] > 0
      BY <1>2, <2>1, <2>3, <3>2, <3>4, <3>5, <3>6
    <3>7. CASE ~(net[c][t] > 0)
      BY <1>2, <2>1, <2>3, <3>4, <3>5, <3>7
    <3> QED BY <3>6, <3>7
  <2>4. CASE ~(c = closing /\ t = i)
    <3>1. Removed(c, t)' <=> Removed(c, t)
      <4>1. CASE i = TOPICS_NUM
        BY <1>1, <2>0, <2>4, <4>1 DEF Removed
      <4>2. CASE i # TOPICS_NUM
        BY <1>1, <2>0, <2>4, <4>2 DEF Removed
      <4> QED BY <4>1, <4>2
    <3>2. Occurrences(c, t)' = Occurrences(c, t)
      BY <2>1, <2>4
    <3> QED BY <1>2, <2>2, <3>1, <3>2
  <2> QED BY <2>3, <2>4
<1> QED BY <1>2, <1>3 DEF SubscriptionsInv, SubscriptionsAgreeWithCommands

LEMMA ExecuteKeepsSubscriptions ==
  ASSUME MainInv, ListsInv, SubscriptionsInv, execute_command
  PROVE  SubscriptionsInv'
<1> USE BrokerAssumption
<1>1. PICK c \in Connection, command \in Command :
        socket[c] \in Handle /\ Executed(c, command)
  BY ExecuteExecutes
<1>2. UNCHANGED <<socket, closing, i>>
  BY ExecuteExecutes
<1>3. socket_list \in [SocketLists -> Seq(Connection)] /\ net \in [Connection -> [Topic -> Nat]]
  BY DEF MainInv, MainTypeOK, SubscriptionsInv
<1>4. \A d \in Connection, t \in Topic : Removed(d, t)' = Removed(d, t)
  BY <1>2 DEF Removed
<1>5. \A t \in Topic : ~Removed(c, t)
  BY <1>1 DEF Removed
<1>6. ASSUME UNCHANGED <<net, socket_list>> PROVE SubscriptionsInv'
  BY <1>4, <1>6, SubscriptionsStand
<1> DEFINE t == command.topic
<1>7. CASE publish(c, command) \/ query(c, command) \/ query_fails(command)
  BY <1>6, <1>7 DEF publish, query, query_fails
<1>8. CASE subscribe(c, command)
  <2>1. CASE ~(t \in Topic /\ Len(socket_list[t]) <= SUBSCRIBER_LIST_MAX_SIZE)
    BY <1>6, <1>8, <2>1 DEF subscribe
  <2>2. CASE t \in Topic /\ Len(socket_list[t]) <= SUBSCRIBER_LIST_MAX_SIZE
    <3>1. add_to_start(t, c) /\ net' = [net EXCEPT ![c][t] = @ + 1]
      BY <1>8, <2>2 DEF subscribe
    <3>2. t \in SocketLists /\ t \in Topic
      BY <2>2, ListsFacts
    <3> HIDE DEF t
    <3>3. /\ net' \in [Connection -> [Topic -> Nat]]
          /\ \A d \in Connection, u \in Topic :
                net'[d][u] = IF d = c /\ u = t THEN net[d][u] + 1 ELSE net[d][u]
      BY <1>3, <3>1, <3>2
    <3>4. ASSUME NEW d \in Connection, NEW u \in Topic
          PROVE  Occurrences(d, u)' = IF Removed(d, u)' /\ net'[d][u] > 0 THEN net'[d][u] - 1
                                        ELSE net'[d][u]
      <4>1. u \in SocketLists
        BY ListsFacts
      <4>2. Occurrences(d, u)' = IF d = c /\ u = t THEN Occurrences(d, u) + 1
                                                  ELSE Occurrences(d, u)
        BY ONLY c \in Connection, d \in Connection, <1>3, <3>1, <3>2, <4>1, OccurrencesAdded
      <4>3. Occurrences(d, u) = IF Removed(d, u) /\ net[d][u] > 0 THEN net[d][u] - 1
                                                                 ELSE net[d][u]
        BY DEF SubscriptionsInv, SubscriptionsAgreeWithCommands
      <4>4. Removed(d, u)' = Removed(d, u)
        BY <1>4
      <4>5. CASE d = c /\ u = t
        BY <1>5, <3>3, <4>2, <4>3, <4>4, <4>5
      <4>6. CASE ~(d = c /\ u = t)
        BY <3>3, <4>2, <4>3, <4>4, <4>6
      <4> QED BY <4>5, <4>6
    <3> QED BY <3>3, <3>4 DEF SubscriptionsInv, SubscriptionsAgreeWithCommands
  <2> QED BY <2>1, <2>2
<1>9. CASE unsubscribe(c, command)
  <2>1. CASE ~(t \in Topic /\ c \in ToSet(socket_list[t]))
    BY <1>6, <1>9, <2>1 DEF unsubscribe
  <2>2. CASE t \in Topic /\ c \in ToSet(socket_list[t])
    <3>1. free_node(t, c) /\ net' = [net EXCEPT ![c][t] = @ - 1]
      BY <1>9, <2>2 DEF unsubscribe
    <3>2. t \in SocketLists /\ t \in Topic /\ c \in ToSet(socket_list[t])
      BY <2>2, ListsFacts
    <3> HIDE DEF t
    <3>3. net[c][t] \in Nat /\ net[c][t] # 0
      BY <1>3, <3>2, SubscribersHaveSubscribed
    <3>4. /\ net' \in [Connection -> [Topic -> Nat]]
          /\ \A d \in Connection, u \in Topic :
                net'[d][u] = IF d = c /\ u = t THEN net[d][u] - 1 ELSE net[d][u]
      <4>1. net[c][t] - 1 \in Nat
        BY <3>3
      <4> QED BY <1>3, <3>1, <3>2, <4>1
    <3>5. ASSUME NEW d \in Connection, NEW u \in Topic
          PROVE  Occurrences(d, u)' = IF Removed(d, u)' /\ net'[d][u] > 0 THEN net'[d][u] - 1
                                        ELSE net'[d][u]
      <4>1. u \in SocketLists
        BY ListsFacts
      <4>2. Occurrences(d, u)' = IF d = c /\ u = t /\ c \in ToSet(socket_list[t])
                                   THEN Occurrences(d, u) - 1 ELSE Occurrences(d, u)
        BY ONLY c \in Connection, d \in Connection, <1>3, <3>1, <3>2, <4>1, OccurrencesFreed
      <4>3. Occurrences(d, u) = IF Removed(d, u) /\ net[d][u] > 0 THEN net[d][u] - 1
                                                                 ELSE net[d][u]
        BY DEF SubscriptionsInv, SubscriptionsAgreeWithCommands
      <4>4. Removed(d, u)' = Removed(d, u)
        BY <1>4
      <4>5. CASE d = c /\ u = t
        BY <1>5, <3>2, <3>4, <4>2, <4>3, <4>4, <4>5
      <4>6. CASE ~(d = c /\ u = t)
        BY <3>4, <4>2, <4>3, <4>4, <4>6
      <4> QED BY <4>5, <4>6
    <3> QED BY <3>4, <3>5 DEF SubscriptionsInv, SubscriptionsAgreeWithCommands
  <2> QED BY <2>1, <2>2
<1> QED BY <1>1, <1>7, <1>8, <1>9 DEF Executed

LEMMA SubscriptionsInvStep ==
  MainInv /\ ListsInv /\ SubscriptionsInv /\ [Next]_vars => SubscriptionsInv'
<1> SUFFICES ASSUME MainInv, ListsInv, SubscriptionsInv, [Next]_vars PROVE SubscriptionsInv'
  OBVIOUS
<1>1. CASE UNCHANGED <<socket, socket_list, closing, i, net>>
  <2>1. \A c \in Connection, t \in Topic : Removed(c, t)' = Removed(c, t)
    BY <1>1 DEF Removed
  <2> QED BY <1>1, <2>1, SubscriptionsStand
<1>2. CASE ClientStep \/ ConsumerStep \/ RoundEnds \/ UNCHANGED vars
  BY <1>1, <1>2 DEF ClientStep, ConsumerStep, RoundEnds, vars, mainVars
<1>3. CASE MainStep
  BY <1>2, <1>3, AcceptKeepsSubscriptions, ReceiveKeepsSubscriptions,
     RemoveKeepsSubscriptions, ExecuteKeepsSubscriptions DEF MainStep
<1> QED BY <1>2, <1>3 DEF Next

-----------------------------------------------------------------------------
(* A topic's messages are numbered as they were accepted, and the consumer *)
(* is busy with the one it forwarded last.                                 *)
Element == [source : Topic, message : Nat] \cup [source : {Main}, message : Response]

LogInv ==
    /\ forwarded \in [Sources -> Seq(Nat \cup Response)]
    /\ \A s \in Sources : Len(forwarded[s]) <= Len(accepted[s])
    /\ \A t \in Topic : \A n \in 1 .. Len(accepted[t]) : accepted[t][n] = n
    /\ \A n \in 1 .. Len(accepted[Main]) : accepted[Main][n] \in Response
    /\ consumer # "consume" =>
          /\ element \in Element
          /\ element.source \in Topic => element.message = Len(forwarded[element.source])

LEMMA LogInvInit == Init => LogInv
<1> SUFFICES ASSUME Init PROVE LogInv
  OBVIOUS
<1>1. /\ accepted = [s \in Sources |-> << >>] /\ forwarded = [s \in Sources |-> << >>]
      /\ consumer = "consume"
  BY DEF Init, Log!Init, Sources
<1> QED BY <1>1, ListsFacts DEF LogInv

LEMMA LogInvStands ==
  ASSUME LogInv, UNCHANGED <<accepted, forwarded>>,
         consumer' # "consume" => consumer # "consume" /\ UNCHANGED element
  PROVE  LogInv'
  BY DEF LogInv

(* What a command may add to the log.                                      *)
LEMMA ExecutedOnLog ==
  ASSUME MainInv, NEW c \in Connection, NEW command \in Command, Executed(c, command)
  PROVE  /\ UNCHANGED forwarded
         /\ \/ UNCHANGED accepted
            \/ \E t \in Topic : accepted' = [accepted EXCEPT ![t] = Append(@, Len(accepted[t]) + 1)]
            \/ \E r \in Response : accepted' = [accepted EXCEPT ![Main] = Append(@, r)]
<1> USE BrokerAssumption
<1>1. CASE publish(c, command)
  BY <1>1 DEF publish, Log!Accept
<1>2. CASE subscribe(c, command) \/ unsubscribe(c, command) \/ query_fails(command)
  BY <1>2 DEF subscribe, unsubscribe, query_fails
<1>3. CASE query(c, command)
  <2>1. command.operation \in {"topic_exists", "subscriber_number"}
    BY <1>3 DEF query
  <2>2. socket_list \in [SocketLists -> Seq(Connection)] /\ Topic \subseteq SocketLists
    BY ListsFacts DEF MainInv, MainTypeOK
  <2>3. Answer(command) \in Int
    BY <2>1, <2>2 DEF Answer, Operation
  <2>4. [to |-> socket[c], asker |-> c, answer |-> Answer(command)] \in Response
    BY <2>3 DEF Response, MainInv, MainTypeOK
  <2> QED BY <1>3, <2>4 DEF query, Log!Accept
<1> QED BY <1>1, <1>2, <1>3 DEF Executed

LEMMA ExecuteKeepsLog ==
  ASSUME MainInv, ListsInv, LogInv, execute_command
  PROVE  LogInv'
<1>1. PICK c \in Connection, command \in Command : Executed(c, command)
  BY ExecuteExecutes
<1>2. UNCHANGED <<consumer, element>>
  BY ExecuteExecutes
<1>3. UNCHANGED forwarded
  BY <1>1, ExecutedOnLog
<1>4. /\ accepted \in [Sources -> Seq(Nat \cup Response)]
      /\ forwarded \in [Sources -> Seq(Nat \cup Response)]
  BY DEF MainInv, MainTypeOK, LogInv
<1>5. CASE UNCHANGED accepted
  BY <1>2, <1>3, <1>5, LogInvStands
<1>6. ASSUME NEW s \in Sources, NEW m \in Nat \cup Response,
             accepted' = [accepted EXCEPT ![s] = Append(@, m)],
             s \in Topic => m = Len(accepted[s]) + 1, s = Main => m \in Response
      PROVE  LogInv'
  <2>1. /\ Len(accepted[s]) \in Nat
        /\ Len(Append(accepted[s], m)) = Len(accepted[s]) + 1
        /\ \A n \in 1 .. Len(accepted[s]) + 1 : Append(accepted[s], m)[n] =
              IF n <= Len(accepted[s]) THEN accepted[s][n] ELSE m
    BY <1>4
  <2>2. accepted'[s] = Append(accepted[s], m)
        /\ \A u \in Sources : u # s => accepted'[u] = accepted[u]
    BY <1>4, <1>6
  <2>3. ASSUME NEW u \in Sources PROVE Len(forwarded'[u]) <= Len(accepted'[u])
    <3>1. Len(forwarded[u]) <= Len(accepted[u]) /\ Len(forwarded[u]) \in Nat
          /\ Len(accepted[u]) \in Nat
      BY <1>4 DEF LogInv
    <3>2. CASE u = s
      BY <1>3, <2>1, <2>2, <3>1, <3>2
    <3>3. CASE u # s
      BY <1>3, <2>2, <3>1, <3>3
    <3> QED BY <3>2, <3>3
  <2>4. ASSUME NEW t \in Topic, NEW n \in 1 .. Len(accepted'[t]) PROVE accepted'[t][n] = n
    <3>1. CASE t = s
      <4>1. n \in 1 .. Len(accepted[s]) + 1
        BY <2>1, <2>2, <2>4, <3>1
      <4>2. CASE n <= Len(accepted[s])
        <5>1. n \in 1 .. Len(accepted[s])
          BY <2>1, <4>1, <4>2
        <5> QED BY <2>1, <2>2, <3>1, <4>1, <4>2, <5>1 DEF LogInv
      <4>3. CASE ~(n <= Len(accepted[s]))
        <5>1. n = Len(accepted[s]) + 1
          BY <2>1, <4>1, <4>3
        <5> QED BY <1>6, <2>1, <2>2, <3>1, <4>1, <4>3, <5>1
      <4> QED BY <4>2, <4>3
    <3>2. CASE t # s
      BY <2>2, <2>4, <3>2, ListsFacts DEF LogInv
    <3> QED BY <3>1, <3>2
  <2>5. ASSUME NEW n \in 1 .. Len(accepted'[Main]) PROVE accepted'[Main][n] \in Response
    <3>1. CASE s = Main
      <4>1. n \in 1 .. Len(accepted[Main]) + 1
        BY <2>1, <2>2, <2>5, <3>1
      <4>2. n <= Len(accepted[Main]) => n \in 1 .. Len(accepted[Main])
        BY <2>1, <3>1, <4>1
      <4>3. accepted'[Main][n] = IF n <= Len(accepted[Main]) THEN accepted[Main][n] ELSE m
        BY <2>1, <2>2, <3>1, <4>1
      <4> QED BY <1>6, <3>1, <4>2, <4>3 DEF LogInv
    <3>2. CASE s # Main
      BY <2>2, <2>5, <3>2, ListsFacts DEF LogInv
    <3> QED BY <3>1, <3>2
  <2> QED BY <1>2, <1>3, <1>4, <2>3, <2>4, <2>5 DEF LogInv
<1>7. ASSUME NEW t \in Topic, accepted' = [accepted EXCEPT ![t] = Append(@, Len(accepted[t]) + 1)]
      PROVE  LogInv'
  <2>1. t \in Sources /\ t # Main /\ Len(accepted[t]) + 1 \in Nat \cup Response
    BY <1>4, ListsFacts
  <2> QED BY <1>6, <1>7, <2>1
<1>8. ASSUME NEW r \in Response, accepted' = [accepted EXCEPT ![Main] = Append(@, r)]
      PROVE  LogInv'
  BY <1>6, <1>8, ListsFacts
<1> QED BY <1>1, <1>5, <1>7, <1>8, ExecutedOnLog

LEMMA ForwardsOne ==
  ASSUME MainInv, LogInv, NEW s \in Sources, Log!Forward(s)
  PROVE  /\ UNCHANGED accepted
         /\ forwarded' \in [Sources -> Seq(Nat \cup Response)]
         /\ \A u \in Sources : u # s => forwarded'[u] = forwarded[u]
         /\ Len(forwarded'[s]) = Len(forwarded[s]) + 1
         /\ Len(forwarded'[s]) \in 1 .. Len(accepted[s])
<1>1. /\ accepted \in [Sources -> Seq(Nat \cup Response)]
      /\ forwarded \in [Sources -> Seq(Nat \cup Response)]
  BY DEF MainInv, MainTypeOK, LogInv
<1>2. /\ Len(forwarded[s]) < Len(accepted[s]) /\ UNCHANGED accepted
      /\ forwarded' = [forwarded EXCEPT ![s] = Append(@, accepted[s][Len(@) + 1])]
  BY DEF Log!Forward
<1>3. Len(forwarded[s]) \in Nat /\ Len(accepted[s]) \in Nat
  BY <1>1
<1>4. accepted[s][Len(forwarded[s]) + 1] \in Nat \cup Response
  <2>1. Len(forwarded[s]) + 1 \in 1 .. Len(accepted[s])
    BY <1>2, <1>3
  <2> QED BY <1>1, <2>1
<1>5. /\ forwarded'[s] = Append(forwarded[s], accepted[s][Len(forwarded[s]) + 1])
      /\ \A u \in Sources : u # s => forwarded'[u] = forwarded[u]
  BY <1>1, <1>2
<1>6. /\ forwarded'[s] \in Seq(Nat \cup Response)
      /\ Len(forwarded'[s]) = Len(forwarded[s]) + 1
  BY <1>1, <1>4, <1>5
<1>7. forwarded' \in [Sources -> Seq(Nat \cup Response)]
  BY <1>1, <1>2, <1>4
<1>8. Len(forwarded'[s]) \in 1 .. Len(accepted[s])
  BY <1>2, <1>3, <1>6
<1> QED BY <1>2, <1>5, <1>6, <1>7, <1>8

LEMMA ConsumeKeepsLog ==
  ASSUME MainInv, LogInv, NEW s \in Sources, Log!Forward(s), TakenFrom(s)
  PROVE  /\ LogInv'
         /\ element' \in Element /\ element'.source = s
         /\ s \in Topic => element' = [source |-> s, message |-> Len(forwarded'[s])]
         /\ s = Main => element'.message \in Response
<1> DEFINE n == Len(forwarded'[s])
<1>1. /\ UNCHANGED accepted
      /\ forwarded' \in [Sources -> Seq(Nat \cup Response)]
      /\ \A u \in Sources : u # s => forwarded'[u] = forwarded[u]
      /\ n \in 1 .. Len(accepted[s])
  BY ForwardsOne
<1>2. element' = [source |-> s, message |-> accepted[s][n]]
  BY DEF TakenFrom
<1>3. s \in Topic => accepted[s][n] = n
  BY <1>1 DEF LogInv
<1>4. s = Main => accepted[s][n] \in Response
  BY <1>1 DEF LogInv
<1>5. Len(accepted[s]) \in Nat /\ n \in Nat /\ n <= Len(accepted[s])
  BY <1>1 DEF MainInv, MainTypeOK
<1>6. s \in Topic \/ s = Main
  BY DEF Sources
<1>7. element' \in Element /\ element'.source = s
  BY <1>2, <1>3, <1>4, <1>5, <1>6 DEF Element
<1>8. s \in Topic => element' = [source |-> s, message |-> n]
  BY <1>2, <1>3
<1>9. s = Main => element'.message \in Response
  BY <1>2, <1>4
<1>10. \A u \in Sources : Len(forwarded'[u]) <= Len(accepted'[u])
  BY <1>1, <1>5 DEF LogInv
<1>11. element'.source \in Topic => element'.message = Len(forwarded'[element'.source])
  BY <1>2, <1>3
<1> QED BY <1>1, <1>7, <1>8, <1>9, <1>10, <1>11 DEF LogInv

LEMMA LogInvStep == MainInv /\ ListsInv /\ LogInv /\ [Next]_vars => LogInv'
<1> SUFFICES ASSUME MainInv, ListsInv, LogInv, [Next]_vars PROVE LogInv'
  OBVIOUS
<1>1. CASE UNCHANGED vars \/ ClientStep \/ accept_connection \/ receive_commands
             \/ RoundEnds \/ RemoveSubscription
  <2>1. UNCHANGED <<accepted, forwarded, consumer, element>>
    BY <1>1 DEF vars, ClientStep, accept_connection, receive_commands, RoundEnds,
                RemoveSubscription, consumerVars
  <2> QED BY <2>1, LogInvStands
<1>2. CASE execute_command
  BY <1>2, ExecuteKeepsLog
<1>3. CASE ConsumeResponse
  BY <1>3, ListsFacts, ConsumeKeepsLog DEF ConsumeResponse
<1>4. ASSUME NEW t \in Topic, ConsumeMessage(t) PROVE LogInv'
  BY <1>4, ListsFacts, ConsumeKeepsLog DEF ConsumeMessage
<1>5. CASE StartWalk \/ WalkOn \/ send_to_client
  <2>1. UNCHANGED <<accepted, forwarded>>
    BY <1>5 DEF StartWalk, WalkOn, send_to_client
  <2>2. consumer # "consume" /\ (consumer' # "consume" => UNCHANGED element)
    <3>1. ASSUME NEW l, NEW left, WalkTo(l, left)
          PROVE  consumer' # "consume" => UNCHANGED element
      BY <3>1 DEF WalkTo
    <3>2. CASE StartWalk
      BY <3>1, <3>2 DEF StartWalk
    <3>3. CASE WalkOn
      BY <3>1, <3>3 DEF WalkOn, walk_on, consumerVars
    <3>4. CASE send_to_client
      BY <3>4 DEF send_to_client
    <3> QED BY <1>5, <3>2, <3>3, <3>4
  <2> QED BY <2>1, <2>2, LogInvStands
<1> QED BY <1>1, <1>2, <1>3, <1>4, <1>5 DEF Next, MainStep, ConsumerStep

-----------------------------------------------------------------------------
(* The consumer walks on a node of the list of the topic whose message it  *)
(* has, unless that node has been freed or the walk has gone astray.       *)
ConsumerTypeOK ==
    /\ consumer \in {"consume", "start", "send", "walk"}
    /\ connection_socket \in Handle \cup {INVALID_SOCKET, NULL}
    /\ copied_from \in Connection \cup {NULL}
    /\ walker \in [list : SocketLists, left : Nat]
    /\ dangling \in BOOLEAN /\ astray \in BOOLEAN /\ misdirected \in BOOLEAN

Walking == consumer \in {"send", "walk"} /\ element.source # Main

WalkInv ==
    /\ ConsumerTypeOK
    /\ consumer \in {"start", "walk"} => element.source \in Topic
    /\ consumer = "send" => copied_from \in Connection
    /\ dangling => Walking
    /\ process = "running" /\ Walking =>
          /\ ~dangling => walker.left \in 1 .. Len(socket_list[walker.list])
          /\ ~astray => walker.list = element.source

LEMMA WalkInvInit == Init => WalkInv
<1> SUFFICES ASSUME Init PROVE WalkInv
  OBVIOUS
<1> USE BrokerAssumption, ListsFacts DEF Init
<1>1. ConsumerTypeOK
  BY DEF ConsumerTypeOK
<1> QED BY <1>1 DEF WalkInv, Walking

(* Lists that do not get shorter do not disturb the walk.                  *)
LEMMA WalkInvStands ==
  ASSUME MainInv, WalkInv,
         UNCHANGED <<consumer, element, connection_socket, copied_from, walker, dangling,
                     astray, misdirected>>,
         process' \in {process, "crashed"},
         socket_list' \in [SocketLists -> Seq(Connection)],
         \A l \in SocketLists : Len(socket_list'[l]) >= Len(socket_list[l])
  PROVE  WalkInv'
<1>1. ConsumerTypeOK'
  BY DEF WalkInv, ConsumerTypeOK
<1>2. Walking' = Walking
  BY DEF Walking
<1>3. ASSUME process = "running", Walking, ~dangling
      PROVE  walker.left \in 1 .. Len(socket_list'[walker.list])
  <2>1. walker.list \in SocketLists /\ walker.left \in 1 .. Len(socket_list[walker.list])
    BY <1>3 DEF WalkInv, ConsumerTypeOK
  <2>2. Len(socket_list[walker.list]) \in Nat /\ Len(socket_list'[walker.list]) \in Nat
    BY <2>1 DEF MainInv, MainTypeOK
  <2> QED BY <2>1, <2>2
<1> QED BY <1>1, <1>2, <1>3 DEF WalkInv

LEMMA FreeNodeKeepsWalk ==
  ASSUME MainInv, WalkInv, NEW l \in SocketLists, NEW c \in Connection, free_node(l, c),
         UNCHANGED <<consumer, element, connection_socket, copied_from, misdirected>>,
         process' \in {process, "crashed"}
  PROVE  WalkInv'
<1>0. socket_list \in [SocketLists -> Seq(Connection)]
  BY DEF MainInv, MainTypeOK
<1>1. CASE c \notin ToSet(socket_list[l])
  <2>1. UNCHANGED <<socket_list, walker, dangling, astray>>
    BY <1>1, FreeNodeFindsNone DEF walkVars
  <2>2. \A k \in SocketLists : Len(socket_list'[k]) >= Len(socket_list[k])
    BY <1>0, <2>1
  <2> QED BY <1>0, <2>1, <2>2, WalkInvStands
<1>2. CASE c \in ToSet(socket_list[l])
  <2> DEFINE f == FreedFromEnd(l, c)
             q == socket_list[l]
  <2>1. /\ dangling' = (dangling \/ (WalkerIsIn(l) /\ walker.left = f))
        /\ walker' = IF WalkerIsIn(l) /\ ~dangling /\ f < walker.left
                        THEN [walker EXCEPT !.left = @ - 1] ELSE walker
        /\ UNCHANGED astray
    BY <1>2, FreeNodeTakesFirst
  <2>2. f \in 1 .. Len(q) /\ Len(q) \in Nat
    <3>1. q \in Seq(Connection) /\ c \in ToSet(q)
      BY <1>0, <1>2
    <3>2. FirstAt(q, c) \in 1 .. Len(q)
      BY <3>1, FirstIsNearest
    <3> QED BY <3>1, <3>2 DEF FreedFromEnd
  <2>3. \A k \in SocketLists : k # l => socket_list'[k] = socket_list[k]
    BY <1>0, FreeNodeShortens
  <2>4. Len(socket_list'[l]) = Len(q) - 1
    BY <1>0, <1>2, FreeNodeShortens
  <2>5. walker \in [list : SocketLists, left : Nat] /\ dangling \in BOOLEAN
    BY DEF WalkInv, ConsumerTypeOK
  <2> HIDE DEF f, q
  <2>6. walker' \in [list : SocketLists, left : Nat] /\ walker'.list = walker.list
        /\ walker'.left = IF WalkerIsIn(l) /\ ~dangling /\ f < walker.left
                            THEN walker.left - 1 ELSE walker.left
    <3>1. CASE WalkerIsIn(l) /\ ~dangling /\ f < walker.left
      <4>1. walker.left - 1 \in Nat
        BY <2>2, <2>5, <3>1
      <4> QED BY <2>1, <2>5, <3>1, <4>1
    <3>2. CASE ~(WalkerIsIn(l) /\ ~dangling /\ f < walker.left)
      BY <2>1, <2>5, <3>2
    <3> QED BY <3>1, <3>2
  <2>7. ConsumerTypeOK'
    BY <2>1, <2>5, <2>6 DEF WalkInv, ConsumerTypeOK
  <2>8. Walking' = Walking
    BY DEF Walking
  <2>9. WalkerIsIn(l) <=> Walking /\ walker.list = l
    BY DEF WalkerIsIn, Walking
  <2>10. dangling' => Walking'
    BY <2>1, <2>8, <2>9 DEF WalkInv
  <2>11. ASSUME process' = "running", Walking', ~dangling'
         PROVE  walker'.left \in 1 .. Len(socket_list'[walker'.list])
    <3>1. ~dangling /\ ~(WalkerIsIn(l) /\ walker.left = f)
      BY <2>1, <2>11
    <3>2. walker.left \in 1 .. Len(socket_list[walker.list])
      BY <2>8, <2>11, <3>1 DEF WalkInv
    <3>3. CASE walker.list = l
      <4>1. walker.left # f /\ walker.left \in 1 .. Len(q) /\ WalkerIsIn(l)
        BY <2>8, <2>9, <2>11, <3>1, <3>2, <3>3 DEF q
      <4>2. CASE f < walker.left
        BY <2>2, <2>4, <2>6, <3>1, <3>3, <4>1, <4>2
      <4>3. CASE ~(f < walker.left)
        BY <2>2, <2>4, <2>6, <3>1, <3>3, <4>1, <4>3
      <4> QED BY <4>2, <4>3
    <3>4. CASE walker.list # l
      <4>1. ~WalkerIsIn(l)
        BY <2>9, <3>4
      <4> QED BY <2>3, <2>5, <2>6, <3>2, <3>4, <4>1
    <3> QED BY <3>3, <3>4
  <2> QED BY <2>1, <2>6, <2>7, <2>8, <2>10, <2>11 DEF WalkInv
<1> QED BY <1>1, <1>2

(* What a move of the walker leads to.                                     *)
LEMMA WalkToLeads ==
  ASSUME MainInv, NEW l \in SocketLists, NEW left \in 0 .. Len(socket_list[l]), WalkTo(l, left)
  PROVE  \/ /\ left = 0 /\ consumer' = "consume" /\ element' = NULL
            /\ connection_socket' = NULL /\ copied_from' = NULL
            /\ UNCHANGED walker
         \/ /\ left \in 1 .. Len(socket_list[l]) /\ consumer' = "send"
            /\ walker' = [list |-> l, left |-> left] /\ left \in Nat
            /\ Len(socket_list[l]) - left + 1 \in 1 .. Len(socket_list[l])
            /\ copied_from' = socket_list[l][Len(socket_list[l]) - left + 1]
            /\ copied_from' \in Connection
            /\ connection_socket' = socket[copied_from']
            /\ UNCHANGED element
<1>1. socket_list[l] \in Seq(Connection)
  BY DEF MainInv, MainTypeOK
<1>2. CASE left = 0
  BY <1>2 DEF WalkTo
<1>3. CASE left # 0
  <2>1. left \in 1 .. Len(socket_list[l]) /\ Len(socket_list[l]) \in Nat
    BY <1>1, <1>3
  <2>2. Len(socket_list[l]) - left + 1 \in 1 .. Len(socket_list[l])
    BY <2>1
  <2> QED BY <1>1, <1>3, <2>1, <2>2 DEF WalkTo
<1> QED BY <1>2, <1>3

(* All that main ever does to the lists, and what it leaves alone.         *)
LEMMA MainOnLists ==
  ASSUME MainInv, ListsInv, MainStep
  PROVE  /\ UNCHANGED <<client, forwarded, consumer, element, connection_socket, copied_from,
                        received, misdirected>>
         /\ process' \in {process, "crashed"}
         /\ \/ UNCHANGED <<socket_list, walkVars>>
            \/ \E l \in SocketLists, c \in Connection :
                  \/ add_to_start(l, c) /\ UNCHANGED walkVars
                  \/ free_node(l, c)
<1>1. CASE accept_connection
  BY <1>1, ListsFacts DEF accept_connection, clientVars, consumerVars, sendVars
<1>2. CASE receive_commands
  <2>1. Head(to_visit) \in Connection
    BY <1>2 DEF receive_commands, MainInv, MainTypeOK
  <2>2. UNCHANGED <<client, forwarded, consumer, element, connection_socket, copied_from,
                    received, misdirected, process>>
    BY <1>2 DEF receive_commands, consumerVars, sendVars
  <2>3. \/ UNCHANGED <<socket_list, walkVars>>
        \/ free_node(connection_sockets, Head(to_visit))
    BY <1>2 DEF receive_commands, NothingReceived, Received, ConnectionClosed
  <2> QED BY <2>1, <2>2, <2>3, ListsFacts
<1>3. CASE RoundEnds
  BY <1>3 DEF RoundEnds, clientVars, consumerVars, sendVars
<1>4. CASE RemoveSubscription
  <2>1. closing \in Connection /\ i \in SocketLists
    BY <1>4, ListsFacts DEF RemoveSubscription, MainInv, MainTypeOK, MainIsWhere
  <2> QED BY <1>4, <2>1 DEF RemoveSubscription, clientVars, consumerVars, sendVars
<1>5. CASE execute_command
  <2>1. PICK c \in Connection, command \in Command : Executed(c, command)
    BY <1>5, ExecuteExecutes
  <2>2. /\ UNCHANGED <<client, consumer, element, connection_socket, copied_from,
                       received, misdirected>>
        /\ process' \in {process, "crashed"}
    BY <1>5, ExecuteExecutes
  <2>3. UNCHANGED forwarded
    BY <2>1, ExecutedOnLog
  <2>4. CASE publish(c, command) \/ query(c, command) \/ query_fails(command)
    BY <2>2, <2>3, <2>4 DEF publish, query, query_fails
  <2>5. CASE subscribe(c, command)
    BY <2>2, <2>3, <2>5, ListsFacts DEF subscribe
  <2>6. CASE unsubscribe(c, command)
    BY <2>2, <2>3, <2>6, ListsFacts DEF unsubscribe
  <2> QED BY <2>1, <2>4, <2>5, <2>6 DEF Executed
<1> QED BY <1>1, <1>2, <1>3, <1>4, <1>5 DEF MainStep

LEMMA MainKeepsWalk ==
  ASSUME MainInv, ListsInv, WalkInv, MainStep
  PROVE  WalkInv'
<1>0. socket_list \in [SocketLists -> Seq(Connection)]
  BY DEF MainInv, MainTypeOK
<1>1. /\ UNCHANGED <<consumer, element, connection_socket, copied_from, misdirected>>
      /\ process' \in {process, "crashed"}
  BY MainOnLists
<1>2. CASE UNCHANGED <<socket_list, walkVars>>
  <2>1. \A k \in SocketLists : Len(socket_list'[k]) >= Len(socket_list[k])
    BY <1>0, <1>2
  <2> QED BY <1>0, <1>1, <1>2, <2>1, WalkInvStands DEF walkVars
<1>3. ASSUME NEW l \in SocketLists, NEW c \in Connection, add_to_start(l, c), UNCHANGED walkVars
      PROVE  WalkInv'
  <2>1. /\ socket_list' \in [SocketLists -> Seq(Connection)]
        /\ \A k \in SocketLists : k # l => socket_list'[k] = socket_list[k]
        /\ Len(socket_list'[l]) = Len(socket_list[l]) + 1
    BY <1>0, <1>3, AddToStartLengthens
  <2>2. ASSUME NEW k \in SocketLists PROVE Len(socket_list'[k]) >= Len(socket_list[k])
    <3>1. Len(socket_list[k]) \in Nat
      BY <1>0
    <3> QED BY <2>1, <3>1
  <2> QED BY <1>1, <1>3, <2>1, <2>2, WalkInvStands DEF walkVars
<1>4. ASSUME NEW l \in SocketLists, NEW c \in Connection, free_node(l, c)
      PROVE  WalkInv'
  BY <1>1, <1>4, FreeNodeKeepsWalk
<1> QED BY <1>2, <1>3, <1>4, MainOnLists

LEMMA ConsumerKeepsWalk ==
  ASSUME MainInv, LogInv, WalkInv, ConsumerStep, process = "running"
  PROVE  WalkInv'
<1> USE BrokerAssumption, ListsFacts
<1>0. /\ UNCHANGED <<socket, socket_list>> /\ ConsumerTypeOK
      /\ socket \in Sockets /\ socket_list \in [SocketLists -> Seq(Connection)]
  BY DEF ConsumerStep, WalkInv, MainInv, MainTypeOK, Sockets
<1>1. CASE ConsumeResponse /\ UNCHANGED <<sendVars, process>>
  <2>1. /\ consumer = "consume" /\ consumer' = "send"
        /\ connection_socket' = element'.message.to /\ copied_from' = element'.message.asker
        /\ UNCHANGED <<walker, dangling, astray, misdirected>>
    BY <1>1 DEF ConsumeResponse, walkVars, sendVars
  <2>2. element'.source = Main /\ element'.message \in Response
    BY <1>1, ConsumeKeepsLog DEF ConsumeResponse
  <2>3. ConsumerTypeOK' /\ copied_from' \in Connection
    BY <1>0, <2>1, <2>2 DEF ConsumerTypeOK, Response
  <2>4. ~dangling
    BY <2>1 DEF WalkInv, Walking
  <2>5. ~Walking'
    BY <2>2 DEF Walking
  <2> QED BY <2>1, <2>3, <2>4, <2>5 DEF WalkInv
<1>2. ASSUME NEW t \in Topic, ConsumeMessage(t), UNCHANGED <<sendVars, process>> PROVE WalkInv'
  <2>1. /\ consumer = "consume" /\ consumer' = "start"
        /\ UNCHANGED <<connection_socket, copied_from, walker, dangling, astray, misdirected>>
    BY <1>2 DEF ConsumeMessage, walkVars, sendVars
  <2>2. element'.source = t
    BY <1>2, ConsumeKeepsLog DEF ConsumeMessage
  <2>3. ConsumerTypeOK'
    BY <1>0, <2>1 DEF ConsumerTypeOK
  <2>4. ~dangling
    BY <2>1 DEF WalkInv, Walking
  <2> QED BY <2>1, <2>2, <2>3, <2>4 DEF WalkInv, Walking
<1>3. ASSUME NEW l \in SocketLists, NEW left \in 0 .. Len(socket_list[l]), WalkTo(l, left),
             consumer \in {"start", "walk"}, ~dangling', dangling' \in BOOLEAN,
             astray' \in BOOLEAN,
             astray' \/ l = element.source, UNCHANGED <<misdirected, process>>
      PROVE  WalkInv'
  <2>1. CASE /\ consumer' = "consume" /\ connection_socket' = NULL /\ copied_from' = NULL
             /\ UNCHANGED walker
    <3>1. ConsumerTypeOK'
      BY <1>0, <1>3, <2>1 DEF ConsumerTypeOK
    <3> QED BY <1>3, <2>1, <3>1 DEF WalkInv, Walking
  <2>2. CASE /\ left \in 1 .. Len(socket_list[l]) /\ consumer' = "send"
             /\ walker' = [list |-> l, left |-> left] /\ left \in Nat
             /\ copied_from' \in Connection
             /\ connection_socket' = socket[copied_from']
             /\ UNCHANGED element
    <3>1. connection_socket' \in Handle \cup {INVALID_SOCKET, NULL}
      BY <1>0, <2>2 DEF Sockets
    <3>2. ConsumerTypeOK'
      BY <1>0, <1>3, <2>2, <3>1 DEF ConsumerTypeOK
    <3>3. walker'.left \in 1 .. Len(socket_list'[walker'.list])
      BY <1>0, <2>2
    <3>4. ~astray' => walker'.list = element'.source
      BY <1>3, <2>2
    <3> QED BY <1>3, <2>2, <3>2, <3>3, <3>4 DEF WalkInv
  <2> QED BY <1>3, <2>1, <2>2, WalkToLeads
<1>4. CASE StartWalk /\ UNCHANGED <<sendVars, process>>
  <2>1. /\ consumer = "start" /\ WalkTo(element.source, Len(socket_list[element.source]))
        /\ UNCHANGED <<dangling, astray, misdirected>>
    BY <1>4 DEF StartWalk, sendVars
  <2>2. element.source \in SocketLists /\ ~dangling
    BY <2>1 DEF WalkInv, Walking
  <2>3. Len(socket_list[element.source]) \in 0 .. Len(socket_list[element.source])
    <3>1. Len(socket_list[element.source]) \in Nat
      BY <1>0, <2>2
    <3> QED BY <3>1
  <2> QED BY <1>0, <1>3, <1>4, <2>1, <2>2, <2>3 DEF ConsumerTypeOK
<1>5. CASE WalkOn /\ UNCHANGED sendVars
  <2>0. consumer = "walk" /\ element.source \in Topic /\ UNCHANGED misdirected /\ Walking
    BY <1>5 DEF WalkOn, WalkInv, sendVars, Walking
  <2>1. CASE ~dangling
    <3>1. WalkTo(walker.list, walker.left - 1) /\ UNCHANGED <<dangling, astray, process>>
      BY <1>5, <2>1 DEF WalkOn, walk_on
    <3>2. walker.list \in SocketLists /\ walker.left \in 1 .. Len(socket_list[walker.list])
          /\ (~astray => walker.list = element.source)
      BY <1>0, <2>0, <2>1 DEF WalkInv, ConsumerTypeOK
    <3>3. walker.left - 1 \in 0 .. Len(socket_list[walker.list])
      BY <3>2
    <3> QED BY <1>0, <1>3, <2>0, <2>1, <3>1, <3>2, <3>3 DEF ConsumerTypeOK
  <2>2. CASE dangling
    <3>1. /\ ~dangling' /\ astray' /\ dangling' \in BOOLEAN /\ astray' \in BOOLEAN
          /\ \/ process' = "crashed" /\ UNCHANGED <<consumerVars, walker>>
             \/ /\ \E l \in SocketLists : \E left \in 0 .. Len(socket_list[l]) : WalkTo(l, left)
                /\ UNCHANGED process
      BY <1>5, <2>2 DEF WalkOn
    <3>2. CASE process' = "crashed" /\ UNCHANGED <<consumerVars, walker>>
      <4>1. ConsumerTypeOK'
        BY <1>0, <2>0, <3>1, <3>2 DEF ConsumerTypeOK, consumerVars
      <4> QED BY <2>0, <3>1, <3>2, <4>1 DEF WalkInv, consumerVars
    <3> QED BY <1>3, <2>0, <3>1, <3>2
  <2> QED BY <1>0, <2>1, <2>2 DEF ConsumerTypeOK
<1>6. CASE send_to_client /\ UNCHANGED process
  <2>1. /\ consumer = "send" /\ UNCHANGED <<walker, dangling, astray>>
        /\ IF element.source = Main
             THEN consumer' = "consume" /\ connection_socket' = NULL /\ copied_from' = NULL
             ELSE consumer' = "walk" /\ UNCHANGED <<element, connection_socket, copied_from>>
        /\ misdirected' \in BOOLEAN
    BY <1>6 DEF send_to_client, walkVars
  <2>2. ConsumerTypeOK'
    BY <1>0, <2>1 DEF ConsumerTypeOK
  <2>3. CASE element.source = Main
    BY <2>1, <2>2, <2>3 DEF WalkInv, Walking
  <2>4. CASE element.source # Main
    <3>1. element.source \in Topic
      BY <2>1, <2>4 DEF LogInv, Element
    <3>2. Walking' = Walking
      BY <2>1, <2>4 DEF Walking
    <3> QED BY <1>0, <1>6, <2>1, <2>2, <2>4, <3>1, <3>2 DEF WalkInv
  <2> QED BY <2>3, <2>4
<1> QED BY <1>1, <1>2, <1>4, <1>5, <1>6 DEF ConsumerStep

LEMMA WalkInvStep ==
  MainInv /\ ListsInv /\ LogInv /\ WalkInv /\ [Next]_vars => WalkInv'
<1> SUFFICES ASSUME MainInv, ListsInv, LogInv, WalkInv, [Next]_vars PROVE WalkInv'
  OBVIOUS
<1>1. CASE UNCHANGED vars \/ ClientStep
  <2>1. UNCHANGED <<consumer, element, connection_socket, copied_from, walker, dangling,
                    astray, misdirected, process, socket_list>>
    BY <1>1 DEF vars, ClientStep, consumerVars, walkVars
  <2>2. /\ socket_list' \in [SocketLists -> Seq(Connection)]
        /\ \A l \in SocketLists : Len(socket_list'[l]) >= Len(socket_list[l])
    BY <2>1 DEF MainInv, MainTypeOK
  <2> QED BY <2>1, <2>2, WalkInvStands
<1>2. CASE MainStep
  BY <1>2, MainKeepsWalk
<1>3. CASE ConsumerStep /\ process = "running"
  BY <1>3, ConsumerKeepsWalk
<1> QED BY <1>1, <1>2, <1>3 DEF Next

-----------------------------------------------------------------------------
(* Nothing is received before it is forwarded, and what was received later *)
(* was forwarded later.                                                    *)
ReceivedInv ==
    /\ received \in [Connection -> Seq(Element)]
    /\ \A c \in Connection : \A k \in 1 .. Len(received[c]) : \A t \in Topic :
          received[c][k].source = t => received[c][k].message <= Len(forwarded[t])
    /\ MessagesInOrder

LEMMA ReceivedInvInit == Init => ReceivedInv
<1> SUFFICES ASSUME Init PROVE ReceivedInv
  OBVIOUS
<1>1. received = [c \in Connection |-> << >>]
  BY DEF Init
<1>2. \A c \in Connection : Len(received[c]) = 0
  BY <1>1
<1> QED BY <1>1, <1>2 DEF ReceivedInv, MessagesInOrder

(* The log of what was forwarded only grows.                               *)
LEMMA ForwardedGrows ==
  ASSUME MainInv, ListsInv, LogInv, [Next]_vars
  PROVE  /\ \A s \in Sources : Len(forwarded'[s]) \in Nat /\ Len(forwarded[s]) <= Len(forwarded'[s])
         /\ UNCHANGED received \/ (send_to_client /\ UNCHANGED forwarded)
<1>1. forwarded \in [Sources -> Seq(Nat \cup Response)]
  BY DEF LogInv
<1>2. CASE UNCHANGED <<forwarded, received>>
  BY <1>1, <1>2
<1>3. CASE \/ StartWalk /\ UNCHANGED <<sendVars, process>>
           \/ WalkOn /\ UNCHANGED sendVars
  BY <1>2, <1>3 DEF StartWalk, WalkOn, sendVars
<1>4. CASE MainStep
  BY <1>2, <1>4, MainOnLists
<1>5. ASSUME NEW s \in Sources, Log!Forward(s), UNCHANGED received
      PROVE  /\ \A u \in Sources : Len(forwarded'[u]) \in Nat
                                     /\ Len(forwarded[u]) <= Len(forwarded'[u])
             /\ UNCHANGED received
  <2>1. /\ forwarded' \in [Sources -> Seq(Nat \cup Response)]
        /\ \A u \in Sources : u # s => forwarded'[u] = forwarded[u]
        /\ Len(forwarded'[s]) = Len(forwarded[s]) + 1
    BY <1>5, ForwardsOne
  <2>2. ASSUME NEW u \in Sources
        PROVE  Len(forwarded'[u]) \in Nat /\ Len(forwarded[u]) <= Len(forwarded'[u])
    <3>1. Len(forwarded[u]) \in Nat /\ Len(forwarded'[u]) \in Nat
      BY <1>1, <2>1
    <3> QED BY <2>1, <3>1
  <2> QED BY <1>5, <2>2
<1>6. CASE ConsumeResponse /\ UNCHANGED <<sendVars, process>>
  BY <1>5, <1>6, ListsFacts DEF ConsumeResponse, sendVars
<1>7. ASSUME NEW t \in Topic, ConsumeMessage(t), UNCHANGED <<sendVars, process>>
      PROVE  /\ \A u \in Sources : Len(forwarded'[u]) \in Nat
                                     /\ Len(forwarded[u]) <= Len(forwarded'[u])
             /\ UNCHANGED received
  BY <1>5, <1>7, ListsFacts DEF ConsumeMessage, sendVars
<1>8. CASE send_to_client
  BY <1>1, <1>8 DEF send_to_client
<1>9. CASE ConsumerStep
  BY <1>3, <1>6, <1>7, <1>8, <1>9 DEF ConsumerStep
<1>10. CASE ClientStep
  BY <1>2, <1>10 DEF ClientStep
<1>11. CASE UNCHANGED vars
  BY <1>2, <1>11 DEF vars
<1> QED BY <1>4, <1>9, <1>10, <1>11 DEF Next

(* send_to_client() appends the message to what one client received.       *)
LEMMA SendKeepsReceived ==
  ASSUME LogInv, ReceivedInv, send_to_client, UNCHANGED forwarded
  PROVE  ReceivedInv'
<1>1. CASE UNCHANGED received
  BY <1>1 DEF ReceivedInv, MessagesInOrder
<1>2. CASE received' # received
  <2>1. received \in [Connection -> Seq(Element)]
    BY DEF ReceivedInv
  <2>2. Recipient \in Connection /\ received' = [received EXCEPT ![Recipient] = Append(@, element)]
    <3>1. received' = [received EXCEPT ![Recipient] = Append(@, element)]
      BY <1>2 DEF send_to_client
    <3>2. Recipient \in Connection
      BY <1>2, <2>1, <3>1
    <3> QED BY <3>1, <3>2
  <2>3. /\ element \in Element
        /\ \A t \in Topic : element.source = t => element.message = Len(forwarded[t])
    BY DEF LogInv, send_to_client
  <2> DEFINE r == Recipient
             n == Len(received[r])
  <2>4. r \in Connection /\ received[r] \in Seq(Element) /\ n \in Nat
    BY <2>1, <2>2
  <2>5. /\ received' \in [Connection -> Seq(Element)]
        /\ \A c \in Connection : c # r => received'[c] = received[c]
        /\ received'[r] = Append(received[r], element)
    BY <2>1, <2>2, <2>3
  <2>6. /\ Len(received'[r]) = n + 1
        /\ \A k \in 1 .. n + 1 : received'[r][k] = IF k <= n THEN received[r][k] ELSE element
    BY <2>3, <2>4, <2>5
  <2> HIDE DEF r, n
  <2>7. \A k \in 1 .. n + 1 : k <= n => k \in 1 .. n
    BY <2>4
  <2>8. ASSUME NEW c \in Connection, NEW k \in 1 .. Len(received'[c]), NEW t \in Topic,
               received'[c][k].source = t
        PROVE  received'[c][k].message <= Len(forwarded'[t])
    <3>1. CASE c # r
      BY <2>5, <2>8, <3>1 DEF ReceivedInv
    <3>2. CASE c = r /\ k <= n
      BY <2>4, <2>6, <2>7, <2>8, <3>2 DEF ReceivedInv, n
    <3>3. CASE c = r /\ ~(k <= n)
      <4>1. received'[c][k] = element
        BY <2>6, <2>8, <3>3
      <4>2. t \in Sources /\ Len(forwarded[t]) \in Nat
        BY ListsFacts DEF LogInv
      <4> QED BY <2>3, <2>8, <4>1, <4>2
    <3> QED BY <3>1, <3>2, <3>3
  <2>9. ASSUME NEW c \in Connection, NEW t \in Topic,
               NEW j \in 1 .. Len(received'[c]), NEW k \in 1 .. Len(received'[c]),
               j < k, received'[c][j].source = t, received'[c][k].source = t
        PROVE  received'[c][j].message <= received'[c][k].message
    <3>1. CASE c # r
      BY <2>5, <2>9, <3>1 DEF ReceivedInv, MessagesInOrder
    <3>2. CASE c = r
      <4>1. j \in 1 .. n /\ k \in 1 .. n + 1
        BY <2>4, <2>6, <2>9, <3>2
      <4>2. received'[c][j] = received[r][j]
        BY <2>4, <2>6, <3>2, <4>1
      <4>3. CASE k <= n
        BY <2>4, <2>6, <2>7, <2>9, <3>2, <4>1, <4>2, <4>3 DEF ReceivedInv, MessagesInOrder, n
      <4>4. CASE ~(k <= n)
        <5>1. received'[c][k] = element
          BY <2>6, <3>2, <4>1, <4>4
        <5>2. received[r][j].message <= Len(forwarded[t])
          BY <2>4, <2>9, <4>1, <4>2 DEF ReceivedInv, n
        <5> QED BY <2>3, <2>9, <4>2, <5>1, <5>2
      <4> QED BY <4>3, <4>4
    <3> QED BY <3>1, <3>2
  <2> QED BY <2>5, <2>8, <2>9 DEF ReceivedInv, MessagesInOrder
<1> QED BY <1>1, <1>2

LEMMA ReceivedInvStep ==
  MainInv /\ ListsInv /\ LogInv /\ ReceivedInv /\ [Next]_vars => ReceivedInv'
<1> SUFFICES ASSUME MainInv, ListsInv, LogInv, ReceivedInv, [Next]_vars PROVE ReceivedInv'
  OBVIOUS
<1>0. \A s \in Sources : Len(forwarded[s]) \in Nat /\ Len(forwarded'[s]) \in Nat
                           /\ Len(forwarded[s]) <= Len(forwarded'[s])
  BY ForwardedGrows DEF LogInv
<1>1. CASE UNCHANGED received
  <2>1. ASSUME NEW c \in Connection, NEW k \in 1 .. Len(received[c]), NEW t \in Topic,
               received[c][k].source = t
        PROVE  received[c][k].message <= Len(forwarded'[t])
    <3>1. received[c][k].message <= Len(forwarded[t])
      BY <2>1 DEF ReceivedInv
    <3>2. t \in Sources /\ Len(forwarded[t]) \in Nat /\ Len(forwarded'[t]) \in Nat
          /\ Len(forwarded[t]) <= Len(forwarded'[t])
      BY <1>0, ListsFacts
    <3>3. received[c][k].message \in Nat
      BY <2>1, ListsFacts DEF ReceivedInv, Element
    <3> QED BY <3>1, <3>2, <3>3
  <2> QED BY <1>1, <2>1 DEF ReceivedInv, MessagesInOrder
<1>2. CASE send_to_client /\ UNCHANGED forwarded
  BY <1>2, SendKeepsReceived
<1> QED BY <1>1, <1>2, ForwardedGrows

-----------------------------------------------------------------------------
(* A message owed to a subscriber is still to be forwarded or on its way:  *)
(* the walk has not begun, or is about to send it to this subscriber, or   *)
(* has a node of this subscriber before it, or is about to go astray.      *)
Owed == [connection : Connection, topic : Topic, message : Nat]

StillToVisit(c, t) ==
    \E k \in 1 .. Len(socket_list[t]) :
        socket_list[t][k] = c /\ Len(socket_list[t]) - k + 1 < walker.left

OnItsWay(o) ==
    /\ Sending(o.topic, o.message)
    /\ \/ consumer = "start"
       \/ dangling
       \/ /\ consumer = "send" /\ copied_from = o.connection
          /\ connection_socket = socket[o.connection]
       \/ StillToVisit(o.connection, o.topic)

OwedStands(o) ==
    /\ client[o.connection] = "open"
    /\ o.connection \in ToSet(socket_list[o.topic])
    /\ ~astray => o.message > Len(forwarded[o.topic]) \/ OnItsWay(o)

OwedInv == owed \subseteq Owed /\ \A o \in owed : OwedStands(o)

LEMMA OwedFacts ==
  ASSUME MainInv, ListsInv, OwedInv, NEW o \in owed
  PROVE  /\ o \in Owed /\ o.connection \in Connection /\ o.topic \in Topic
         /\ o.topic \in SocketLists /\ o.topic \in Sources /\ o.topic # Main
         /\ o.message \in Nat
         /\ OwedStands(o)
         /\ socket[o.connection] \in Handle
<1>1. /\ o \in Owed /\ o.connection \in Connection /\ o.topic \in Topic /\ o.message \in Nat
      /\ o.topic \in SocketLists /\ o.topic \in Sources /\ o.topic # Main
      /\ OwedStands(o)
  BY ListsFacts DEF OwedInv, Owed
<1>2. socket[o.connection] # INVALID_SOCKET
  BY <1>1 DEF ListsInv, OwedStands
<1>3. PICK k \in 1 .. Len(socket_list[o.topic]) : socket_list[o.topic][k] = o.connection
  <2>1. o.connection \in ToSet(socket_list[o.topic])
    BY <1>1 DEF OwedStands
  <2>2. socket_list[o.topic] \in Seq(Connection)
    BY <1>1 DEF MainInv, MainTypeOK
  <2> QED BY ONLY <2>1, <2>2, ElementIsSomewhere
<1>4. socket[o.connection] # NULL
  BY <1>1, <1>3 DEF ListsInv
<1>5. socket[o.connection] \in Handle
  BY <1>1, <1>2, <1>4 DEF MainInv, MainTypeOK
<1> QED BY <1>1, <1>5

(* Nothing that bears on an entry changes.                                 *)
LEMMA OwedStandsUnchanged ==
  ASSUME NEW o, OwedStands(o),
         UNCHANGED <<forwarded, consumer, element, connection_socket, copied_from, walkVars>>,
         client'[o.connection] = client[o.connection], socket'[o.connection] = socket[o.connection],
         socket_list'[o.topic] = socket_list[o.topic]
  PROVE  OwedStands(o)'
<1>1. StillToVisit(o.connection, o.topic)' <=> StillToVisit(o.connection, o.topic)
  BY DEF StillToVisit, walkVars
<1>2. OnItsWay(o)' <=> OnItsWay(o)
  BY <1>1 DEF OnItsWay, Sending, walkVars
<1> QED BY <1>2 DEF OwedStands, walkVars

LEMMA AddToStartKeepsOwed ==
  ASSUME MainInv, ListsInv, OwedInv, NEW o \in owed,
         UNCHANGED <<forwarded, consumer, element, connection_socket, copied_from, walkVars>>,
         client'[o.connection] = client[o.connection], socket'[o.connection] = socket[o.connection],
         NEW l \in SocketLists, NEW c \in Connection, add_to_start(l, c)
  PROVE  OwedStands(o)'
<1> DEFINE q == socket_list[o.topic]
           r == socket_list'[o.topic]
<1>1. /\ o.topic \in SocketLists /\ OwedStands(o)
      /\ socket_list \in [SocketLists -> Seq(Connection)]
  BY OwedFacts DEF MainInv, MainTypeOK
<1>2. q \in Seq(Connection) /\ Len(q) \in Nat
  BY <1>1
<1>2a. o.connection \in ToSet(q)
  BY <1>1 DEF OwedStands
<1>3. r = IF o.topic = l THEN Cons(c, q) ELSE q
  BY <1>1 DEF add_to_start
<1> HIDE DEF q, r
<1>4. /\ Len(Cons(c, q)) = Len(q) + 1
      /\ \A j \in 1 .. Len(q) + 1 : Cons(c, q)[j] = IF j = 1 THEN c ELSE q[j - 1]
  BY ONLY c \in Connection, <1>2, ConsConnection
<1>5. CASE o.topic # l
  BY <1>1, <1>3, <1>5, OwedStandsUnchanged DEF q, r
<1>6. CASE o.topic = l
  <2>1. ASSUME NEW k \in 1 .. Len(q)
        PROVE  k + 1 \in 1 .. Len(r) /\ r[k + 1] = q[k] /\ Len(r) - (k + 1) + 1 = Len(q) - k + 1
    <3>1. k + 1 \in 1 .. Len(q) + 1 /\ k + 1 # 1 /\ (k + 1) - 1 = k
      BY <1>2
    <3>2. Len(r) = Len(q) + 1 /\ r[k + 1] = q[(k + 1) - 1]
      BY <1>3, <1>4, <1>6, <3>1
    <3> QED BY <1>2, <3>1, <3>2
  <2>2. o.connection \in ToSet(r)
    <3>1. PICK k \in 1 .. Len(q) : q[k] = o.connection
      BY <1>2, <1>2a DEF ToSet
    <3> QED BY <2>1, <3>1 DEF ToSet
  <2>3. StillToVisit(o.connection, o.topic) => StillToVisit(o.connection, o.topic)'
    <3>1. SUFFICES ASSUME NEW k \in 1 .. Len(q), q[k] = o.connection,
                          Len(q) - k + 1 < walker.left
                   PROVE  \E j \in 1 .. Len(r) : r[j] = o.connection /\ Len(r) - j + 1 < walker.left
      BY DEF StillToVisit, q, r, walkVars
    <3> QED BY <2>1, <3>1
  <2>4. OnItsWay(o) => OnItsWay(o)'
    BY <2>3 DEF OnItsWay, Sending, walkVars
  <2> QED BY <1>1, <2>2, <2>4 DEF OwedStands, walkVars, r
<1> QED BY <1>5, <1>6

(* If a node goes that is not the subscriber's last one, the subscriber's  *)
(* other nodes and the walker keep their order.                            *)
LEMMA FreeNodeKeepsOwed ==
  ASSUME MainInv, ListsInv, WalkInv, OwedInv, process = "running", NEW o \in owed,
         UNCHANGED <<forwarded, consumer, element, connection_socket, copied_from>>,
         client'[o.connection] = client[o.connection], socket'[o.connection] = socket[o.connection],
         NEW l \in SocketLists, NEW c \in Connection, free_node(l, c),
         ~(l = o.topic /\ c = o.connection /\ Occurrences(c, l) = 1)
  PROVE  OwedStands(o)'
<1> DEFINE q == socket_list[o.topic]
           r == socket_list'[o.topic]
           p == FirstAt(q, c)
           n == Len(q)
           f == n - p + 1
<1>1. /\ o.topic \in SocketLists /\ o.topic # Main /\ OwedStands(o) /\ o.connection \in Connection
      /\ socket_list \in [SocketLists -> Seq(Connection)]
  BY OwedFacts DEF MainInv, MainTypeOK
<1>2. q \in Seq(Connection) /\ n \in Nat /\ o.connection \in ToSet(q)
  BY <1>1 DEF OwedStands
<1>3. CASE c \notin ToSet(socket_list[l])
  <2>1. UNCHANGED <<socket_list, walkVars>>
    BY <1>3, FreeNodeFindsNone
  <2> QED BY <1>1, <2>1, OwedStandsUnchanged
<1>4. CASE c \in ToSet(socket_list[l]) /\ l # o.topic
  <2>1. r = q
    BY <1>1, <1>4, FreeNodeKeepsMembers
  <2>2. /\ dangling' = (dangling \/ (WalkerIsIn(l) /\ walker.left = FreedFromEnd(l, c)))
        /\ ~WalkerIsIn(l) => walker' = walker
        /\ UNCHANGED astray
    BY <1>4, FreeNodeTakesFirst
  <2>3. ASSUME ~astray, OnItsWay(o) PROVE OnItsWay(o)'
    <3>1. CASE dangling \/ consumer = "start"
      BY <2>2, <2>3, <3>1 DEF OnItsWay, Sending
    <3>2. CASE ~dangling /\ consumer # "start"
      <4>1. element.source = o.topic /\ consumer \in {"send", "walk"}
        BY <2>3, <3>2 DEF OnItsWay, Sending, WalkInv, ConsumerTypeOK
      <4>2. walker.list = o.topic
        BY <1>1, <2>3, <4>1 DEF WalkInv, Walking
      <4>3. walker' = walker
        BY <1>4, <2>2, <4>2 DEF WalkerIsIn
      <4>4. StillToVisit(o.connection, o.topic)' <=> StillToVisit(o.connection, o.topic)
        BY <2>1, <4>3 DEF StillToVisit
      <4> QED BY <2>2, <2>3, <4>4 DEF OnItsWay, Sending
    <3> QED BY <3>1, <3>2
  <2> QED BY <1>1, <2>1, <2>2, <2>3 DEF OwedStands
<1>5. CASE c \in ToSet(q) /\ l = o.topic
  <2>1. /\ dangling' = (dangling \/ (WalkerIsIn(l) /\ walker.left = f))
        /\ walker' = IF WalkerIsIn(l) /\ ~dangling /\ f < walker.left
                        THEN [walker EXCEPT !.left = @ - 1] ELSE walker
        /\ UNCHANGED astray
        /\ r = RemoveFirst(q, c)
    <3>1. c \in ToSet(socket_list[l]) /\ FreedFromEnd(l, c) = f
      BY <1>5 DEF FreedFromEnd
    <3>2. r = RemoveFirst(q, c)
      BY <1>1, <1>5, FreeNodeKeepsMembers
    <3> HIDE DEF r, q, p, n, f
    <3> QED BY <3>1, <3>2, FreeNodeTakesFirst
  <2>2. /\ Len(r) = n - 1
        /\ \A j \in 1 .. n - 1 : r[j] = IF j < p THEN q[j] ELSE q[j + 1]
    <3> HIDE DEF p, r
    <3> QED BY ONLY <1>2, <1>5, <2>1, RemoveFirstElements DEF p
  <2>3. /\ p \in 1 .. n /\ q[p] = c /\ \A j \in 1 .. n : q[j] = c => p <= j
    BY <1>2, <1>5, FirstIsNearest
  <2>4. ASSUME c = o.connection PROVE \E k \in 1 .. n : k # p /\ q[k] = c
    <3>1. Cardinality(Places(q, c)) # 1
      BY <1>5, <2>4 DEF Occurrences, Places
    <3>2. Places(q, c) # {p}
      BY <3>1, FS_Singleton
    <3>3. p \in Places(q, c)
      BY <2>3 DEF Places
    <3>4. PICK k \in Places(q, c) : k # p
      BY <3>2, <3>3
    <3> QED BY <3>4 DEF Places
  <2>5. walker \in [list : SocketLists, left : Nat] /\ dangling \in BOOLEAN
    BY DEF WalkInv, ConsumerTypeOK
  <2>6. n \in Nat /\ f = n - p + 1 /\ p \in Nat /\ f \in Nat
    BY <1>2, <2>3
  <2> HIDE DEF q, r, p, n, f
  <2>7. \A k \in 1 .. n : k # p =>
           LET j == IF k < p THEN k ELSE k - 1
           IN  /\ j \in 1 .. Len(r) /\ r[j] = q[k]
               /\ Len(r) - j + 1 = IF k < p THEN (n - k + 1) - 1 ELSE n - k + 1
    <3> TAKE k \in 1 .. n
    <3> HAVE k # p
    <3>1. CASE k < p
      BY <2>2, <2>3, <2>6, <3>1
    <3>2. CASE ~(k < p)
      <4>1. k - 1 \in 1 .. n - 1 /\ ~(k - 1 < p) /\ (k - 1) + 1 = k
        BY <2>3, <2>6, <3>2
      <4>2. r[k - 1] = q[k]
        BY <2>2, <4>1
      <4>3. Len(r) - (k - 1) + 1 = n - k + 1
        BY <2>2, <2>6
      <4> QED BY <2>2, <3>2, <4>1, <4>2, <4>3
    <3> QED BY <3>1, <3>2
  <2>8. o.connection \in ToSet(r)
    <3>1. PICK k \in 1 .. n : k # p /\ q[k] = o.connection
      <4>1. CASE c = o.connection
        BY <2>4, <4>1
      <4>2. CASE c # o.connection
        <5>1. PICK k \in 1 .. n : q[k] = o.connection
          BY <1>2 DEF ToSet, n
        <5> QED BY <2>3, <4>2, <5>1
      <4> QED BY <4>1, <4>2
    <3>2. PICK j \in 1 .. Len(r) : r[j] = q[k]
      BY <2>7, <3>1
    <3> QED BY <3>1, <3>2 DEF ToSet
  <2>9. ASSUME ~astray, OnItsWay(o) PROVE OnItsWay(o)'
    <3>1. CASE dangling' \/ consumer = "start" \/ (consumer = "send" /\ copied_from = o.connection
                                              /\ connection_socket = socket[o.connection])
      BY <2>9, <3>1 DEF OnItsWay, Sending
    <3>2. CASE ~dangling' /\ consumer # "start" /\ StillToVisit(o.connection, o.topic)
      <4>1. element.source = o.topic /\ consumer \in {"send", "walk"} /\ ~dangling
        BY <2>1, <2>9, <3>2 DEF OnItsWay, Sending, WalkInv, ConsumerTypeOK
      <4>2. WalkerIsIn(l)
        BY <1>1, <1>5, <2>9, <4>1 DEF WalkInv, Walking, WalkerIsIn
      <4>3. walker.left # f
        BY <2>1, <3>2, <4>2
      <4>4. PICK k \in 1 .. n : k # p /\ q[k] = o.connection /\ n - k + 1 < walker.left
        <5>1. PICK k \in 1 .. n : q[k] = o.connection /\ n - k + 1 < walker.left
          BY <3>2 DEF StillToVisit, q, n
        <5>2. CASE k # p
          BY <5>1, <5>2
        <5>3. CASE k = p
          <6>1. c = o.connection
            BY <2>3, <5>1, <5>3
          <6>2. PICK m \in 1 .. n : m # p /\ q[m] = c
            BY <2>4, <6>1
          <6>3. p <= m
            BY <2>3, <6>2
          <6>4. n - m + 1 < walker.left
            BY <2>5, <2>6, <5>1, <5>3, <6>2, <6>3
          <6> QED BY <6>1, <6>2, <6>4
        <5> QED BY <5>2, <5>3
      <4> DEFINE j == IF k < p THEN k ELSE k - 1
      <4>5. /\ j \in 1 .. Len(r) /\ r[j] = o.connection
            /\ Len(r) - j + 1 = IF k < p THEN (n - k + 1) - 1 ELSE n - k + 1
        BY <2>7, <4>4
      <4> HIDE DEF j
      <4>6. walker'.left = IF f < walker.left THEN walker.left - 1 ELSE walker.left
        BY <2>1, <2>5, <4>1, <4>2
      <4>7. Len(r) - j + 1 < walker'.left
        <5>1. CASE k < p
          BY <2>5, <2>6, <4>4, <4>5, <4>6, <5>1
        <5>2. CASE ~(k < p)
          <6>1. n - k + 1 < f
            BY <2>6, <4>4, <5>2
          <6> QED BY <2>5, <2>6, <4>4, <4>5, <4>6, <5>2, <6>1
        <5> QED BY <5>1, <5>2
      <4>8. StillToVisit(o.connection, o.topic)'
        BY <4>5, <4>7 DEF StillToVisit, r
      <4> QED BY <2>9, <4>8 DEF OnItsWay, Sending
    <3> QED BY <2>1, <2>9, <3>1, <3>2 DEF OnItsWay
  <2> QED BY <1>1, <2>1, <2>8, <2>9 DEF OwedStands, r
<1> QED BY <1>3, <1>4, <1>5

LEMMA AcceptKeepsOwed ==
  ASSUME MainInv, ListsInv, OwedInv, accept_connection
  PROVE  OwedInv'
<1> USE BrokerAssumption
<1>1. UNCHANGED <<forwarded, client, consumer, element, connection_socket, copied_from, walkVars,
                  owed>>
  BY DEF accept_connection, clientVars, consumerVars, sendVars
<1>2. socket \in Sockets
  BY DEF MainInv, MainTypeOK, Sockets
<1>3. ASSUME NEW o \in owed PROVE OwedStands(o)'
  <2>1. OwedStands(o) /\ o.connection \in Connection /\ socket[o.connection] \in Handle
    BY OwedFacts
  <2>2. CASE UNCHANGED <<peer, socket, socket_list>>
    BY <1>1, <2>1, <2>2, OwedStandsUnchanged
  <2>3. ASSUME NEW c \in Connection, NEW h \in Handle, socket[c] = NULL,
               socket' = [socket EXCEPT ![c] = h],
               add_to_start(connection_sockets, c) \/ UNCHANGED socket_list
        PROVE  OwedStands(o)'
    <3>1. socket'[o.connection] = socket[o.connection]
      BY <1>2, <2>1, <2>3 DEF Sockets
    <3>2. CASE UNCHANGED socket_list
      BY <1>1, <2>1, <3>1, <3>2, OwedStandsUnchanged
    <3>3. CASE add_to_start(connection_sockets, c)
      <4>1. connection_sockets \in SocketLists /\ client'[o.connection] = client[o.connection]
        BY <1>1, ListsFacts
      <4> QED BY <1>1, <2>3, <3>1, <3>3, <4>1, AddToStartKeepsOwed
    <3> QED BY <2>3, <3>2, <3>3
  <2> QED BY <2>2, <2>3 DEF accept_connection
<1> QED BY <1>1, <1>3 DEF OwedInv

LEMMA ReceiveKeepsOwed ==
  ASSUME MainInv, ListsInv, WalkInv, OwedInv, process = "running", receive_commands
  PROVE  OwedInv'
<1> USE BrokerAssumption
<1> DEFINE c == Head(to_visit)
<1>1. /\ c \in Connection
      /\ NothingReceived(c) \/ Received(c) \/ ConnectionClosed(c)
      /\ UNCHANGED <<client, forwarded, consumer, element, connection_socket, copied_from, owed>>
  BY DEF receive_commands, MainInv, MainTypeOK, consumerVars, sendVars
<1>2. socket \in Sockets
  BY DEF MainInv, MainTypeOK, Sockets
<1> HIDE DEF c
<1>3. ASSUME NEW o \in owed PROVE OwedStands(o)'
  <2>1. /\ OwedStands(o) /\ o.connection \in Connection /\ o.topic \in Topic
        /\ client[o.connection] = "open"
    BY OwedFacts DEF OwedStands
  <2>2. CASE NothingReceived(c) \/ Received(c)
    <3>1. UNCHANGED <<socket, socket_list, walkVars>>
      BY <2>2 DEF NothingReceived, Received
    <3> QED BY <1>1, <2>1, <3>1, OwedStandsUnchanged
  <2>3. CASE ConnectionClosed(c)
    <3>1. /\ client[c] = "closed" /\ socket' = [socket EXCEPT ![c] = INVALID_SOCKET]
          /\ free_node(connection_sockets, c)
      BY <2>3 DEF ConnectionClosed, mark_closed
    <3>2. socket'[o.connection] = socket[o.connection]
      BY <1>2, <2>1, <3>1 DEF Sockets
    <3>3. connection_sockets \in SocketLists /\ connection_sockets # o.topic
          /\ client'[o.connection] = client[o.connection]
      BY <1>1, <2>1, ListsFacts
    <3>4. ~(connection_sockets = o.topic /\ c = o.connection
              /\ Occurrences(c, connection_sockets) = 1)
      BY <3>3
    <3>5. UNCHANGED <<forwarded, consumer, element, connection_socket, copied_from>>
      BY <1>1
    <3> QED BY <1>1, <3>1, <3>2, <3>3, <3>4, <3>5, FreeNodeKeepsOwed
  <2> QED BY <1>1, <2>2, <2>3
<1> QED BY <1>1, <1>3 DEF OwedInv

LEMMA RemoveKeepsOwed ==
  ASSUME MainInv, ListsInv, WalkInv, OwedInv, process = "running", RemoveSubscription
  PROVE  OwedInv'
<1> USE BrokerAssumption
<1>1. /\ UNCHANGED <<client, socket, forwarded, consumer, element, connection_socket, copied_from, owed>>
      /\ i \in SocketLists /\ closing \in Connection /\ socket[closing] = INVALID_SOCKET
      /\ free_node(i, closing)
  BY ListsFacts DEF RemoveSubscription, MainInv, MainTypeOK, MainIsWhere, clientVars, consumerVars,
                    sendVars
<1>2. ASSUME NEW o \in owed PROVE OwedStands(o)'
  <2>1. closing # o.connection
    BY <1>1, OwedFacts
  <2>2. client'[o.connection] = client[o.connection] /\ socket'[o.connection] = socket[o.connection]
    BY <1>1
  <2> QED BY <1>1, <2>1, <2>2, FreeNodeKeepsOwed
<1> QED BY <1>1, <1>2 DEF OwedInv

LEMMA ExecuteKeepsOwed ==
  ASSUME MainInv, ListsInv, LogInv, WalkInv, OwedInv, process = "running", execute_command
  PROVE  OwedInv'
<1> USE BrokerAssumption
<1>1. PICK c \in Connection, command \in Command : Executed(c, command)
  BY ExecuteExecutes
<1>2. UNCHANGED <<client, socket, consumer, element, connection_socket, copied_from>>
  BY ExecuteExecutes
<1>3. UNCHANGED forwarded
  BY <1>1, ExecutedOnLog
<1>4. ASSUME UNCHANGED <<socket_list, walkVars>>, NEW o \in owed PROVE OwedStands(o)'
  <2>1. OwedStands(o)
    BY <1>4 DEF OwedInv
  <2> QED BY <1>2, <1>3, <1>4, <2>1, OwedStandsUnchanged
<1> DEFINE t == command.topic
<1>5. CASE query(c, command) \/ query_fails(command)
  BY <1>4, <1>5 DEF query, query_fails, OwedInv
<1>6. CASE publish(c, command)
  <2>1. UNCHANGED <<socket_list, walkVars>>
    BY <1>6 DEF publish
  <2>2. CASE t \notin Topic
    BY <1>4, <1>6, <2>1, <2>2 DEF publish, OwedInv
  <2>3. CASE t \in Topic
    <3> DEFINE n == Len(accepted[t]) + 1
    <3>1. owed' = owed \cup {[connection |-> s, topic |-> t, message |-> n] :
                    s \in {s \in ToSet(socket_list[t]) : client[s] = "open"}}
      BY <1>6, <2>3 DEF publish
    <3>2. /\ Len(forwarded[t]) \in Nat /\ Len(forwarded[t]) < n /\ n \in Nat
      <4>1. t \in Sources
        BY <2>3, ListsFacts
      <4>2. Len(accepted[t]) \in Nat /\ Len(forwarded[t]) \in Nat
            /\ Len(forwarded[t]) <= Len(accepted[t])
        BY <4>1 DEF LogInv, MainInv, MainTypeOK
      <4> QED BY <4>2
    <3>3. socket_list[t] \in Seq(Connection)
      BY <2>3, ListsFacts DEF MainInv, MainTypeOK
    <3>4. ToSet(socket_list[t]) \subseteq Connection
      BY <3>3 DEF ToSet
    <3> HIDE DEF n, t
    <3>5. ASSUME NEW o \in owed', o \notin owed PROVE o \in Owed /\ OwedStands(o)'
      <4>1. PICK s \in ToSet(socket_list[t]) :
              client[s] = "open" /\ o = [connection |-> s, topic |-> t, message |-> n]
        BY <3>1, <3>5
      <4>2. o.connection = s /\ o.topic = t /\ o.message = n
        BY <4>1
      <4>3. client'[s] = "open" /\ s \in ToSet(socket_list'[t]) /\ n > Len(forwarded'[t])
        BY <1>2, <1>3, <2>1, <3>2, <4>1
      <4>4. o \in Owed
        BY <2>3, <3>2, <3>4, <4>1 DEF Owed, t
      <4> QED BY <4>2, <4>3, <4>4 DEF OwedStands
    <3>6. \A o \in owed' : o \in Owed /\ OwedStands(o)'
      BY <1>4, <2>1, <3>5 DEF OwedInv
    <3> QED BY <3>6 DEF OwedInv
  <2> QED BY <2>2, <2>3
<1>7. CASE subscribe(c, command)
  <2>1. UNCHANGED walkVars /\ UNCHANGED owed
    BY <1>7 DEF subscribe
  <2>2. CASE UNCHANGED socket_list
    BY <1>4, <2>1, <2>2 DEF OwedInv
  <2>3. CASE ~UNCHANGED socket_list
    <3>1. t \in SocketLists /\ add_to_start(t, c)
      BY <1>7, <2>3, ListsFacts DEF subscribe
    <3> HIDE DEF t
    <3>2. ASSUME NEW o \in owed PROVE OwedStands(o)'
      <4>1. client'[o.connection] = client[o.connection] /\ socket'[o.connection] = socket[o.connection]
        BY <1>2
      <4> QED BY <1>2, <1>3, <2>1, <3>1, <4>1, AddToStartKeepsOwed
    <3> QED BY <2>1, <3>2 DEF OwedInv
  <2> QED BY <2>2, <2>3
<1>8. CASE unsubscribe(c, command)
  <2>1. CASE ~(t \in Topic /\ c \in ToSet(socket_list[t]))
    BY <1>4, <1>8, <2>1 DEF unsubscribe, OwedInv
  <2>2. CASE t \in Topic /\ c \in ToSet(socket_list[t])
    <3>1. /\ t \in SocketLists /\ free_node(t, c)
          /\ owed' = IF Occurrences(c, t) = 1
                       THEN {o \in owed : o.connection # c \/ o.topic # t} ELSE owed
      BY <1>8, <2>2, ListsFacts DEF unsubscribe
    <3> HIDE DEF t
    <3>2. ASSUME NEW o \in owed, o \in owed' PROVE OwedStands(o)'
      <4>1. client'[o.connection] = client[o.connection] /\ socket'[o.connection] = socket[o.connection]
        BY <1>2
      <4>2. ~(t = o.topic /\ c = o.connection /\ Occurrences(c, t) = 1)
        BY <3>1, <3>2
      <4> QED BY <1>2, <1>3, <3>1, <4>1, <4>2, FreeNodeKeepsOwed
    <3>3. owed' \subseteq owed
      BY <3>1
    <3> QED BY <3>2, <3>3 DEF OwedInv
  <2> QED BY <2>1, <2>2
<1> QED BY <1>1, <1>5, <1>6, <1>7, <1>8 DEF Executed

LEMMA ClientKeepsOwed ==
  ASSUME MainInv, ListsInv, OwedInv, ClientStep
  PROVE  OwedInv'
<1>1. PICK c \in Connection : Connect(c) \/ SendCommand(c) \/ Leave(c)
  BY DEF ClientStep
<1>2. UNCHANGED <<forwarded, consumer, element, connection_socket, copied_from, walkVars, socket,
                  socket_list>>
  BY DEF ClientStep, consumerVars
<1>3. owed' \subseteq owed
  BY <1>1 DEF Connect, SendCommand, Leave
<1>4. ASSUME NEW o \in owed, o \in owed' PROVE client'[o.connection] = client[o.connection]
  <2>1. client \in [Connection -> Client] /\ o.connection \in Connection
        /\ client[o.connection] = "open"
    BY <1>4, OwedFacts DEF ListsInv, ControlTypeOK, OwedStands
  <2>2. CASE Connect(c)
    BY <2>1, <2>2 DEF Connect
  <2>3. CASE SendCommand(c)
    BY <2>3 DEF SendCommand
  <2>4. CASE Leave(c)
    <3>1. o.connection # c
      BY <1>4, <2>4 DEF Leave
    <3> QED BY <2>1, <2>4, <3>1 DEF Leave
  <2> QED BY <1>1, <2>2, <2>3, <2>4
<1>5. ASSUME NEW o \in owed, o \in owed' PROVE OwedStands(o)'
  <2>1. OwedStands(o) /\ client'[o.connection] = client[o.connection]
    BY <1>4, <1>5 DEF OwedInv
  <2> QED BY <1>2, <2>1, OwedStandsUnchanged
<1> QED BY <1>3, <1>5 DEF OwedInv

(* A move of the walker finds the subscriber's next node, or leaves it     *)
(* before the walker.                                                      *)
LEMMA WalkToKeepsOwed ==
  ASSUME MainInv, UNCHANGED <<socket, socket_list>>, NEW o, o.topic \in SocketLists,
         Sending(o.topic, o.message), NEW left \in 0 .. Len(socket_list[o.topic]),
         WalkTo(o.topic, left),
         \E k \in 1 .. Len(socket_list[o.topic]) :
            /\ socket_list[o.topic][k] = o.connection
            /\ Len(socket_list[o.topic]) - k + 1 <= left
  PROVE  OnItsWay(o)'
<1> DEFINE q == socket_list[o.topic]
           n == Len(q)
<1>1. PICK k \in 1 .. n : q[k] = o.connection /\ n - k + 1 <= left
  OBVIOUS
<1>2. n \in Nat /\ left \in Nat
  BY DEF MainInv, MainTypeOK
<1>3. left # 0
  BY <1>1, <1>2
<1>4. /\ consumer' = "send" /\ walker' = [list |-> o.topic, left |-> left]
      /\ copied_from' = q[n - left + 1] /\ connection_socket' = socket[copied_from']
      /\ UNCHANGED element
  BY <1>3, WalkToLeads
<1>5. Sending(o.topic, o.message)'
  BY <1>4 DEF Sending
<1>6. CASE n - k + 1 = left
  <2>1. n - left + 1 = k
    BY <1>1, <1>2, <1>6
  <2>2. copied_from' = o.connection /\ connection_socket' = socket'[o.connection]
    <3>1. copied_from' = q[k] /\ q[k] = o.connection
      BY <1>1, <1>4, <2>1
    <3> QED BY <1>4, <3>1
  <2> QED BY <1>4, <1>5, <2>2 DEF OnItsWay
<1>7. CASE n - k + 1 # left
  <2>1. n - k + 1 < left /\ walker'.left = left
    <3>1. walker'.left = left
      BY <1>4
    <3>2. k \in 1 .. n /\ n - k + 1 <= left
      BY <1>1
    <3> HIDE DEF n
    <3>3. n - k + 1 < left
      BY ONLY <1>2, <1>7, <3>2
    <3> QED BY <3>1, <3>3
  <2>2. socket_list'[o.topic] = q
    OBVIOUS
  <2>3. \E j \in 1 .. Len(q) : q[j] = o.connection /\ Len(q) - j + 1 < walker'.left
    BY <1>1, <2>1
  <2>4. StillToVisit(o.connection, o.topic)'
    BY <2>2, <2>3 DEF StillToVisit
  <2> QED BY <1>5, <2>4 DEF OnItsWay
<1> QED BY <1>6, <1>7

LEMMA ConsumeKeepsOwed ==
  ASSUME MainInv, ListsInv, LogInv, OwedInv, NEW s \in Sources, Log!Forward(s), TakenFrom(s),
         consumer = "consume", consumer' = IF s = Main THEN "send" ELSE "start",
         UNCHANGED <<client, socket, socket_list, walkVars, owed>>
  PROVE  OwedInv'
<1>1. ASSUME NEW o \in owed PROVE OwedStands(o)'
  <2>1. /\ OwedStands(o) /\ o.topic \in Topic /\ o.topic \in Sources /\ o.message \in Nat
        /\ o.topic # Main
    BY OwedFacts
  <2>2. ~astray => o.message > Len(forwarded[o.topic])
    BY <2>1 DEF OwedStands, OnItsWay, Sending
  <2>3. /\ \A u \in Sources : u # s => forwarded'[u] = forwarded[u]
        /\ Len(forwarded'[s]) = Len(forwarded[s]) + 1
    BY ForwardsOne
  <2>4. ~astray => o.message > Len(forwarded'[o.topic]) \/ OnItsWay(o)'
    <3>1. CASE o.topic # s
      BY <2>1, <2>2, <2>3, <3>1
    <3>2. CASE o.topic = s /\ o.message = Len(forwarded'[s])
      <4>1. element' = [source |-> s, message |-> Len(forwarded'[s])]
        BY <2>1, <3>2, ConsumeKeepsLog
      <4>2. consumer' = "start"
        BY <2>1, <3>2
      <4> QED BY <3>2, <4>1, <4>2 DEF OnItsWay, Sending
    <3>3. CASE o.topic = s /\ o.message # Len(forwarded'[s])
      <4>1. Len(forwarded[s]) \in Nat
        BY DEF LogInv
      <4> QED BY <2>1, <2>2, <2>3, <3>3, <4>1
    <3> QED BY <3>1, <3>2, <3>3
  <2> QED BY <2>1, <2>4 DEF OwedStands, walkVars
<1> QED BY <1>1 DEF OwedInv

LEMMA ConsumerKeepsOwed ==
  ASSUME MainInv, ListsInv, LogInv, WalkInv, OwedInv, process = "running", ConsumerStep
  PROVE  OwedInv'
<1> USE BrokerAssumption
<1>0. UNCHANGED <<client, peer, socket, socket_list>>
  BY DEF ConsumerStep, clientVars
<1>1. CASE ConsumeResponse /\ UNCHANGED <<sendVars, process>>
  BY <1>0, <1>1, ListsFacts, ConsumeKeepsOwed DEF ConsumeResponse, sendVars
<1>2. ASSUME NEW t \in Topic, ConsumeMessage(t), UNCHANGED <<sendVars, process>> PROVE OwedInv'
  <2>1. t # Main /\ t \in Sources
    BY ListsFacts
  <2> QED BY <1>0, <1>2, <2>1, ConsumeKeepsOwed DEF ConsumeMessage, sendVars
<1>3. CASE StartWalk /\ UNCHANGED <<sendVars, process>>
  <2>1. /\ consumer = "start" /\ WalkTo(element.source, Len(socket_list[element.source]))
        /\ UNCHANGED <<forwarded, astray, dangling, owed>>
    BY <1>3 DEF StartWalk, sendVars
  <2>2. ASSUME NEW o \in owed PROVE OwedStands(o)'
    <3>1. OwedStands(o) /\ o.topic \in SocketLists
      BY OwedFacts
    <3>2. ASSUME OnItsWay(o) PROVE OnItsWay(o)'
      <4>1. element.source = o.topic
        BY <3>2 DEF OnItsWay, Sending
      <4>2. socket_list[o.topic] \in Seq(Connection) /\ Len(socket_list[o.topic]) \in Nat
        BY <3>1 DEF MainInv, MainTypeOK
      <4>3. o.connection \in ToSet(socket_list[o.topic])
        BY <3>1 DEF OwedStands
      <4>4. PICK k \in 1 .. Len(socket_list[o.topic]) : socket_list[o.topic][k] = o.connection
        BY <4>2, <4>3, ElementIsSomewhere
      <4>5. Len(socket_list[o.topic]) - k + 1 <= Len(socket_list[o.topic])
            /\ Len(socket_list[o.topic]) \in 0 .. Len(socket_list[o.topic])
        BY <4>2
      <4>6. Sending(o.topic, o.message)
        BY <3>2 DEF OnItsWay
      <4> QED BY <1>0, <2>1, <3>1, <4>1, <4>4, <4>5, <4>6, WalkToKeepsOwed
    <3> QED BY <1>0, <2>1, <3>1, <3>2 DEF OwedStands
  <2> QED BY <2>1, <2>2 DEF OwedInv
<1>4. CASE WalkOn /\ UNCHANGED sendVars
  <2>1. UNCHANGED <<forwarded, owed>> /\ consumer = "walk"
    BY <1>4 DEF WalkOn, sendVars
  <2>2. ASSUME NEW o \in owed PROVE OwedStands(o)'
    <3>1. OwedStands(o) /\ o.topic \in SocketLists /\ o.topic # Main
      BY OwedFacts
    <3>2. CASE astray'
      BY <1>0, <3>1, <3>2 DEF OwedStands
    <3>3. CASE ~astray'
      <4>1. ~dangling /\ ~astray /\ WalkTo(walker.list, walker.left - 1)
        BY <1>4, <3>3 DEF WalkOn, walk_on
      <4>2. ASSUME OnItsWay(o) PROVE OnItsWay(o)'
        <5>1. element.source = o.topic /\ Sending(o.topic, o.message)
              /\ StillToVisit(o.connection, o.topic)
          BY <2>1, <4>1, <4>2 DEF OnItsWay, Sending
        <5>2. walker.list = o.topic /\ walker.left \in 1 .. Len(socket_list[o.topic])
          BY <2>1, <3>1, <4>1, <5>1 DEF WalkInv, Walking
        <5>3. Len(socket_list[o.topic]) \in Nat
          BY <3>1 DEF MainInv, MainTypeOK
        <5>4. PICK k \in 1 .. Len(socket_list[o.topic]) :
                /\ socket_list[o.topic][k] = o.connection
                /\ Len(socket_list[o.topic]) - k + 1 < walker.left
          BY <5>1 DEF StillToVisit
        <5>5. /\ Len(socket_list[o.topic]) - k + 1 <= walker.left - 1
              /\ walker.left - 1 \in 0 .. Len(socket_list[o.topic])
          BY <5>2, <5>3, <5>4
        <5> QED BY <1>0, <3>1, <4>1, <5>1, <5>2, <5>4, <5>5, WalkToKeepsOwed
      <4> QED BY <1>0, <2>1, <3>1, <4>1, <4>2 DEF OwedStands
    <3> QED BY <3>2, <3>3
  <2> QED BY <2>1, <2>2 DEF OwedInv
<1>5. CASE send_to_client /\ UNCHANGED process
  <2>1. /\ consumer = "send" /\ UNCHANGED <<forwarded, walkVars>> /\ owed' \subseteq owed
        /\ element.source # Main =>
              consumer' = "walk" /\ UNCHANGED <<element, connection_socket, copied_from>>
    BY <1>5 DEF send_to_client
  <2>2. ASSUME NEW o \in owed, o \in owed' PROVE OwedStands(o)'
    <3>1. /\ OwedStands(o) /\ o.topic # Main /\ o.connection \in Connection
          /\ socket[o.connection] \in Handle /\ client[o.connection] = "open"
      BY OwedFacts DEF OwedStands
    <3>2. ASSUME OnItsWay(o) PROVE OnItsWay(o)'
      <4>1. element = [source |-> o.topic, message |-> o.message]
        BY <3>2 DEF OnItsWay, Sending
      <4>2. element.source # Main /\ element.source = o.topic /\ element.message = o.message
        BY <3>1, <4>1
      <4>3. Sending(o.topic, o.message)'
        BY <2>1, <4>1, <4>2 DEF Sending
      <4>4. CASE dangling \/ StillToVisit(o.connection, o.topic)
        <5>1. StillToVisit(o.connection, o.topic)' <=> StillToVisit(o.connection, o.topic)
          BY <1>0, <2>1 DEF StillToVisit, walkVars
        <5> QED BY <2>1, <4>3, <4>4, <5>1 DEF OnItsWay, walkVars
      <4>5. CASE connection_socket = socket[o.connection]
        <5>1. Recipient = o.connection
          BY <3>1, <4>5 DEF Recipient, MainInv, SocketsNameTheirPeers
        <5>2. Recipient # NULL /\ client[Recipient] = "open"
          BY <3>1, <5>1
        <5>3. o \notin owed'
          BY <1>5, <4>2, <5>1, <5>2 DEF send_to_client
        <5> QED BY <2>2, <5>3
      <4> QED BY <2>1, <3>2, <4>4, <4>5 DEF OnItsWay
    <3> QED BY <1>0, <2>1, <3>1, <3>2 DEF OwedStands, walkVars
  <2> QED BY <2>1, <2>2 DEF OwedInv
<1> QED BY <1>1, <1>2, <1>3, <1>4, <1>5 DEF ConsumerStep

LEMMA OwedInvStep ==
  MainInv /\ ListsInv /\ LogInv /\ WalkInv /\ OwedInv /\ [Next]_vars => OwedInv'
<1> SUFFICES ASSUME MainInv, ListsInv, LogInv, WalkInv, OwedInv, [Next]_vars PROVE OwedInv'
  OBVIOUS
<1>1. CASE UNCHANGED vars
  <2>1. UNCHANGED <<owed, forwarded, consumer, element, connection_socket, copied_from, walkVars,
                    client, socket, socket_list>>
    BY <1>1 DEF vars, clientVars, consumerVars
  <2>2. \A o \in owed : OwedStands(o)'
    BY <2>1, OwedStandsUnchanged DEF OwedInv
  <2> QED BY <2>1, <2>2 DEF OwedInv
<1>2. CASE ClientStep
  BY <1>2, ClientKeepsOwed
<1>3. CASE ConsumerStep /\ process = "running"
  BY <1>3, ConsumerKeepsOwed
<1>4. CASE RoundEnds
  <2>1. UNCHANGED <<owed, forwarded, consumer, element, connection_socket, copied_from, walkVars,
                    client, socket, socket_list>>
    BY <1>4 DEF RoundEnds, clientVars, consumerVars, sendVars
  <2>2. \A o \in owed : OwedStands(o)'
    BY <2>1, OwedStandsUnchanged DEF OwedInv
  <2> QED BY <2>1, <2>2 DEF OwedInv
<1>5. CASE MainStep /\ process = "running"
  BY <1>4, <1>5, AcceptKeepsOwed, ReceiveKeepsOwed, RemoveKeepsOwed, ExecuteKeepsOwed DEF MainStep
<1> QED BY <1>1, <1>2, <1>3, <1>5 DEF Next

-----------------------------------------------------------------------------
(* A message received after the last subscription ended was being sent     *)
(* when it ended: afterwards the connection has no node for the walk to    *)
(* come to.                                                                *)
LateInv ==
    /\ late \in [Connection -> [Topic -> Nat]]
    /\ ~astray /\ ~misdirected => \A c \in Connection, t \in Topic :
          \/ late[c][t] = 0
          \/ /\ late[c][t] = 1 /\ net[c][t] = 0
             /\ ~(consumer = "send" /\ element.source = t /\ copied_from = c)

(* Nothing that bears on it changes, except that subscriptions begin and   *)
(* end; when one begins the count starts again.                            *)
LEMMA LateInvStands ==
  ASSUME LateInv, net \in [Connection -> [Topic -> Nat]],
         UNCHANGED misdirected, astray => astray',
         consumer' = "send" => UNCHANGED <<consumer, element, copied_from>>,
         late' \in [Connection -> [Topic -> Nat]],
         \A c \in Connection, t \in Topic :
            \/ late'[c][t] = late[c][t] /\ (net[c][t] = 0 => net'[c][t] = 0)
            \/ late'[c][t] = 0
  PROVE  LateInv'
<1> SUFFICES ASSUME ~astray', ~misdirected', NEW c \in Connection, NEW t \in Topic
             PROVE  \/ late'[c][t] = 0
                    \/ /\ late'[c][t] = 1 /\ net'[c][t] = 0
                       /\ ~(consumer' = "send" /\ element'.source = t /\ copied_from' = c)
  BY DEF LateInv
<1>1. \/ late[c][t] = 0
      \/ /\ late[c][t] = 1 /\ net[c][t] = 0
         /\ ~(consumer = "send" /\ element.source = t /\ copied_from = c)
  BY DEF LateInv
<1> QED BY <1>1

LEMMA ExecuteKeepsLate ==
  ASSUME MainInv, ListsInv, SubscriptionsInv, LateInv, execute_command
  PROVE  LateInv'
<1>1. PICK c \in Connection, command \in Command : Executed(c, command)
  BY ExecuteExecutes
<1>2. UNCHANGED <<misdirected, consumer, element, copied_from>>
  BY ExecuteExecutes
<1>3. net \in [Connection -> [Topic -> Nat]] /\ late \in [Connection -> [Topic -> Nat]]
  BY DEF SubscriptionsInv, LateInv
<1> DEFINE t == command.topic
<1>4. CASE publish(c, command) \/ query(c, command) \/ query_fails(command)
  <2>1. UNCHANGED <<late, net, astray>>
    BY <1>4 DEF publish, query, query_fails, walkVars
  <2> QED BY <1>2, <1>3, <2>1, LateInvStands
<1>5. CASE subscribe(c, command)
  <2>1. UNCHANGED astray
    BY <1>5 DEF subscribe, walkVars
  <2>2. CASE UNCHANGED <<net, late>>
    BY <1>2, <1>3, <2>1, <2>2, LateInvStands
  <2>3. CASE /\ t \in Topic /\ net' = [net EXCEPT ![c][t] = @ + 1]
             /\ late' = [late EXCEPT ![c][t] = 0]
    <3>1. late' \in [Connection -> [Topic -> Nat]]
      BY <1>3, <2>3
    <3>2. ASSUME NEW d \in Connection, NEW u \in Topic
          PROVE  late'[d][u] = 0 \/ (late'[d][u] = late[d][u] /\ net'[d][u] = net[d][u])
      BY <1>3, <2>3
    <3> QED BY <1>2, <1>3, <2>1, <3>1, <3>2, LateInvStands
  <2> QED BY <1>5, <2>2, <2>3 DEF subscribe
<1>6. CASE unsubscribe(c, command)
  <2>1. UNCHANGED late
    BY <1>6 DEF unsubscribe
  <2>2. CASE ~(t \in Topic /\ c \in ToSet(socket_list[t]))
    <3>1. UNCHANGED <<net, astray>>
      BY <1>6, <2>2 DEF unsubscribe, walkVars
    <3> QED BY <1>2, <1>3, <2>1, <3>1, LateInvStands
  <2>3. CASE t \in Topic /\ c \in ToSet(socket_list[t])
    <3>1. net' = [net EXCEPT ![c][t] = @ - 1] /\ free_node(t, c)
      BY <1>6, <2>3 DEF unsubscribe
    <3>2. UNCHANGED astray /\ net[c][t] # 0
      BY <2>3, <3>1, FreeNodeTakesFirst, SubscribersHaveSubscribed
    <3>3. ASSUME NEW d \in Connection, NEW u \in Topic
          PROVE  net[d][u] = 0 => net'[d][u] = 0
      BY <1>3, <2>3, <3>1, <3>2
    <3> QED BY <1>2, <1>3, <2>1, <3>2, <3>3, LateInvStands
  <2> QED BY <2>2, <2>3
<1> QED BY <1>1, <1>4, <1>5, <1>6 DEF Executed

(* The walk copies the socket of a subscriber only.                        *)
LEMMA WalkToKeepsLate ==
  ASSUME MainInv, SubscriptionsInv, LateInv, UNCHANGED <<socket_list, net, late, misdirected>>,
         NEW l \in SocketLists, NEW left \in 0 .. Len(socket_list[l]), WalkTo(l, left),
         astray => astray', ~astray' => l = element.source
  PROVE  LateInv'
<1> SUFFICES ASSUME ~astray', ~misdirected', NEW c \in Connection, NEW t \in Topic, late[c][t] # 0
             PROVE  /\ late[c][t] = 1 /\ net[c][t] = 0
                    /\ ~(consumer' = "send" /\ element'.source = t /\ copied_from' = c)
  BY DEF LateInv
<1>1. late[c][t] = 1 /\ net[c][t] = 0
  BY DEF LateInv
<1>2. ASSUME consumer' = "send", element'.source = t, copied_from' = c PROVE FALSE
  <2>1. /\ copied_from' = socket_list[l][Len(socket_list[l]) - left + 1]
        /\ Len(socket_list[l]) - left + 1 \in 1 .. Len(socket_list[l])
        /\ element' = element
    BY <1>2, WalkToLeads
  <2>2. l = t /\ socket_list[l] \in Seq(Connection)
    BY <1>2, <2>1 DEF MainInv, MainTypeOK
  <2>3. c \in ToSet(socket_list[t])
    BY <1>2, <2>1, <2>2, ElementIsSomewhere
  <2> QED BY <1>1, <2>3, SubscribersHaveSubscribed
<1> QED BY <1>1, <1>2

LEMMA SendKeepsLate ==
  ASSUME MainInv, LateInv, send_to_client, UNCHANGED <<net, astray>>
  PROVE  LateInv'
<1> USE BrokerAssumption, ListsFacts
<1>1. /\ consumer = "send" /\ consumer' \in {"consume", "walk"}
      /\ misdirected' = (misdirected \/ Recipient \notin {copied_from, NULL})
  BY DEF send_to_client
<1>2. late \in [Connection -> [Topic -> Nat]]
  BY DEF LateInv
<1>3. CASE UNCHANGED late
  <2>1. ~astray' /\ ~misdirected' => ~astray /\ ~misdirected
    BY <1>1
  <2> QED BY <1>1, <1>3, <2>1 DEF LateInv
<1>4. CASE late' # late
  <2> DEFINE r == Recipient
             t == element.source
  <2>1. /\ r # NULL /\ t \in Topic /\ net[r][t] = 0
        /\ late' = [late EXCEPT ![r][t] = @ + 1]
    BY <1>4 DEF send_to_client
  <2>2. r \in Connection
    BY <2>1 DEF Recipient, MainInv, MainTypeOK
  <2> HIDE DEF r, t
  <2>3. late' \in [Connection -> [Topic -> Nat]]
    BY <1>2, <2>1, <2>2
  <2>4. ASSUME ~astray', ~misdirected', NEW c \in Connection, NEW u \in Topic
        PROVE  \/ late'[c][u] = 0
               \/ late'[c][u] = 1 /\ net'[c][u] = 0
    <3>1. ~astray /\ ~misdirected /\ r = copied_from
      BY <1>1, <2>1, <2>4 DEF r
    <3>2. CASE c = r /\ u = t
      <4>1. late[c][u] = 0
        BY <1>1, <3>1, <3>2 DEF LateInv, t
      <4> QED BY <1>2, <2>1, <2>2, <3>2, <4>1
    <3>3. CASE ~(c = r /\ u = t)
      <4>1. late'[c][u] = late[c][u]
        BY <1>2, <2>1, <2>2, <3>3
      <4> QED BY <3>1, <4>1 DEF LateInv
    <3> QED BY <3>2, <3>3
  <2> QED BY <1>1, <2>3, <2>4 DEF LateInv
<1> QED BY <1>3, <1>4

LEMMA ConsumerKeepsLate ==
  ASSUME MainInv, LogInv, WalkInv, SubscriptionsInv, LateInv, process = "running", ConsumerStep
  PROVE  LateInv'
<1>0. /\ UNCHANGED <<socket_list, net>>
      /\ net \in [Connection -> [Topic -> Nat]] /\ late \in [Connection -> [Topic -> Nat]]
  BY DEF ConsumerStep, SubscriptionsInv, LateInv
<1>1. CASE ConsumeResponse /\ UNCHANGED <<sendVars, process>>
  <2>1. element'.source = Main
    BY <1>1, ListsFacts, ConsumeKeepsLog DEF ConsumeResponse
  <2>2. UNCHANGED <<late, astray, misdirected>>
    BY <1>1 DEF ConsumeResponse, sendVars, walkVars
  <2>3. \A t \in Topic : element'.source # t
    BY <2>1, ListsFacts
  <2> QED BY <1>0, <2>2, <2>3 DEF LateInv
<1>2. ASSUME NEW t \in Topic, ConsumeMessage(t), UNCHANGED <<sendVars, process>> PROVE LateInv'
  <2>1. consumer' = "start" /\ UNCHANGED <<late, astray, misdirected>>
    BY <1>2 DEF ConsumeMessage, sendVars, walkVars
  <2> QED BY <1>0, <2>1 DEF LateInv
<1>3. CASE StartWalk /\ UNCHANGED <<sendVars, process>>
  <2>1. /\ WalkTo(element.source, Len(socket_list[element.source])) /\ consumer = "start"
        /\ UNCHANGED <<late, astray, misdirected>>
    BY <1>3 DEF StartWalk, sendVars
  <2>2. element.source \in SocketLists
    BY <2>1, ListsFacts DEF WalkInv
  <2>3. Len(socket_list[element.source]) \in Nat
    BY <2>2 DEF MainInv, MainTypeOK
  <2>4. Len(socket_list[element.source]) \in 0 .. Len(socket_list[element.source])
    BY <2>3
  <2> QED BY <1>0, <2>1, <2>2, <2>4, WalkToKeepsLate
<1>4. CASE WalkOn /\ UNCHANGED sendVars
  <2>1. consumer = "walk" /\ UNCHANGED <<late, misdirected>>
    BY <1>4 DEF WalkOn, sendVars
  <2>2. CASE dangling
    <3>1. astray'
      BY <1>4, <2>2 DEF WalkOn
    <3> QED BY <1>0, <2>1, <3>1 DEF LateInv
  <2>3. CASE ~dangling
    <3>1. WalkTo(walker.list, walker.left - 1) /\ UNCHANGED astray
      BY <1>4, <2>3 DEF WalkOn, walk_on
    <3>2. Walking
      BY <2>1, ListsFacts DEF WalkInv, Walking
    <3>3. /\ walker.list \in SocketLists /\ walker.left \in 1 .. Len(socket_list[walker.list])
          /\ ~astray => walker.list = element.source
      BY <2>3, <3>2 DEF WalkInv, ConsumerTypeOK
    <3>4. walker.left - 1 \in 0 .. Len(socket_list[walker.list])
      BY <3>3 DEF MainInv, MainTypeOK
    <3> QED BY <1>0, <2>1, <3>1, <3>3, <3>4, WalkToKeepsLate
  <2> QED BY <2>2, <2>3
<1>5. CASE send_to_client
  BY <1>0, <1>5, SendKeepsLate DEF send_to_client, walkVars
<1> QED BY <1>1, <1>2, <1>3, <1>4, <1>5 DEF ConsumerStep

LEMMA LateInvStep ==
  MainInv /\ ListsInv /\ LogInv /\ WalkInv /\ SubscriptionsInv /\ LateInv /\ [Next]_vars
    => LateInv'
<1> SUFFICES ASSUME MainInv, ListsInv, LogInv, WalkInv, SubscriptionsInv, LateInv, [Next]_vars
             PROVE  LateInv'
  OBVIOUS
<1>1. CASE UNCHANGED <<late, net, misdirected, consumer, element, copied_from>> /\ (astray => astray')
  BY <1>1, LateInvStands DEF SubscriptionsInv, LateInv
<1>2. CASE UNCHANGED vars \/ ClientStep
  BY <1>1, <1>2 DEF vars, ClientStep, consumerVars, walkVars
<1>3. CASE MainStep
  <2>1. CASE execute_command
    BY <2>1, ExecuteKeepsLate
  <2>2. CASE accept_connection \/ receive_commands \/ RoundEnds \/ RemoveSubscription
    <3>1. UNCHANGED <<late, net>>
      BY <2>2 DEF accept_connection, receive_commands, RoundEnds, RemoveSubscription, sendVars
    <3>2. UNCHANGED <<misdirected, consumer, element, copied_from>>
      BY <1>3, MainOnLists
    <3>3. astray => astray'
      <4>1. ASSUME NEW l, NEW c, free_node(l, c) PROVE UNCHANGED astray
        BY <4>1, FreeNodeTakesFirst, FreeNodeFindsNone DEF walkVars
      <4>2. CASE accept_connection \/ RoundEnds
        BY <4>2 DEF accept_connection, RoundEnds, walkVars
      <4>3. CASE receive_commands
        BY <4>1, <4>3 DEF receive_commands, NothingReceived, Received, ConnectionClosed, walkVars
      <4>4. CASE RemoveSubscription
        BY <4>1, <4>4 DEF RemoveSubscription
      <4> QED BY <2>2, <4>2, <4>3, <4>4
    <3> QED BY <1>1, <3>1, <3>2, <3>3
  <2> QED BY <1>3, <2>1, <2>2 DEF MainStep
<1>4. CASE ConsumerStep /\ process = "running"
  BY <1>4, ConsumerKeepsLate
<1> QED BY <1>2, <1>3, <1>4 DEF Next

-----------------------------------------------------------------------------
(* What a client received from a source, and which answers are for a       *)
(* client, as a sequence grows.                                            *)
FromSource(q, s) ==
    LET own == Selected(q, {k \in 1 .. Len(q) : q[k].source = s})
    IN  [j \in 1 .. Len(own) |-> own[j].message]
Asked(q, c) == Selected(q, {k \in 1 .. Len(q) : q[k].asker = c})

LEMMA FromSourceGrows ==
  ASSUME NEW q \in Seq(Element), NEW e \in Element, NEW s
  PROVE  FromSource(Append(q, e), s) =
           IF e.source = s THEN Append(FromSource(q, s), e.message) ELSE FromSource(q, s)
<1> DEFINE r == Append(q, e)
           K == {k \in 1 .. Len(q) : q[k].source = s}
           L == {k \in 1 .. Len(r) : r[k].source = s}
           own == Selected(q, K)
           grown == Selected(r, L)
<1>1. /\ Len(q) \in Nat /\ Len(r) = Len(q) + 1 /\ r[Len(q) + 1] = e
      /\ \A k \in 1 .. Len(q) : r[k] = q[k]
  OBVIOUS
<1> HIDE DEF r
<1>2. /\ \A k \in 1 .. Len(q) : k \in K <=> k \in L
      /\ Len(q) + 1 \in L <=> e.source = s
  BY <1>1
<1>3. /\ FromSource(q, s) = [j \in 1 .. Len(own) |-> own[j].message]
      /\ FromSource(r, s) = [j \in 1 .. Len(grown) |-> grown[j].message]
  BY DEF FromSource
<1> HIDE DEF K, L
<1>4. own \in Seq(Element)
  BY SelectedIn
<1>5. grown = IF e.source = s THEN Append(own, e) ELSE own
  <2>1. Selected(Append(q, e), L) =
          IF Len(q) + 1 \in L THEN Append(Selected(q, K), e) ELSE Selected(q, K)
    BY ONLY <1>2, q \in Seq(Element), e \in Element, SelectedGrows
  <2> QED BY <1>2, <2>1 DEF r
<1> HIDE DEF own, grown
<1>6. CASE e.source # s
  BY <1>3, <1>5, <1>6 DEF r
<1>7. CASE e.source = s
  <2> DEFINE m == [j \in 1 .. Len(own) |-> own[j].message]
  <2>1. /\ grown = Append(own, e) /\ Len(own) \in Nat /\ Len(grown) = Len(own) + 1
        /\ \A j \in 1 .. Len(own) + 1 :
              grown[j] = IF j = Len(own) + 1 THEN e ELSE own[j]
    BY <1>4, <1>5, <1>7
  <2>2. Append(m, e.message) =
          [j \in 1 .. Len(own) + 1 |-> IF j = Len(own) + 1 THEN e.message ELSE own[j].message]
    <3>1. m \in Seq({own[j].message : j \in 1 .. Len(own)}) /\ Len(m) = Len(own)
      BY <2>1
    <3> QED BY <2>1, <3>1
  <2>3. [j \in 1 .. Len(grown) |-> grown[j].message] =
          [j \in 1 .. Len(own) + 1 |-> IF j = Len(own) + 1 THEN e.message ELSE own[j].message]
    BY <2>1
  <2> QED BY <1>3, <1>7, <2>2, <2>3 DEF r
<1> QED BY <1>6, <1>7

LEMMA FromSourceMessages ==
  ASSUME NEW q \in Seq(Element), NEW s
  PROVE  \E S : FromSource(q, s) \in Seq(S)
<1> DEFINE own == Selected(q, {k \in 1 .. Len(q) : q[k].source = s})
           S == {own[j].message : j \in 1 .. Len(own)}
<1>1. own \in Seq(Element)
  BY SelectedIn
<1>2. FromSource(q, s) = [j \in 1 .. Len(own) |-> own[j].message]
  BY DEF FromSource
<1> HIDE DEF own
<1>3. [j \in 1 .. Len(own) |-> own[j].message] \in Seq(S)
  BY <1>1
<1> HIDE DEF S
<1> QED BY <1>2, <1>3

LEMMA AskedGrows ==
  ASSUME NEW S, NEW q \in Seq(S), NEW a \in S, NEW c
  PROVE  Asked(Append(q, a), c) = IF a.asker = c THEN Append(Asked(q, c), a) ELSE Asked(q, c)
<1> DEFINE r == Append(q, a)
           K == {k \in 1 .. Len(q) : q[k].asker = c}
           L == {k \in 1 .. Len(r) : r[k].asker = c}
<1>1. /\ Len(q) \in Nat /\ Len(r) = Len(q) + 1 /\ r[Len(q) + 1] = a
      /\ \A k \in 1 .. Len(q) : r[k] = q[k]
  OBVIOUS
<1> HIDE DEF r
<1>2. /\ \A k \in 1 .. Len(q) : k \in K <=> k \in L
      /\ Len(q) + 1 \in L <=> a.asker = c
  BY <1>1
<1>3. Asked(q, c) = Selected(q, K) /\ Asked(r, c) = Selected(r, L)
  BY DEF Asked
<1> HIDE DEF K, L
<1>4. Selected(Append(q, a), L) =
        IF Len(q) + 1 \in L THEN Append(Selected(q, K), a) ELSE Selected(q, K)
  BY ONLY <1>2, q \in Seq(S), a \in S, SelectedGrows
<1> QED BY <1>2, <1>3, <1>4 DEF r

(* A handle that leads to the client as long as the client is there.       *)
Reaches(h, c) ==
    /\ client[c] # "absent"
    /\ client[c] = "open" => h \in Handle /\ socket[c] = h

(* An answer carries such a handle, from the query to the send; and the    *)
(* answers add up, for clients that have not come yet as well.             *)
AnswersAddUp ==
    ~misdirected => \A c \in Connection : client[c] \in {"absent", "open"} =>
        ReceivedFrom(c, Main) \o BeingSent(c) = AnswersTo(c, Len(forwarded[Main]))

AnswersInv ==
    /\ \A c \in Connection : socket[c] # NULL => client[c] # "absent"
    /\ \A n \in 1 .. Len(accepted[Main]) :
          Reaches(accepted[Main][n].to, accepted[Main][n].asker)
    /\ consumer = "send" /\ element.source = Main => Reaches(connection_socket, copied_from)
    /\ AnswersAddUp

LEMMA AnswersInvInit == Init => AnswersInv
<1> SUFFICES ASSUME Init PROVE AnswersInv
  OBVIOUS
<1>1. /\ \A c \in Connection : socket[c] = NULL /\ received[c] = << >>
      /\ consumer = "consume"
      /\ accepted[Main] = << >> /\ forwarded[Main] = << >>
  BY DEF Init, Log!Init
<1>2. Len(<< >>) = 0 /\ SubSeq(<< >>, 1, 0) = << >> /\ << >> \o << >> = << >>
  OBVIOUS
<1>3. ASSUME NEW c \in Connection
      PROVE  ReceivedFrom(c, Main) \o BeingSent(c) = AnswersTo(c, Len(forwarded[Main]))
  <2>1. ReceivedFrom(c, Main) = << >>
    BY <1>1, <1>2, SelectedEmpty DEF ReceivedFrom
  <2>2. BeingSent(c) = << >>
    BY <1>1 DEF BeingSent
  <2>3. AnswersTo(c, 0) = << >>
    BY <1>1, <1>2, SelectedEmpty DEF AnswersTo
  <2> QED BY <1>1, <1>2, <2>1, <2>2, <2>3
<1>4. \A n \in 1 .. Len(accepted[Main]) : FALSE
  BY <1>1, <1>2
<1> QED BY <1>1, <1>3, <1>4 DEF AnswersInv, AnswersAddUp

(* Sockets and clients only move on: no handle changes under an open       *)
(* client, and nobody becomes absent again.                                *)
LEMMA ReachesStands ==
  ASSUME MainInv, ListsInv, AnswersInv, [Next]_vars
  PROVE  /\ \A h, c : c \in Connection /\ Reaches(h, c) => Reaches(h, c)'
         /\ \A c \in Connection : socket'[c] # NULL => client'[c] # "absent"
<1> USE BrokerAssumption
<1>0. /\ socket \in Sockets /\ client \in [Connection -> Client]
      /\ \A c \in Connection : socket[c] # NULL => client[c] # "absent"
  BY DEF MainInv, MainTypeOK, ListsInv, ControlTypeOK, AnswersInv, Sockets
<1>1. CASE UNCHANGED <<socket, client>>
  BY <1>0, <1>1 DEF Reaches
<1>2. CASE ClientStep
  <2>1. UNCHANGED socket
    BY <1>2 DEF ClientStep
  <2>2. PICK c \in Connection : Connect(c) \/ SendCommand(c) \/ Leave(c)
    BY <1>2 DEF ClientStep
  <2>3. \A d \in Connection : /\ client'[d] = "open" => client[d] \in {"absent", "open"}
                              /\ client'[d] = "absent" => client[d] = "absent"
    BY <1>0, <2>2 DEF Connect, SendCommand, Leave
  <2> QED BY <1>0, <2>1, <2>3 DEF Reaches
<1>3. CASE accept_connection
  <2>1. UNCHANGED client
    BY <1>3 DEF accept_connection, clientVars
  <2>2. \/ UNCHANGED socket
        \/ \E c \in Connection, h \in Handle :
              /\ client[c] # "absent" /\ socket[c] = NULL
              /\ socket' = [socket EXCEPT ![c] = h]
    BY <1>3 DEF accept_connection
  <2>3. CASE UNCHANGED socket
    BY <1>1, <2>1, <2>3
  <2>4. ASSUME NEW c \in Connection, NEW h \in Handle, client[c] # "absent", socket[c] = NULL,
               socket' = [socket EXCEPT ![c] = h]
        PROVE  /\ \A g, d : d \in Connection /\ Reaches(g, d) => Reaches(g, d)'
               /\ \A d \in Connection : socket'[d] # NULL => client'[d] # "absent"
    <3>1. \A d \in Connection : d # c => socket'[d] = socket[d]
      BY <1>0, <2>4 DEF Sockets
    <3> QED BY <1>0, <2>1, <2>4, <3>1 DEF Reaches
  <2> QED BY <2>2, <2>3, <2>4
<1>4. CASE receive_commands
  <2>1. UNCHANGED client
    BY <1>4 DEF receive_commands
  <2>2. \/ UNCHANGED socket
        \/ \E c \in Connection : client[c] = "closed"
                                   /\ socket' = [socket EXCEPT ![c] = INVALID_SOCKET]
    <3>1. Head(to_visit) \in Connection
      BY <1>4 DEF receive_commands, MainInv, MainTypeOK
    <3> QED BY <1>4, <3>1 DEF receive_commands, NothingReceived, Received, ConnectionClosed,
                              mark_closed
  <2>3. ASSUME NEW c \in Connection, client[c] = "closed",
               socket' = [socket EXCEPT ![c] = INVALID_SOCKET]
        PROVE  /\ \A g, d : d \in Connection /\ Reaches(g, d) => Reaches(g, d)'
               /\ \A d \in Connection : socket'[d] # NULL => client'[d] # "absent"
    <3>1. \A d \in Connection : d # c => socket'[d] = socket[d]
      BY <1>0, <2>3 DEF Sockets
    <3> QED BY <1>0, <2>1, <2>3, <3>1 DEF Reaches
  <2> QED BY <1>1, <2>1, <2>2, <2>3
<1>5. CASE RoundEnds \/ RemoveSubscription \/ execute_command
  BY <1>1, <1>5 DEF RoundEnds, RemoveSubscription, execute_command, clientVars
<1>6. CASE ConsumerStep
  BY <1>1, <1>6 DEF ConsumerStep, clientVars
<1>7. CASE UNCHANGED vars
  BY <1>1, <1>7 DEF vars, clientVars
<1> QED BY <1>2, <1>3, <1>4, <1>5, <1>6, <1>7 DEF Next, MainStep

(* What a step must leave as it is for the answers to add up as before.    *)
LEMMA AnswersStand ==
  ASSUME MainInv, ListsInv, LogInv, WalkInv, AnswersInv, [Next]_vars,
         UNCHANGED <<received, accepted, forwarded>>, misdirected => misdirected',
         consumer' = "send" /\ element'.source = Main =>
            UNCHANGED <<consumer, element, connection_socket, copied_from>>,
         consumer = "send" /\ element.source = Main =>
            UNCHANGED <<consumer, element, connection_socket, copied_from>>,
         \A c \in Connection : client'[c] \in {"absent", "open"} => client[c] \in {"absent", "open"}
  PROVE  AnswersInv'
<1>1. \A n \in 1 .. Len(accepted[Main]) : accepted[Main][n].asker \in Connection
  BY DEF LogInv, Response
<1>2. \A n \in 1 .. Len(accepted'[Main]) :
        Reaches(accepted[Main][n].to, accepted[Main][n].asker)'
  BY <1>1, ReachesStands DEF AnswersInv
<1>3. consumer = "send" => copied_from \in Connection
  BY DEF WalkInv
<1>4. consumer' = "send" /\ element'.source = Main =>
        Reaches(connection_socket, copied_from)'
  BY <1>3, ReachesStands DEF AnswersInv, Reaches
<1>5. AnswersAddUp'
  <2> SUFFICES ASSUME ~misdirected', NEW c \in Connection, client'[c] \in {"absent", "open"}
               PROVE  ReceivedFrom(c, Main)' \o BeingSent(c)' =
                        AnswersTo(c, Len(forwarded[Main]))'
    BY DEF AnswersAddUp
  <2>1. ReceivedFrom(c, Main) \o BeingSent(c) = AnswersTo(c, Len(forwarded[Main]))
    BY DEF AnswersInv, AnswersAddUp
  <2>2. ReceivedFrom(c, Main)' = ReceivedFrom(c, Main)
    BY DEF ReceivedFrom
  <2>3. AnswersTo(c, Len(forwarded[Main]))' = AnswersTo(c, Len(forwarded[Main]))
    BY DEF AnswersTo
  <2>4. BeingSent(c)' = BeingSent(c)
    BY DEF BeingSent
  <2> QED BY <2>1, <2>2, <2>3, <2>4
<1> QED BY <1>2, <1>4, <1>5, ReachesStands DEF AnswersInv

LEMMA SubSeqOfAppend ==
  ASSUME NEW S, NEW q \in Seq(S), NEW a \in S, NEW n \in 0 .. Len(q)
  PROVE  SubSeq(Append(q, a), 1, n) = SubSeq(q, 1, n)
<1> DEFINE r == Append(q, a)
<1>1. /\ r \in Seq(S) /\ Len(r) = Len(q) + 1 /\ Len(q) \in Nat
      /\ \A k \in 1 .. Len(q) : r[k] = q[k]
  OBVIOUS
<1> HIDE DEF r
<1>2. /\ SubSeq(q, 1, n) = [k \in 1 .. n |-> q[k]]
      /\ SubSeq(r, 1, n) = [k \in 1 .. n |-> r[k]]
  BY <1>1
<1>3. \A k \in 1 .. n : r[k] = q[k]
  BY <1>1
<1> QED BY <1>2, <1>3 DEF r

LEMMA SubSeqGrows ==
  ASSUME NEW S, NEW q \in Seq(S), NEW n \in 0 .. Len(q), n # Len(q)
  PROVE  /\ SubSeq(q, 1, n) \in Seq(S) /\ q[n + 1] \in S
         /\ SubSeq(q, 1, n + 1) = Append(SubSeq(q, 1, n), q[n + 1])
<1>1. n \in Nat /\ Len(q) \in Nat /\ n + 1 \in 1 .. Len(q) /\ n + 1 - 1 = n
  OBVIOUS
<1>2. /\ SubSeq(q, 1, n) = [k \in 1 .. n |-> q[k]]
      /\ SubSeq(q, 1, n + 1) = [k \in 1 .. n + 1 |-> q[k]]
      /\ SubSeq(q, 1, n) \in Seq(S) /\ Len(SubSeq(q, 1, n)) = n
  BY <1>1
<1> DEFINE p == SubSeq(q, 1, n)
<1>3. p \in Seq(S) /\ Len(p) = n /\ \A k \in 1 .. n : p[k] = q[k]
  BY <1>1, <1>2
<1> HIDE DEF p
<1>4. Append(p, q[n + 1]) = [k \in 1 .. n + 1 |-> IF k = n + 1 THEN q[n + 1] ELSE p[k]]
  BY <1>1, <1>3
<1>5. \A k \in 1 .. n + 1 : q[k] = IF k = n + 1 THEN q[n + 1] ELSE p[k]
  BY <1>1, <1>3
<1>6. [k \in 1 .. n + 1 |-> q[k]] =
        [k \in 1 .. n + 1 |-> IF k = n + 1 THEN q[n + 1] ELSE p[k]]
  BY <1>5
<1>7. SubSeq(q, 1, n + 1) = Append(p, q[n + 1])
  BY <1>2, <1>4, <1>6
<1> QED BY <1>1, <1>2, <1>7 DEF p

LEMMA ConcatOne ==
  ASSUME NEW r, \E S : r \in Seq(S), NEW a
  PROVE  r \o << >> = r /\ r \o <<a>> = Append(r, a)
<1>1. PICK S : r \in Seq(S)
  OBVIOUS
<1>2. r \in Seq(S \cup {a}) /\ a \in S \cup {a}
  BY <1>1
<1> QED BY <1>2

LEMMA AnswersFacts ==
  ASSUME MainInv, LogInv
  PROVE  /\ accepted[Main] \in Seq(Nat \cup Response)
         /\ Len(accepted[Main]) \in Nat /\ Len(forwarded[Main]) \in Nat
         /\ Len(forwarded[Main]) \in 0 .. Len(accepted[Main])
         /\ \A n \in 1 .. Len(accepted[Main]) :
               accepted[Main][n] \in Response /\ accepted[Main][n].asker \in Connection
<1>1. accepted[Main] \in Seq(Nat \cup Response) /\ forwarded[Main] \in Seq(Nat \cup Response)
      /\ Len(forwarded[Main]) <= Len(accepted[Main])
  BY ListsFacts DEF MainInv, MainTypeOK, LogInv
<1>2. \A n \in 1 .. Len(accepted[Main]) :
         accepted[Main][n] \in Response /\ accepted[Main][n].asker \in Connection
  BY DEF LogInv, Response
<1> QED BY <1>1, <1>2

(* A query asks for one more answer, with the handle of the connection it  *)
(* came on; no other command asks for any.                                 *)
LEMMA ExecutedAsks ==
  ASSUME MainInv, NEW c \in Connection, NEW command \in Command, Executed(c, command)
  PROVE  \/ accepted'[Main] = accepted[Main]
         \/ \E r \in Response : /\ accepted' = [accepted EXCEPT ![Main] = Append(@, r)]
                                /\ r.to = socket[c] /\ r.asker = c
<1> USE BrokerAssumption
<1>0. accepted \in [Sources -> Seq(Nat \cup Response)]
  BY DEF MainInv, MainTypeOK
<1>1. CASE publish(c, command)
  BY <1>0, <1>1, ListsFacts DEF publish, Log!Accept
<1>2. CASE subscribe(c, command) \/ unsubscribe(c, command) \/ query_fails(command)
  BY <1>2 DEF subscribe, unsubscribe, query_fails
<1>3. CASE query(c, command)
  <2>1. command.operation \in {"topic_exists", "subscriber_number"}
    BY <1>3 DEF query
  <2>2. socket_list \in [SocketLists -> Seq(Connection)] /\ Topic \subseteq SocketLists
    BY ListsFacts DEF MainInv, MainTypeOK
  <2>3. Answer(command) \in Int
    BY <2>1, <2>2 DEF Answer, Operation
  <2>4. [to |-> socket[c], asker |-> c, answer |-> Answer(command)] \in Response
    BY <2>3 DEF Response, MainInv, MainTypeOK
  <2>5. accepted' = [accepted EXCEPT ![Main] =
                        Append(@, [to |-> socket[c], asker |-> c, answer |-> Answer(command)])]
    BY <1>3 DEF query, Log!Accept
  <2> QED BY <2>4, <2>5
<1> QED BY <1>1, <1>2, <1>3 DEF Executed

LEMMA ExecuteKeepsAnswers ==
  ASSUME MainInv, ListsInv, LogInv, WalkInv, AnswersInv, [Next]_vars, execute_command
  PROVE  AnswersInv'
<1>1. PICK c \in Connection, command \in Command :
         socket[c] \in Handle /\ Executed(c, command)
  BY ExecuteExecutes
<1>2. UNCHANGED <<client, consumer, element, connection_socket, copied_from, received,
                  misdirected, socket>>
  BY ExecuteExecutes
<1>3. UNCHANGED forwarded
  BY <1>1, ExecutedOnLog
<1>4. /\ \A n \in 1 .. Len(accepted[Main]) : \A h, d :
            h = accepted[Main][n].to /\ d = accepted[Main][n].asker => Reaches(h, d)'
      /\ \A d \in Connection : socket'[d] # NULL => client'[d] # "absent"
  BY AnswersFacts, ReachesStands DEF AnswersInv
<1>5. consumer' = "send" /\ element'.source = Main => Reaches(connection_socket, copied_from)'
  BY <1>2 DEF AnswersInv, Reaches
<1>6. SUFFICES /\ \A n \in 1 .. Len(accepted'[Main]) :
                     Reaches(accepted[Main][n].to, accepted[Main][n].asker)'
               /\ \A d : AnswersTo(d, Len(forwarded[Main]))' = AnswersTo(d, Len(forwarded[Main]))
  <2>1. ASSUME \A d : AnswersTo(d, Len(forwarded[Main]))' = AnswersTo(d, Len(forwarded[Main])),
               ~misdirected', NEW d \in Connection, client'[d] \in {"absent", "open"}
        PROVE  ReceivedFrom(d, Main)' \o BeingSent(d)' = AnswersTo(d, Len(forwarded[Main]))'
    <3>1. ReceivedFrom(d, Main) \o BeingSent(d) = AnswersTo(d, Len(forwarded[Main]))
      BY <1>2, <2>1 DEF AnswersInv, AnswersAddUp
    <3>2. ReceivedFrom(d, Main)' = ReceivedFrom(d, Main) /\ BeingSent(d)' = BeingSent(d)
      BY <1>2 DEF ReceivedFrom, BeingSent
    <3> QED BY <2>1, <3>1, <3>2
  <2> QED BY <1>4, <1>5, <2>1 DEF AnswersInv, AnswersAddUp
<1>7. CASE accepted'[Main] = accepted[Main]
  BY <1>3, <1>4, <1>7 DEF AnswersTo
<1>8. ASSUME NEW r \in Response, accepted' = [accepted EXCEPT ![Main] = Append(@, r)],
             r.to = socket[c], r.asker = c
      PROVE  /\ \A n \in 1 .. Len(accepted'[Main]) :
                   Reaches(accepted[Main][n].to, accepted[Main][n].asker)'
             /\ \A d : AnswersTo(d, Len(forwarded[Main]))' = AnswersTo(d, Len(forwarded[Main]))
  <2> DEFINE q == accepted[Main]
  <2>1. accepted'[Main] = Append(q, r)
    BY <1>8, ListsFacts DEF MainInv, MainTypeOK
  <2>2. /\ q \in Seq(Nat \cup Response) /\ Len(q) \in Nat
        /\ Len(forwarded[Main]) \in 0 .. Len(q)
    BY AnswersFacts
  <2>3. /\ Len(Append(q, r)) = Len(q) + 1
        /\ \A n \in 1 .. Len(q) + 1 : Append(q, r)[n] = IF n <= Len(q) THEN q[n] ELSE r
    BY <2>2
  <2>4. Reaches(r.to, r.asker)'
    <3>1. socket[c] # NULL
      BY <1>1, BrokerAssumption
    <3>2. client[c] # "absent"
      BY <3>1 DEF AnswersInv
    <3> QED BY <1>1, <1>2, <1>8, <3>2 DEF Reaches
  <2>5. ASSUME NEW n \in 1 .. Len(accepted'[Main])
        PROVE  Reaches(accepted[Main][n].to, accepted[Main][n].asker)'
    <3>1. n \in 1 .. Len(q) + 1 /\ (n <= Len(q) => n \in 1 .. Len(q))
      BY <2>1, <2>2, <2>3
    <3>2. CASE n <= Len(q)
      <4>1. accepted'[Main][n] = accepted[Main][n]
        BY <2>1, <2>3, <3>1, <3>2
      <4> QED BY <1>4, <3>1, <3>2, <4>1 DEF Reaches
    <3>3. CASE ~(n <= Len(q))
      <4>1. accepted'[Main][n] = r
        BY <2>1, <2>3, <3>1, <3>3
      <4> QED BY <2>4, <4>1 DEF Reaches
    <3> QED BY <3>2, <3>3
  <2>6. SubSeq(accepted'[Main], 1, Len(forwarded[Main])) = SubSeq(q, 1, Len(forwarded[Main]))
    BY <2>1, <2>2, SubSeqOfAppend
  <2>7. \A d : AnswersTo(d, Len(forwarded[Main]))' = AnswersTo(d, Len(forwarded[Main]))
    BY <1>3, <2>6 DEF AnswersTo
  <2> QED BY <2>5, <2>7
<1> QED BY <1>1, <1>7, <1>8, ExecutedAsks

(* The consumer takes the next answer on: one more for its asker, which is *)
(* the one being sent.                                                     *)
LEMMA ConsumeKeepsAnswers ==
  ASSUME MainInv, ListsInv, LogInv, WalkInv, AnswersInv, [Next]_vars,
         ReceivedInv, ConsumeResponse, UNCHANGED <<sendVars, client>>
  PROVE  AnswersInv'
<1> DEFINE n == Len(forwarded[Main])
           a == accepted[Main][n + 1]
<1>1. /\ Main \in Sources /\ Log!Forward(Main) /\ consumer = "consume" /\ consumer' = "send"
      /\ TakenFrom(Main) /\ connection_socket' = element'.message.to
      /\ copied_from' = element'.message.asker
      /\ UNCHANGED <<received, misdirected>>
  BY ListsFacts DEF ConsumeResponse, sendVars
<1>2. /\ UNCHANGED accepted /\ Len(forwarded'[Main]) = n + 1
      /\ Len(forwarded'[Main]) \in 1 .. Len(accepted[Main])
  BY <1>1, ForwardsOne
<1>3. /\ accepted[Main] \in Seq(Nat \cup Response) /\ n \in 0 .. Len(accepted[Main])
      /\ n \in Nat /\ Len(accepted[Main]) \in Nat
      /\ \A k \in 1 .. Len(accepted[Main]) : accepted[Main][k].asker \in Connection
  BY AnswersFacts
<1> HIDE DEF n
<1>4. element' = [source |-> Main, message |-> a]
  BY <1>1, <1>2 DEF TakenFrom
<1>5. \A k \in 1 .. Len(accepted[Main]) : \A h, d :
        h = accepted[Main][k].to /\ d = accepted[Main][k].asker => Reaches(h, d)'
  BY <1>3, ReachesStands DEF AnswersInv
<1>6. n + 1 \in 1 .. Len(accepted[Main])
  BY <1>2
<1>7. Reaches(connection_socket, copied_from)'
  BY <1>1, <1>4, <1>5, <1>6 DEF Reaches
<1>8. AnswersAddUp'
  <2> SUFFICES ASSUME ~misdirected', NEW c \in Connection, client'[c] \in {"absent", "open"}
               PROVE  ReceivedFrom(c, Main)' \o BeingSent(c)' =
                        AnswersTo(c, Len(forwarded[Main]))'
    BY DEF AnswersAddUp
  <2> DEFINE R == ReceivedFrom(c, Main)
  <2>1. R \o BeingSent(c) = AnswersTo(c, n) /\ BeingSent(c) = << >>
    BY <1>1 DEF AnswersInv, AnswersAddUp, BeingSent, n
  <2>2. ReceivedFrom(c, Main)' = R
    BY <1>1 DEF ReceivedFrom
  <2>3. BeingSent(c)' = IF a.asker = c THEN <<a>> ELSE << >>
    BY <1>1, <1>4 DEF BeingSent
  <2>4. AnswersTo(c, Len(forwarded[Main]))' = Asked(SubSeq(accepted[Main], 1, n + 1), c)
    BY <1>2 DEF AnswersTo, Asked
  <2>5. AnswersTo(c, n) = Asked(SubSeq(accepted[Main], 1, n), c)
    BY DEF AnswersTo, Asked
  <2>6. /\ SubSeq(accepted[Main], 1, n) \in Seq(Nat \cup Response) /\ a \in Nat \cup Response
        /\ SubSeq(accepted[Main], 1, n + 1) = Append(SubSeq(accepted[Main], 1, n), a)
    <3>1. n # Len(accepted[Main])
      BY <1>2, <1>3
    <3> QED BY ONLY <1>3, <3>1, SubSeqGrows
  <2> DEFINE p == SubSeq(accepted[Main], 1, n)
  <2>7. p \in Seq(Nat \cup Response) /\ SubSeq(accepted[Main], 1, n + 1) = Append(p, a)
    BY <2>6
  <2> HIDE DEF p, a
  <2>8. Asked(Append(p, a), c) =
          IF a.asker = c THEN Append(Asked(p, c), a) ELSE Asked(p, c)
    BY ONLY <2>6, <2>7, AskedGrows
  <2>9. \E S : R \in Seq(S)
    <3>1. received[c] \in Seq(Element) /\ R = FromSource(received[c], Main)
      BY DEF ReceivedFrom, FromSource, ReceivedInv
    <3> QED BY <3>1, FromSourceMessages
  <2>10. R \o << >> = R /\ R \o <<a>> = Append(R, a)
    BY <2>9, ConcatOne
  <2> HIDE DEF R
  <2>11. R = Asked(p, c)
    BY <2>1, <2>5, <2>10 DEF p
  <2>12. AnswersTo(c, Len(forwarded[Main]))' =
           IF a.asker = c THEN Append(Asked(p, c), a) ELSE Asked(p, c)
    BY <2>4, <2>7, <2>8
  <2> QED BY <2>2, <2>3, <2>10, <2>11, <2>12
<1> QED BY <1>1, <1>2, <1>5, <1>7, <1>8, ReachesStands DEF AnswersInv

(* A send ends with what was being sent among what its client received: an *)
(* answer has no other way to go while its client stays.                   *)
LEMMA SendKeepsAnswers ==
  ASSUME MainInv, ListsInv, LogInv, WalkInv, ReceivedInv, AnswersInv, [Next]_vars,
         send_to_client, UNCHANGED client
  PROVE  AnswersInv'
<1> USE BrokerAssumption
<1>1. /\ consumer = "send" /\ consumer' \in {"consume", "walk"}
      /\ UNCHANGED <<accepted, forwarded>>
      /\ misdirected' = (misdirected \/ Recipient \notin {copied_from, NULL})
      /\ element \in Element /\ copied_from \in Connection
  BY DEF send_to_client, LogInv, WalkInv
<1>2. received \in [Connection -> Seq(Element)]
  BY DEF ReceivedInv
<1>3. /\ Recipient \in Connection /\ client[Recipient] = "open" =>
            received' = [received EXCEPT ![Recipient] = Append(@, element)]
      /\ ~(Recipient \in Connection /\ client[Recipient] = "open") => UNCHANGED received
  <2>1. Recipient \in Connection \cup {NULL}
    BY DEF Recipient, MainInv, MainTypeOK
  <2> QED BY <2>1 DEF send_to_client
<1>4. \A n \in 1 .. Len(accepted'[Main]) :
        Reaches(accepted[Main][n].to, accepted[Main][n].asker)'
  <2>1. \A n \in 1 .. Len(accepted[Main]) : accepted[Main][n].asker \in Connection
    BY DEF LogInv, Response
  <2> QED BY <1>1, <2>1, ReachesStands DEF AnswersInv
<1>5. AnswersAddUp'
  <2> SUFFICES ASSUME ~misdirected', NEW c \in Connection, client'[c] \in {"absent", "open"}
               PROVE  ReceivedFrom(c, Main)' \o BeingSent(c)' =
                        AnswersTo(c, Len(forwarded[Main]))'
    BY DEF AnswersAddUp
  <2> DEFINE R == FromSource(received[c], Main)
             m == element.message
  <2>1. /\ ~misdirected /\ Recipient \in {copied_from, NULL}
        /\ client[c] \in {"absent", "open"}
    BY <1>1
  <2>2. R \o BeingSent(c) = AnswersTo(c, Len(forwarded[Main]))'
    <3>1. ReceivedFrom(c, Main) \o BeingSent(c) = AnswersTo(c, Len(forwarded[Main]))
      BY <2>1 DEF AnswersInv, AnswersAddUp
    <3>2. R = ReceivedFrom(c, Main)
      BY DEF ReceivedFrom, FromSource
    <3>3. AnswersTo(c, Len(forwarded[Main]))' = AnswersTo(c, Len(forwarded[Main]))
      BY <1>1 DEF AnswersTo
    <3> QED BY <3>1, <3>2, <3>3
  <2>3. BeingSent(c)' = << >>
    BY <1>1 DEF BeingSent
  <2>4. ReceivedFrom(c, Main)' = FromSource(received'[c], Main)
    BY DEF ReceivedFrom, FromSource
  <2>5. received[c] \in Seq(Element) /\ received'[c] \in {received[c], Append(received[c], element)}
    BY <1>2, <1>3
  <2>6. R \o << >> = R /\ R \o <<m>> = Append(R, m)
    <3>1. \E S : R \in Seq(S)
      BY <2>5, FromSourceMessages
    <3> QED BY <3>1, ConcatOne
  <2>7. FromSource(Append(received[c], element), Main) =
          IF element.source = Main THEN Append(R, m) ELSE R
    <3>1. received[c] \in Seq(Element) /\ element \in Element
      BY <1>1, <2>5
    <3> QED BY ONLY <3>1, FromSourceGrows DEF R, m
  <2> HIDE DEF R, m
  <2>8. CASE element.source # Main
    <3>1. BeingSent(c) = << >>
      BY <2>8 DEF BeingSent
    <3>2. FromSource(received'[c], Main) = R
      BY <2>5, <2>7, <2>8 DEF R
    <3> QED BY <2>2, <2>3, <2>4, <3>1, <3>2
  <2>9. CASE element.source = Main /\ copied_from # c
    <3>1. BeingSent(c) = << >>
      BY <2>9 DEF BeingSent
    <3>2. received'[c] = received[c]
      BY <1>2, <1>3, <2>1, <2>9
    <3> QED BY <2>2, <2>3, <2>4, <3>1, <3>2 DEF R
  <2>10. CASE element.source = Main /\ copied_from = c
    <3>1. BeingSent(c) = <<m>>
      BY <1>1, <2>10 DEF BeingSent, m
    <3>2. client[c] = "open" /\ connection_socket \in Handle /\ socket[c] = connection_socket
      BY <1>1, <2>1, <2>10 DEF AnswersInv, Reaches
    <3>3. Recipient = c
      BY <3>2 DEF Recipient, MainInv, SocketsNameTheirPeers
    <3>4. received'[c] = Append(received[c], element)
      BY <1>2, <1>3, <3>2, <3>3
    <3>5. ReceivedFrom(c, Main)' = Append(R, m)
      BY <2>4, <2>7, <2>10, <3>4
    <3>6. Append(R, m) \o << >> = Append(R, m)
      <4>1. PICK S : R \in Seq(S)
        BY <2>5, FromSourceMessages DEF R
      <4>2. Append(R, m) \in Seq(S \cup {m})
        BY <4>1
      <4> QED BY <4>2, ConcatOne
    <3> QED BY <2>2, <2>3, <2>6, <3>1, <3>5, <3>6
  <2> QED BY <2>8, <2>9, <2>10
<1> QED BY <1>1, <1>4, <1>5, ReachesStands DEF AnswersInv

LEMMA AnswersInvStep ==
  MainInv /\ ListsInv /\ LogInv /\ WalkInv /\ ReceivedInv /\ AnswersInv /\ [Next]_vars
    => AnswersInv'
<1> SUFFICES ASSUME MainInv, ListsInv, LogInv, WalkInv, ReceivedInv, AnswersInv, [Next]_vars
             PROVE  AnswersInv'
  OBVIOUS
<1> USE ListsFacts
<1>1. CASE UNCHANGED <<received, accepted, forwarded, misdirected, client,
                       consumer, element, connection_socket, copied_from>>
  BY <1>1, AnswersStand
<1>2. CASE UNCHANGED vars
  BY <1>1, <1>2 DEF vars, clientVars, consumerVars
<1>3. CASE ClientStep
  <2>1. UNCHANGED <<received, accepted, forwarded, misdirected, consumer, element,
                    connection_socket, copied_from>>
    BY <1>3 DEF ClientStep, consumerVars
  <2>2. PICK c \in Connection : Connect(c) \/ SendCommand(c) \/ Leave(c)
    BY <1>3 DEF ClientStep
  <2>3. \A d \in Connection : client'[d] \in {"absent", "open"} => client[d] \in {"absent", "open"}
    BY <2>2 DEF Connect, SendCommand, Leave, ListsInv, ControlTypeOK
  <2> QED BY <2>1, <2>3, AnswersStand
<1>4. CASE MainStep
  <2>1. CASE execute_command
    BY <2>1, ExecuteKeepsAnswers
  <2>2. CASE accept_connection \/ receive_commands \/ RoundEnds \/ RemoveSubscription
    <3>1. UNCHANGED accepted
      BY <2>2 DEF accept_connection, receive_commands, RoundEnds, RemoveSubscription
    <3> QED BY <1>1, <1>4, <3>1, MainOnLists
  <2> QED BY <1>4, <2>1, <2>2 DEF MainStep
<1>5. CASE ConsumerStep
  <2>1. UNCHANGED client
    BY <1>5 DEF ConsumerStep, clientVars
  <2>2. CASE ConsumeResponse /\ UNCHANGED <<sendVars, process>>
    BY <2>1, <2>2, ConsumeKeepsAnswers
  <2>3. CASE send_to_client
    BY <2>1, <2>3, SendKeepsAnswers
  <2>4. ASSUME NEW t \in Topic, ConsumeMessage(t), UNCHANGED <<sendVars, process>>
        PROVE  AnswersInv'
    <3> USE <2>1, <2>4
    <3>1. /\ consumer = "consume" /\ consumer' = "start" /\ Log!Forward(t) /\ t \in Sources
          /\ UNCHANGED <<received, misdirected>>
      BY DEF ConsumeMessage, sendVars
    <3>2. UNCHANGED accepted /\ forwarded'[Main] = forwarded[Main]
      BY <3>1, ForwardsOne
    <3>3. AnswersAddUp'
      <4> SUFFICES ASSUME ~misdirected', NEW c \in Connection, client'[c] \in {"absent", "open"}
                   PROVE  ReceivedFrom(c, Main)' \o BeingSent(c)' =
                            AnswersTo(c, Len(forwarded[Main]))'
        BY DEF AnswersAddUp
      <4>1. ReceivedFrom(c, Main) \o BeingSent(c) = AnswersTo(c, Len(forwarded[Main]))
        BY <3>1 DEF AnswersInv, AnswersAddUp
      <4>2. ReceivedFrom(c, Main)' = ReceivedFrom(c, Main)
        BY <3>1 DEF ReceivedFrom
      <4>3. AnswersTo(c, Len(forwarded[Main]))' = AnswersTo(c, Len(forwarded[Main]))
        BY <3>2 DEF AnswersTo
      <4>4. BeingSent(c) = << >> /\ BeingSent(c)' = << >>
        BY <3>1 DEF BeingSent
      <4> QED BY <4>1, <4>2, <4>3, <4>4
    <3>4. \A n \in 1 .. Len(accepted'[Main]) :
            Reaches(accepted[Main][n].to, accepted[Main][n].asker)'
      <4>1. \A n \in 1 .. Len(accepted[Main]) : accepted[Main][n].asker \in Connection
        BY DEF LogInv, Response
      <4> QED BY <3>2, <4>1, ReachesStands DEF AnswersInv
    <3> QED BY <3>1, <3>3, <3>4, ReachesStands DEF AnswersInv
  <2>5. CASE \/ StartWalk /\ UNCHANGED <<sendVars, process>>
             \/ WalkOn /\ UNCHANGED sendVars
    <3>1. UNCHANGED <<received, misdirected, accepted, forwarded>>
      BY <2>5 DEF StartWalk, WalkOn, sendVars
    <3>2. consumer \in {"start", "walk"} /\ element.source # Main
      BY <2>5 DEF StartWalk, WalkOn, WalkInv
    <3>3. consumer' = "send" => UNCHANGED element
      <4>1. ASSUME NEW l, NEW left, WalkTo(l, left)
            PROVE  consumer' = "send" => UNCHANGED element
        BY <4>1 DEF WalkTo
      <4>2. CASE StartWalk
        BY <4>1, <4>2 DEF StartWalk
      <4>3. CASE WalkOn
        BY <4>1, <4>3 DEF WalkOn, walk_on, consumerVars
      <4> QED BY <2>5, <4>2, <4>3
    <3>4. ~(consumer' = "send" /\ element'.source = Main) /\ consumer # "send"
      BY <3>2, <3>3
    <3> QED BY <2>1, <3>1, <3>4, AnswersStand
  <2> QED BY <1>5, <2>2, <2>3, <2>4, <2>5 DEF ConsumerStep
<1> QED BY <1>2, <1>3, <1>4, <1>5 DEF Next

-----------------------------------------------------------------------------
(* All of it is inductive together.                                        *)
DeliveryInv ==
    /\ MainInv
    /\ ListsInv
    /\ SubscriptionsInv
    /\ LogInv
    /\ WalkInv
    /\ ReceivedInv
    /\ OwedInv
    /\ LateInv
    /\ AnswersInv

LEMMA DeliveryInvInit == Init => DeliveryInv
<1> SUFFICES ASSUME Init PROVE DeliveryInv
  OBVIOUS
<1>1. OwedInv
  BY DEF Init, OwedInv
<1>2. LateInv
  BY DEF Init, LateInv
<1> QED BY <1>1, <1>2, MainInvInit, ListsInvInit, SubscriptionsInvInit, LogInvInit, WalkInvInit,
           ReceivedInvInit, AnswersInvInit DEF DeliveryInv

LEMMA DeliveryInvIsInvariant == Spec => []DeliveryInv
<1>1. DeliveryInv /\ [Next]_vars => DeliveryInv'
  BY MainInvStep, ListsInvStep, SubscriptionsInvStep, LogInvStep, WalkInvStep, ReceivedInvStep,
     OwedInvStep, LateInvStep, AnswersInvStep DEF DeliveryInv
<1> QED BY <1>1, DeliveryInvInit, PTL DEF Spec

-----------------------------------------------------------------------------
(* Every variable of the two threads and of the clients keeps to its type; *)
(* a topic's list is never more than one node longer than its limit.       *)
THEOREM BrokerTypesHold == Spec => []BrokerTypeOK
<1>1. DeliveryInv => BrokerTypeOK
  BY DEF DeliveryInv, BrokerTypeOK, MainInv, MainTypeOK, ListsInv, ControlTypeOK, WalkInv,
         ConsumerTypeOK
<1> QED BY <1>1, DeliveryInvIsInvariant, PTL

(* The topics' lists agree with the commands executed, through every       *)
(* mixture of commands, rounds, leaving clients and walks.                 *)
THEOREM ListsAgreeWithCommands == Spec => []SubscriptionsAgreeWithCommands
<1>1. DeliveryInv => SubscriptionsAgreeWithCommands
  BY DEF DeliveryInv, SubscriptionsInv
<1> QED BY <1>1, DeliveryInvIsInvariant, PTL

(* No client sees a topic's messages out of the order of their             *)
(* publication, even when a walk reads freed nodes.                        *)
THEOREM TopicsAreReceivedInOrder == Spec => []MessagesInOrder
<1>1. DeliveryInv => MessagesInOrder
  BY DEF DeliveryInv, ReceivedInv
<1> QED BY <1>1, DeliveryInvIsInvariant, PTL

(* A subscriber that stays gets every message published while it was       *)
(* subscribed, whatever happens to the list during the walk, as long as    *)
(* the walk never reads a freed node.                                      *)
THEOREM StayingSubscribersMissNothing == Spec => []SubscribersMissNothing
<1>1. DeliveryInv => SubscribersMissNothing
  BY DEF DeliveryInv, OwedInv, OwedStands, OnItsWay, SubscribersMissNothing
<1> QED BY <1>1, DeliveryInvIsInvariant, PTL

(* Unsubscribing ends delivery: at most the one message that was being     *)
(* sent arrives afterwards, unless a walk went astray or a handle changed  *)
(* hands.                                                                  *)
THEOREM UnsubscribingEndsDelivery == Spec => []AtMostOneAfterUnsubscribing
<1>1. DeliveryInv => AtMostOneAfterUnsubscribing
  BY DEF DeliveryInv, LateInv, AtMostOneAfterUnsubscribing
<1> QED BY <1>1, DeliveryInvIsInvariant, PTL

(* Every query of a client that stays is answered once, in the order of    *)
(* its queries, on its own connection, unless a handle changed hands.      *)
THEOREM QueriesAreAnsweredOnce == Spec => []AnswersConserved
<1>1. DeliveryInv => AnswersConserved
  BY DEF DeliveryInv, AnswersInv, AnswersAddUp, AnswersConserved
<1> QED BY <1>1, DeliveryInvIsInvariant, PTL
=============================================================================
