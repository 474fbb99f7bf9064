------------------------------ MODULE MCBroker ------------------------------
(* Small sets of commands for Broker's runs, and how many of them each     *)
(* connection sends.                                                       *)
EXTENDS Broker

CONSTANTS c1, c2

Commands(operations, topics) == [operation : operations, topic : topics]

(* Whatever bears on who gets which message of the last topic, and what an *)
(* answer says of it; a topic that does not exist.                         *)
DeliveryCommands ==
    Commands({"publish", "subscribe", "unsubscribe", "subscriber_number"}, {TOPICS_NUM})
      \cup Commands({"topic_exists"}, {0})
TwoEach == [c \in Connection |-> 2]

(* A question, and the commands its answer and the walks depend on.        *)
QuestionCommands == Commands({"subscriber_number", "subscribe", "publish"}, {TOPICS_NUM})
OneAndTwo == [c \in Connection |-> IF c = c1 THEN 1 ELSE 2]

(* For the safety runs: connections and handles are interchangeable.       *)
Interchangeable == Permutations(Connection) \cup Permutations(Handle)
=============================================================================
