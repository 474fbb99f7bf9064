--------------------------- MODULE MCConversation ---------------------------
(* Instances of Conversation for TLC.                                      *)
EXTENDS Conversation

CONSTANTS c1, c2

Known(operation) == [operation |-> operation, known |-> TRUE]
Unknown(operation) == [operation |-> operation, known |-> FALSE]

(* One who subscribes, and again, or asks; and one who publishes or asks.  *)
Users == (c1 :> <<{Known("subscribe")}, {Known("subscribe"), Known("topic_exists")}>>)
      @@ (c2 :> <<{Known("publish"), Unknown("subscriber_number")}>>)

(* A topic or a message may hold a question.                               *)
InnerQuestion == {Known("topic_exists")}
=============================================================================
