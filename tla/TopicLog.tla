------------------------------ MODULE TopicLog ------------------------------
(***************************************************************************)
(* What the broker's threads promise to whoever feeds them: everything     *)
(* accepted from a source (a topic, or the main thread's responses) is     *)
(* handed to the network in the order it was accepted, nothing twice and   *)
(* nothing skipped; different sources are independent of each other.       *)
(***************************************************************************)
EXTENDS Naturals, Sequences

CONSTANTS Source, Message

VARIABLES accepted,    \* accepted[s]: what came from s, oldest first
          forwarded    \* forwarded[s]: what was sent on

logVars == <<accepted, forwarded>>

Init == /\ accepted = [s \in Source |-> << >>]
        /\ forwarded = [s \in Source |-> << >>]

Accept(s, m) == /\ accepted' = [accepted EXCEPT ![s] = Append(@, m)]
                /\ UNCHANGED forwarded

Forward(s) == /\ Len(forwarded[s]) < Len(accepted[s])
              /\ forwarded' = [forwarded EXCEPT
                    ![s] = Append(@, accepted[s][Len(@) + 1])]
              /\ UNCHANGED accepted

Next == \E s \in Source : Forward(s) \/ \E m \in Message : Accept(s, m)

Spec == Init /\ [][Next]_logVars
=============================================================================
