---------------------------- MODULE SocketRoster ----------------------------
(***************************************************************************)
(* What a socket list promises to main, the only thread that changes it:   *)
(* sockets enter at the front, as often as they are added, and a removal   *)
(* takes out the occurrence nearest to the front, or nothing.              *)
(***************************************************************************)
EXTENDS Naturals, Sequences, SequencesExt

CONSTANT Socket

VARIABLES roster,     \* the sockets, first one first
          length      \* what the program believes the list's length to be

rosterVars == <<roster, length>>

Init == roster = << >> /\ length = 0

Join(s) == roster' = Cons(s, roster) /\ length' = length + 1

Leave(s) == /\ s \in ToSet(roster)
            /\ roster' = RemoveFirst(roster, s)
            /\ length' = length - 1

Next == \E s \in Socket : Join(s) \/ Leave(s)

Spec == Init /\ [][Next]_rosterVars
=============================================================================
