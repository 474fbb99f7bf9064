-------------------------------- MODULE Fifo --------------------------------
(***************************************************************************)
(* What a queue of the broker promises to the thread that fills it and to  *)
(* the thread that empties it: items come out in the order they went in,   *)
(* each exactly once.  `taken' is the item the last Take returned.         *)
(***************************************************************************)
EXTENDS Sequences

CONSTANTS Item,      \* what may be queued
          NoItem     \* the value of `taken' before the first Take

VARIABLES items, taken

fifoVars == <<items, taken>>

Init == items = << >> /\ taken = NoItem

Add(i) == items' = Append(items, i) /\ UNCHANGED taken

Take == /\ items # << >>
        /\ taken' = Head(items)
        /\ items' = Tail(items)

Next == Take \/ \E i \in Item : Add(i)

Spec == Init /\ [][Next]_fifoVars
=============================================================================
