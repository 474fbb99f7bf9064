----------------------------- MODULE Selection ------------------------------
(* The elements of q at the places in K, in q's order: what SelectSeq does *)
(* for a test, here for a set, and as a function, which the proofs need.   *)
EXTENDS Naturals, Sequences

Selected(q, K) ==
    LET upTo[k \in 0 .. Len(q)] ==
          IF k = 0 THEN << >>
          ELSE IF k \in K THEN Append(upTo[k - 1], q[k]) ELSE upTo[k - 1]
    IN  upTo[Len(q)]
=============================================================================
