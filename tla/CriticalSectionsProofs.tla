----------------------- MODULE CriticalSectionsProofs -----------------------
(* That no two threads of the broker ever wait for each other's critical   *)
(* sections, and that nobody sleeps or waits for a client while inside     *)
(* one, whatever the number of topics.                                     *)
(*                                                                         *)
(* The sections have an order, and a thread enters one only while all the  *)
(* others it is inside come before it.  That is a property of the code of  *)
(* each function, from each of its points on, and is proved the way the    *)
(* code is put together: a point (the code that is left, the sections that *)
(* are held there, whether the flag is known to be set) is Safe if it lies *)
(* in a set of points every one of which does only what is allowed and     *)
(* goes on to points of the same set; a loop leads back into that set.     *)
EXTENDS CriticalSections, RosterLemmas

-----------------------------------------------------------------------------
(* The sections a thread is inside, and how often it entered each.         *)
Held == [CriticalSection -> Nat]
Free == [s \in CriticalSection |-> 0]
In(h, s) == [h EXCEPT ![s] = @ + 1]
Out(h, s) == [h EXCEPT ![s] = @ - 1]

Rank(s) == IF s[1] \in {"message_queue", "outgoing_buffer"} THEN 1
           ELSE IF s[1] = "printf" THEN 2
           ELSE IF s[1] = "subscribers" THEN 3 ELSE 4

(* s is entered again, or comes after everything that is held.             *)
MayEnter(h, s) ==
    h[s] > 0 \/ \A r \in CriticalSection : h[r] > 0 => Rank(r) < Rank(s)

LEMMA SectionsAreRanked ==
  /\ \A t \in Topic : /\ message_queue(t) \in CriticalSection /\ Rank(message_queue(t)) = 1
                      /\ subscribers(t) \in CriticalSection /\ Rank(subscribers(t)) = 3
  /\ outgoing_buffer \in CriticalSection /\ Rank(outgoing_buffer) = 1
  /\ printf_crit_section \in CriticalSection /\ Rank(printf_crit_section) = 2
  /\ shutting_down \in CriticalSection /\ Rank(shutting_down) = 4
  /\ \A s \in CriticalSection : Rank(s) \in 1 .. 4 /\ (Rank(s) = 4 => s = shutting_down)
  BY DEF CriticalSection, Rank, message_queue, subscribers, outgoing_buffer,
         printf_crit_section, shutting_down

LEMMA InAndOut ==
  ASSUME NEW h \in Held, NEW s \in CriticalSection
  PROVE  /\ In(h, s) \in Held /\ Out(In(h, s), s) = h /\ In(h, s)[s] > 0
         /\ \A r \in CriticalSection : In(h, s)[r] = IF r = s THEN h[s] + 1 ELSE h[r]
<1>1. /\ In(h, s) \in Held
      /\ \A r \in CriticalSection : In(h, s)[r] = IF r = s THEN h[s] + 1 ELSE h[r]
  BY DEF In, Held
<1>2. \A r \in CriticalSection : Out(In(h, s), s)[r] = h[r]
  BY <1>1 DEF Out, Held
<1>3. Out(In(h, s), s) \in [CriticalSection -> Int]
  BY <1>1 DEF Out, Held
<1>4. Out(In(h, s), s) = h
  <2>1. h \in [CriticalSection -> Int]
    BY DEF Held
  <2> HIDE DEF Out
  <2> QED BY <1>2, <1>3, <2>1
<1> QED BY <1>1, <1>4 DEF Held

LEMMA FreeMayEnter ==
  ASSUME NEW s \in CriticalSection
  PROVE  Free \in Held /\ MayEnter(Free, s)
  BY DEF Free, Held, MayEnter

(* Once more inside a section that comes before s.                         *)
LEMMA InMayEnter ==
  ASSUME NEW h \in Held, NEW r \in CriticalSection, NEW s \in CriticalSection,
         MayEnter(h, s), Rank(r) < Rank(s)
  PROVE  MayEnter(In(h, r), s)
<1>1. \A x \in CriticalSection : In(h, r)[x] = IF x = r THEN h[r] + 1 ELSE h[x]
  BY InAndOut
<1> QED BY <1>1 DEF MayEnter, Held

LEMMA AgainMayEnter ==
  ASSUME NEW h \in Held, NEW r \in CriticalSection, NEW s \in CriticalSection, h[s] > 0
  PROVE  MayEnter(h, s) /\ In(h, r)[s] > 0
<1>1. \A x \in CriticalSection : In(h, r)[x] = IF x = r THEN h[r] + 1 ELSE h[x]
  BY InAndOut
<1> QED BY <1>1 DEF MayEnter, Held

LEMMA LastMayEnter ==
  ASSUME NEW h \in Held
  PROVE  MayEnter(h, shutting_down)
  BY SectionsAreRanked DEF MayEnter

-----------------------------------------------------------------------------
(* Sequences of whatever elements.                                         *)
IsSeq(c) == \E S : c \in Seq(S)

LEMMA ConcatSeq ==
  ASSUME NEW a, NEW b, IsSeq(a), IsSeq(b)
  PROVE  IsSeq(a \o b)
<1>1. PICK S, T : a \in Seq(S) /\ b \in Seq(T)
  BY DEF IsSeq
<1>2. a \in Seq(S \cup T) /\ b \in Seq(S \cup T)
  BY <1>1, SeqMonotonic
<1> QED BY <1>2, ConcatProperties DEF IsSeq

LEMMA ConcatAssoc ==
  ASSUME NEW a, NEW b, NEW c, IsSeq(a), IsSeq(b), IsSeq(c)
  PROVE  (a \o b) \o c = a \o (b \o c)
<1>1. PICK S, T, U : a \in Seq(S) /\ b \in Seq(T) /\ c \in Seq(U)
  BY DEF IsSeq
<1> DEFINE V == S \cup T \cup U
<1>2. a \in Seq(V) /\ b \in Seq(V) /\ c \in Seq(V)
  BY <1>1, SeqMonotonic
<1> QED BY <1>2, ConcatAssociative

LEMMA EmptyIsSeq ==
  IsSeq(<< >>) /\ \A c : IsSeq(c) => << >> \o c = c /\ c \o << >> = c
<1>1. << >> \in Seq({})
  BY EmptySeq
<1>2. ASSUME NEW c, IsSeq(c) PROVE << >> \o c = c /\ c \o << >> = c
  BY <1>2, ConcatEmptySeq DEF IsSeq
<1> QED BY <1>1, <1>2 DEF IsSeq

(* One operation, and what comes after it.                                 *)
LEMMA OneFirst ==
  ASSUME NEW op, NEW rest, IsSeq(rest)
  PROVE  /\ IsSeq(<<op>>) /\ IsSeq(<<op>> \o rest) /\ <<op>> \o rest # << >>
         /\ Head(<<op>> \o rest) = op /\ Tail(<<op>> \o rest) = rest
<1>1. PICK S : rest \in Seq(S)
  BY DEF IsSeq
<1> DEFINE T == S \cup {op}
<1>2. rest \in Seq(T) /\ <<op>> \in Seq(T)
  <2>1. rest \in Seq(T)
    BY <1>1, SeqMonotonic
  <2>2. op \in T
    OBVIOUS
  <2> HIDE DEF T
  <2> QED BY <2>1, <2>2
<1> HIDE DEF T
<1> DEFINE c == <<op>> \o rest
<1>3. /\ c \in Seq(T) /\ Len(c) = 1 + Len(rest) /\ Len(rest) \in Nat
      /\ \A i \in 1 .. 1 + Len(rest) : c[i] = IF i <= 1 THEN <<op>>[i] ELSE rest[i - 1]
  <2>1. Len(<<op>>) = 1 /\ Len(rest) \in Nat
    BY <1>2
  <2> QED BY <1>2, <2>1, ConcatProperties
<1> HIDE DEF c
<1>4. c # << >> /\ Head(c) = op
  BY <1>3
<1>5. Tail(c) = rest
  <2>1. Tail(c) \in Seq(T) /\ Len(Tail(c)) = Len(rest)
    BY <1>3, <1>4
  <2>2. \A i \in 1 .. Len(rest) : Tail(c)[i] = rest[i]
    BY <1>3, <1>4
  <2> QED BY <1>2, <2>1, <2>2, SeqEqual
<1> QED BY <1>2, <1>3, <1>4, <1>5 DEF IsSeq, c

-----------------------------------------------------------------------------
(* What is allowed at a point whose code is c, where h is held and f says  *)
(* that the flag is known to be set, if the thread may go on to Z.         *)
Does(op, rest, h, f, Z) ==
    /\ op.do = "enter" => op.section \in CriticalSection /\ MayEnter(h, op.section)
                            /\ <<rest, In(h, op.section), f>> \in Z
    /\ op.do = "leave" => op.section \in CriticalSection /\ h[op.section] > 0
                            /\ <<rest, Out(h, op.section), f>> \in Z
    /\ op.do = "sleep" => op.section \in CriticalSection /\ h = In(Free, op.section)
                            /\ <<<<[do |-> "asleep", section |-> op.section]>> \o rest, Free, f>> \in Z
    /\ op.do = "asleep" => h = Free /\ <<Enter(op.section) \o rest, h, f>> \in Z
    /\ op.do = "send" => (f \/ h = Free) /\ <<rest, h, f>> \in Z
    /\ op.do = "set" => <<rest, h, f>> \in Z
    /\ op.do = "while" => /\ <<rest, h, f>> \in Z
                          /\ <<is_shutting_down(<< >>, Sleep(op.section) \o <<op>>) \o rest, h, f>> \in Z
    /\ op.do = "repeat" => /\ <<rest, h, f>> \in Z
                           /\ <<(op.body \o <<op>>) \o rest, h, f>> \in Z
    /\ op.do = "one of" => \A path \in op.paths : <<path \o rest, h, f>> \in Z
    /\ op.do = "if" => /\ <<op.yes \o rest, h, TRUE>> \in Z \/ <<op.yes \o rest, h, f>> \in Z
                       /\ <<op.no \o rest, h, f>> \in Z

Step(c, h, f, Z) == Does(Head(c), Tail(c), h, f, Z)

(* At its end a thread is inside nothing.                                  *)
Allowed(c, h, f, Z) ==
    /\ h \in Held /\ f \in BOOLEAN
    /\ \/ c = << >> /\ h = Free
       \/ c # << >> /\ IsSeq(c) /\ Step(c, h, f, Z)

(* X is closed if what is done at its points is allowed and goes on to X   *)
(* or, which may remain to be shown, to Y.                                 *)
Closed(X, Y) == \A c, h, f : <<c, h, f>> \in X => Allowed(c, h, f, X \cup Y)
Safe(c, h, f, Y) == \E X : Closed(X, Y) /\ <<c, h, f>> \in X \cup Y

LEMMA AllowedPointwise ==
  ASSUME NEW c, NEW h, NEW f, NEW Y, NEW Z, Allowed(c, h, f, Y),
         \A d, g, e : <<d, g, e>> \in Y => <<d, g, e>> \in Z
  PROVE  Allowed(c, h, f, Z)
<1>1. ASSUME NEW op, NEW rest, Does(op, rest, h, f, Y) PROVE Does(op, rest, h, f, Z)
  BY <1>1 DEF Does
<1> QED BY <1>1 DEF Allowed, Step

LEMMA MoreIsAllowed ==
  ASSUME NEW c, NEW h, NEW f, NEW Y, NEW Z, Y \subseteq Z, Allowed(c, h, f, Y)
  PROVE  Allowed(c, h, f, Z)
  BY AllowedPointwise

LEMMA SafeIsAllowed ==
  ASSUME NEW c, NEW h, NEW f, Safe(c, h, f, {})
  PROVE  \E Z : Allowed(c, h, f, Z) /\ \A d, g, e : <<d, g, e>> \in Z => Safe(d, g, e, {})
<1>1. PICK X : Closed(X, {}) /\ <<c, h, f>> \in X \cup {}
  BY DEF Safe
<1>2. Allowed(c, h, f, X \cup {})
  BY <1>1 DEF Closed
<1> QED BY <1>1, <1>2 DEF Safe

LEMMA SafeStaysSafe ==
  ASSUME NEW c, NEW h, NEW f, NEW Y, NEW Z, Y \subseteq Z, Safe(c, h, f, Y)
  PROVE  Safe(c, h, f, Z)
<1>1. PICK X : Closed(X, Y) /\ <<c, h, f>> \in X \cup Y
  BY DEF Safe
<1>2. X \cup Y \subseteq X \cup Z
  OBVIOUS
<1>3. Closed(X, Z)
  BY <1>1, <1>2, MoreIsAllowed DEF Closed
<1> QED BY <1>1, <1>2, <1>3 DEF Safe

(* A point is safe if all that it goes on to is safe or leads back to it.  *)
LEMMA LoopIsSafe ==
  ASSUME NEW c, NEW h, NEW f, NEW T, NEW Y,
         \A d, g, e : <<d, g, e>> \in T => Safe(d, g, e, Y \cup {<<c, h, f>>}),
         Allowed(c, h, f, T)
  PROVE  Safe(c, h, f, Y)
<1> DEFINE q == <<c, h, f>>
           Y2 == Y \cup {q}
           Of(p) == CHOOSE X : Closed(X, Y2) /\ p \in X \cup Y2
           TT == {p \in T : Closed(Of(p), Y2) /\ p \in Of(p) \cup Y2}
           W == UNION {Of(p) : p \in TT}
           Points == W \cup {q}
<1>1. ASSUME NEW d, NEW g, NEW e, <<d, g, e>> \in T PROVE <<d, g, e>> \in TT
  <2>1. \E X : Closed(X, Y2) /\ <<d, g, e>> \in X \cup Y2
    BY <1>1 DEF Safe
  <2> QED BY <1>1, <2>1
<1>2. ASSUME NEW p \in TT PROVE Of(p) \cup Y2 \subseteq Points \cup Y
  OBVIOUS
<1>3. \A x \in W : \E p \in TT : x \in Of(p)
  OBVIOUS
<1>4. \A p \in TT : Closed(Of(p), Y2) /\ p \in Of(p) \cup Y2
  OBVIOUS
<1>5. q \in Points /\ \A x \in Points : x \in W \/ x = q
  OBVIOUS
<1>6. \A d, g, e : <<d, g, e>> = q => d = c /\ g = h /\ e = f
  OBVIOUS
<1>7. q = <<c, h, f>>
  OBVIOUS
<1> HIDE DEF q, Y2, Of, TT, W, Points
<1>8. ASSUME NEW d, NEW g, NEW e, <<d, g, e>> \in Points
      PROVE  Allowed(d, g, e, Points \cup Y)
  <2>1. CASE <<d, g, e>> \in W
    <3>1. PICK p \in TT : <<d, g, e>> \in Of(p)
      BY <1>3, <2>1
    <3>2. Allowed(d, g, e, Of(p) \cup Y2)
      BY <1>4, <3>1 DEF Closed
    <3> QED BY <1>2, <3>2, MoreIsAllowed
  <2>2. CASE <<d, g, e>> = q
    <3>1. \A x \in T : (\E a, b, k : x = <<a, b, k>>) => x \in Points \cup Y
      BY <1>1, <1>2, <1>4
    <3>2. Allowed(c, h, f, Points \cup Y)
      BY <3>1, AllowedPointwise
    <3> QED BY <1>6, <2>2, <3>2
  <2> QED BY <1>5, <1>8, <2>1, <2>2
<1>9. Closed(Points, Y)
  BY <1>8 DEF Closed
<1>10. q \in Points \cup Y
  BY <1>5
<1> QED BY <1>7, <1>9, <1>10 DEF Safe

LEMMA AheadIsSafe ==
  ASSUME NEW c, NEW h, NEW f, NEW T, NEW Y,
         \A d, g, e : <<d, g, e>> \in T => Safe(d, g, e, Y),
         Allowed(c, h, f, T)
  PROVE  Safe(c, h, f, Y)
<1> DEFINE Y2 == Y \cup {<<c, h, f>>}
<1>1. Y \subseteq Y2
  OBVIOUS
<1>2. \A d, g, e : <<d, g, e>> \in T => Safe(d, g, e, Y2)
  <2> HIDE DEF Y2
  <2> QED BY <1>1, SafeStaysSafe
<1> QED BY <1>2, LoopIsSafe

-----------------------------------------------------------------------------
(* Code that may be executed where h is held and goes on, if it goes on,   *)
(* where h2 is held; and code that is safe whatever would come after it.   *)
Good(c, f, h, h2) ==
    /\ IsSeq(c)
    /\ \A rest, Y : IsSeq(rest) /\ Safe(rest, h2, f, Y) => Safe(c \o rest, h, f, Y)
Ends(c, f, h) ==
    /\ IsSeq(c)
    /\ \A rest, Y : IsSeq(rest) => Safe(c \o rest, h, f, Y)

LEMMA GoodNothing ==
  ASSUME NEW f, NEW h
  PROVE  Good(<< >>, f, h, h)
  BY EmptyIsSeq DEF Good

LEMMA SafeThenSafe ==
  ASSUME NEW a, NEW b, NEW f, NEW h, NEW h1, NEW rest, NEW Y,
         Good(a, f, h, h1), IsSeq(b), IsSeq(rest), Safe(b \o rest, h1, f, Y)
  PROVE  IsSeq(a \o b) /\ Safe((a \o b) \o rest, h, f, Y)
<1>1. IsSeq(a) /\ IsSeq(a \o b) /\ IsSeq(b \o rest)
  BY ConcatSeq DEF Good
<1>2. Safe(a \o (b \o rest), h, f, Y)
  BY <1>1 DEF Good
<1>3. (a \o b) \o rest = a \o (b \o rest)
  BY <1>1, ConcatAssoc
<1> QED BY <1>1, <1>2, <1>3

LEMMA GoodThenGood ==
  ASSUME NEW a, NEW b, NEW f, NEW h, NEW h1, NEW h2, Good(a, f, h, h1), Good(b, f, h1, h2)
  PROVE  Good(a \o b, f, h, h2)
<1>1. IsSeq(a) /\ IsSeq(b) /\ IsSeq(a \o b)
  BY ConcatSeq DEF Good
<1>2. ASSUME NEW rest, NEW Y, IsSeq(rest), Safe(rest, h2, f, Y)
      PROVE  Safe((a \o b) \o rest, h, f, Y)
  <2>1. Safe(b \o rest, h1, f, Y)
    BY <1>2 DEF Good
  <2> QED BY <1>1, <1>2, <2>1, SafeThenSafe
<1> QED BY <1>1, <1>2 DEF Good

LEMMA GoodThenEnds ==
  ASSUME NEW a, NEW b, NEW f, NEW h, NEW h1, Good(a, f, h, h1), Ends(b, f, h1)
  PROVE  Ends(a \o b, f, h)
<1>1. IsSeq(a) /\ IsSeq(b) /\ IsSeq(a \o b)
  BY ConcatSeq DEF Good, Ends
<1>2. ASSUME NEW rest, NEW Y, IsSeq(rest) PROVE Safe((a \o b) \o rest, h, f, Y)
  <2>1. Safe(b \o rest, h1, f, Y)
    BY <1>2 DEF Ends
  <2> QED BY <1>1, <1>2, <2>1, SafeThenSafe
<1> QED BY <1>1, <1>2 DEF Ends

LEMMA GoodEnds ==
  ASSUME NEW c, NEW f, NEW h, NEW h2, Ends(c, f, h)
  PROVE  Good(c, f, h, h2)
  BY DEF Ends, Good

(* An operation is good if it is allowed before whatever is safe.          *)
LEMMA GoodOperation ==
  ASSUME NEW op, NEW f \in BOOLEAN, NEW h \in Held, NEW h2,
         \A rest, Y : IsSeq(rest) /\ Safe(rest, h2, f, Y) =>
            \E T : /\ \A d, g, e : <<d, g, e>> \in T => Safe(d, g, e, Y)
                   /\ Step(<<op>> \o rest, h, f, T)
  PROVE  Good(<<op>>, f, h, h2)
<1>1. IsSeq(<<op>>)
  BY OneFirst, EmptyIsSeq
<1>2. ASSUME NEW rest, NEW Y, IsSeq(rest), Safe(rest, h2, f, Y)
      PROVE  Safe(<<op>> \o rest, h, f, Y)
  <2>1. PICK T : /\ \A d, g, e : <<d, g, e>> \in T => Safe(d, g, e, Y)
                 /\ Step(<<op>> \o rest, h, f, T)
    BY <1>2
  <2>2. Allowed(<<op>> \o rest, h, f, T)
    BY <1>2, <2>1, OneFirst DEF Allowed
  <2> QED BY <2>1, <2>2, AheadIsSafe
<1> QED BY <1>1, <1>2 DEF Good

LEMMA GoodEnter ==
  ASSUME NEW s \in CriticalSection, NEW f \in BOOLEAN, NEW h \in Held, MayEnter(h, s)
  PROVE  Good(Enter(s), f, h, In(h, s))
<1> DEFINE op == [do |-> "enter", section |-> s]
<1>1. ASSUME NEW rest, NEW Y, IsSeq(rest), Safe(rest, In(h, s), f, Y)
      PROVE  \E T : /\ \A d, g, e : <<d, g, e>> \in T => Safe(d, g, e, Y)
                    /\ Step(<<op>> \o rest, h, f, T)
  <2> DEFINE T == {<<rest, In(h, s), f>>}
  <2>1. Head(<<op>> \o rest) = op /\ Tail(<<op>> \o rest) = rest
    BY <1>1, OneFirst
  <2>2. Step(<<op>> \o rest, h, f, T)
    <3>1. op.do = "enter" /\ op.section = s
      OBVIOUS
    <3>2. <<rest, In(h, s), f>> \in T
      OBVIOUS
    <3> HIDE DEF op, T
    <3> QED BY <2>1, <3>1, <3>2 DEF Step, Does
  <2>3. \A d, g, e : <<d, g, e>> \in T => Safe(d, g, e, Y)
    BY <1>1
  <2> QED BY <2>2, <2>3
<1> HIDE DEF op
<1>2. Good(<<op>>, f, h, In(h, s))
  BY <1>1, GoodOperation
<1> QED BY <1>2 DEF Enter, op

LEMMA GoodLeave ==
  ASSUME NEW s \in CriticalSection, NEW f \in BOOLEAN, NEW h \in Held
  PROVE  Good(Leave(s), f, In(h, s), h)
<1> DEFINE op == [do |-> "leave", section |-> s]
<1>1. ASSUME NEW rest, NEW Y, IsSeq(rest), Safe(rest, h, f, Y)
      PROVE  \E T : /\ \A d, g, e : <<d, g, e>> \in T => Safe(d, g, e, Y)
                    /\ Step(<<op>> \o rest, In(h, s), f, T)
  <2> DEFINE T == {<<rest, h, f>>}
  <2>1. Head(<<op>> \o rest) = op /\ Tail(<<op>> \o rest) = rest
    BY <1>1, OneFirst
  <2>2. Step(<<op>> \o rest, In(h, s), f, T)
    <3>1. op.do = "leave" /\ op.section = s
      OBVIOUS
    <3>2. <<rest, Out(In(h, s), s), f>> \in T /\ In(h, s)[s] > 0
      BY InAndOut
    <3> HIDE DEF op, T
    <3> QED BY <2>1, <3>1, <3>2 DEF Step, Does
  <2>3. \A d, g, e : <<d, g, e>> \in T => Safe(d, g, e, Y)
    BY <1>1
  <2> QED BY <2>2, <2>3
<1> HIDE DEF op
<1>2. In(h, s) \in Held
  BY InAndOut
<1>3. Good(<<op>>, f, In(h, s), h)
  BY <1>1, <1>2, GoodOperation
<1> QED BY <1>3 DEF Leave, op

(* Whoever sends is inside nothing, unless a shutdown has begun.           *)
LEMMA GoodSend ==
  ASSUME NEW f \in BOOLEAN, NEW h \in Held, f \/ h = Free
  PROVE  Good(Send, f, h, h)
<1> DEFINE op == [do |-> "send"]
<1>1. ASSUME NEW rest, NEW Y, IsSeq(rest), Safe(rest, h, f, Y)
      PROVE  \E T : /\ \A d, g, e : <<d, g, e>> \in T => Safe(d, g, e, Y)
                    /\ Step(<<op>> \o rest, h, f, T)
  <2> DEFINE T == {<<rest, h, f>>}
  <2>1. Head(<<op>> \o rest) = op /\ Tail(<<op>> \o rest) = rest
    BY <1>1, OneFirst
  <2>2. Step(<<op>> \o rest, h, f, T)
    <3>1. op.do = "send"
      OBVIOUS
    <3>2. <<rest, h, f>> \in T
      OBVIOUS
    <3> HIDE DEF op, T
    <3> QED BY <2>1, <3>1, <3>2 DEF Step, Does
  <2>3. \A d, g, e : <<d, g, e>> \in T => Safe(d, g, e, Y)
    BY <1>1
  <2> QED BY <2>2, <2>3
<1> HIDE DEF op
<1>2. Good(<<op>>, f, h, h)
  BY <1>1, GoodOperation
<1> QED BY <1>2 DEF Send, op

LEMMA GoodSetFlag ==
  ASSUME NEW f \in BOOLEAN, NEW h \in Held
  PROVE  Good(SetFlag, f, h, h)
<1> DEFINE op == [do |-> "set"]
<1>1. ASSUME NEW rest, NEW Y, IsSeq(rest), Safe(rest, h, f, Y)
      PROVE  \E T : /\ \A d, g, e : <<d, g, e>> \in T => Safe(d, g, e, Y)
                    /\ Step(<<op>> \o rest, h, f, T)
  <2> DEFINE T == {<<rest, h, f>>}
  <2>1. Head(<<op>> \o rest) = op /\ Tail(<<op>> \o rest) = rest
    BY <1>1, OneFirst
  <2>2. Step(<<op>> \o rest, h, f, T)
    <3>1. op.do = "set"
      OBVIOUS
    <3>2. <<rest, h, f>> \in T
      OBVIOUS
    <3> HIDE DEF op, T
    <3> QED BY <2>1, <3>1, <3>2 DEF Step, Does
  <2>3. \A d, g, e : <<d, g, e>> \in T => Safe(d, g, e, Y)
    BY <1>1
  <2> QED BY <2>2, <2>3
<1> HIDE DEF op
<1>2. Good(<<op>>, f, h, h)
  BY <1>1, GoodOperation
<1> QED BY <1>2 DEF SetFlag, op

LEMMA GoodOneOf ==
  ASSUME NEW paths, NEW f \in BOOLEAN, NEW h \in Held, NEW h2,
         \A path \in paths : Good(path, f, h, h2)
  PROVE  Good(OneOf(paths), f, h, h2)
<1> DEFINE op == [do |-> "one of", paths |-> paths]
<1>1. ASSUME NEW rest, NEW Y, IsSeq(rest), Safe(rest, h2, f, Y)
      PROVE  \E T : /\ \A d, g, e : <<d, g, e>> \in T => Safe(d, g, e, Y)
                    /\ Step(<<op>> \o rest, h, f, T)
  <2> DEFINE T == {<<path \o rest, h, f>> : path \in paths}
  <2>1. Head(<<op>> \o rest) = op /\ Tail(<<op>> \o rest) = rest
    BY <1>1, OneFirst
  <2>2. Step(<<op>> \o rest, h, f, T)
    <3>1. op.do = "one of" /\ op.paths = paths
      OBVIOUS
    <3>2. \A path \in paths : <<path \o rest, h, f>> \in T
      OBVIOUS
    <3> HIDE DEF op, T
    <3> QED BY <2>1, <3>1, <3>2 DEF Step, Does
  <2>3. \A path \in paths : Safe(path \o rest, h, f, Y)
    BY <1>1 DEF Good
  <2>4. \A d, g, e : <<d, g, e>> \in T => Safe(d, g, e, Y)
    BY <2>3
  <2> QED BY <2>2, <2>4
<1> HIDE DEF op
<1>2. Good(<<op>>, f, h, h2)
  BY <1>1, GoodOperation
<1> QED BY <1>2 DEF OneOf, op

LEMMA EndEnds ==
  ASSUME NEW f \in BOOLEAN, NEW h \in Held
  PROVE  Ends(End, f, h)
<1> DEFINE op == [do |-> "end"]
<1>1. ASSUME NEW rest, NEW Y, IsSeq(rest) PROVE Safe(<<op>> \o rest, h, f, Y)
  <2>1. Head(<<op>> \o rest) = op /\ Tail(<<op>> \o rest) = rest
    BY <1>1, OneFirst
  <2>2. Step(<<op>> \o rest, h, f, {})
    <3>1. op.do = "end"
      OBVIOUS
    <3> HIDE DEF op
    <3> QED BY <2>1, <3>1 DEF Step, Does
  <2>3. Allowed(<<op>> \o rest, h, f, {})
    BY <1>1, <2>2, OneFirst DEF Allowed
  <2> QED BY <2>3, AheadIsSafe
<1> HIDE DEF op
<1>2. IsSeq(<<op>>)
  BY EmptyIsSeq, OneFirst
<1> QED BY <1>1, <1>2 DEF Ends, End, op

(* What is done when the flag is set may rely on that.                     *)
LEMMA SafeIfFlag ==
  ASSUME NEW yes, NEW no, NEW f \in BOOLEAN, NEW h \in Held, NEW rest, NEW Y, IsSeq(rest),
         Safe(yes \o rest, h, TRUE, Y) \/ Safe(yes \o rest, h, f, Y), Safe(no \o rest, h, f, Y)
  PROVE  IsSeq(IfFlag(yes, no)) /\ Safe(IfFlag(yes, no) \o rest, h, f, Y)
<1> DEFINE op == [do |-> "if", yes |-> yes, no |-> no]
<1>1. Head(<<op>> \o rest) = op /\ Tail(<<op>> \o rest) = rest
  BY OneFirst
<1>2. PICK known : /\ known = TRUE \/ known = f
                   /\ Safe(yes \o rest, h, known, Y)
  OBVIOUS
<1> DEFINE T == {<<yes \o rest, h, known>>, <<no \o rest, h, f>>}
<1>3. Step(<<op>> \o rest, h, f, T)
  <2>1. op.do = "if" /\ op.yes = yes /\ op.no = no
    OBVIOUS
  <2>2. /\ <<yes \o rest, h, TRUE>> \in T \/ <<yes \o rest, h, f>> \in T
        /\ <<no \o rest, h, f>> \in T
    BY <1>2
  <2> HIDE DEF op, T
  <2> QED BY <1>1, <2>1, <2>2 DEF Step, Does
<1>4. \A d, g, e : <<d, g, e>> \in T => Safe(d, g, e, Y)
  BY <1>2
<1> HIDE DEF op, T
<1>5. Allowed(<<op>> \o rest, h, f, T)
  BY <1>3, OneFirst DEF Allowed
<1>6. IsSeq(<<op>>) /\ Safe(<<op>> \o rest, h, f, Y)
  BY <1>4, <1>5, AheadIsSafe, EmptyIsSeq, OneFirst
<1> QED BY <1>6 DEF IfFlag, op

LEMMA SafeTest ==
  ASSUME NEW yes, NEW no, NEW f \in BOOLEAN, NEW h \in Held, NEW rest, NEW Y,
         IsSeq(rest), IsSeq(yes), IsSeq(no),
         Safe(yes \o rest, h, TRUE, Y) \/ Safe(yes \o rest, h, f, Y), Safe(no \o rest, h, f, Y)
  PROVE  IsSeq(is_shutting_down(yes, no)) /\ Safe(is_shutting_down(yes, no) \o rest, h, f, Y)
<1> DEFINE s == shutting_down
           ifFlag == IfFlag(Leave(s) \o yes, Leave(s) \o no)
<1>1. s \in CriticalSection /\ MayEnter(h, s) /\ In(h, s) \in Held
  BY SectionsAreRanked, LastMayEnter, InAndOut
<1>2. ASSUME NEW known \in BOOLEAN PROVE Good(Leave(s), known, In(h, s), h)
  BY <1>1, GoodLeave
<1>3. ASSUME NEW known \in BOOLEAN, NEW c, IsSeq(c), Safe(c \o rest, h, known, Y)
      PROVE  Safe((Leave(s) \o c) \o rest, In(h, s), known, Y)
  BY <1>2, <1>3, SafeThenSafe
<1>4. /\ \/ Safe((Leave(s) \o yes) \o rest, In(h, s), TRUE, Y)
         \/ Safe((Leave(s) \o yes) \o rest, In(h, s), f, Y)
      /\ Safe((Leave(s) \o no) \o rest, In(h, s), f, Y)
  BY <1>3
<1> HIDE DEF s
<1>5. IsSeq(ifFlag) /\ Safe(ifFlag \o rest, In(h, s), f, Y)
  BY <1>1, <1>4, SafeIfFlag
<1> HIDE DEF ifFlag
<1>6. Good(Enter(s), f, h, In(h, s))
  BY <1>1, GoodEnter
<1>7. IsSeq(Enter(s) \o ifFlag) /\ Safe((Enter(s) \o ifFlag) \o rest, h, f, Y)
  BY <1>5, <1>6, SafeThenSafe
<1> QED BY <1>7 DEF is_shutting_down, ifFlag, s

LEMMA GoodTest ==
  ASSUME NEW yes, NEW no, NEW f \in BOOLEAN, NEW h \in Held, NEW h2,
         Good(yes, f, h, h2) \/ Ends(yes, TRUE, h), Good(no, f, h, h2)
  PROVE  Good(is_shutting_down(yes, no), f, h, h2)
<1>1. IsSeq(yes) /\ IsSeq(no)
  BY DEF Good, Ends
<1>2. ASSUME NEW rest, NEW Y, IsSeq(rest), Safe(rest, h2, f, Y)
      PROVE  /\ IsSeq(is_shutting_down(yes, no))
             /\ Safe(is_shutting_down(yes, no) \o rest, h, f, Y)
  <2>1. /\ Safe(yes \o rest, h, TRUE, Y) \/ Safe(yes \o rest, h, f, Y)
        /\ Safe(no \o rest, h, f, Y)
    BY <1>2 DEF Good, Ends
  <2> QED BY <1>1, <1>2, <2>1, SafeTest
<1>3. IsSeq(is_shutting_down(yes, no))
  <2>1. IsSeq(<< >>) /\ Safe(<< >>, h2, f, {<<<< >>, h2, f>>})
    <3>1. Closed({}, {<<<< >>, h2, f>>})
      BY DEF Closed
    <3> QED BY <3>1, EmptyIsSeq DEF Safe
  <2> QED BY <1>2, <2>1
<1> QED BY <1>2, <1>3 DEF Good

(* Sleeping leaves the only section held, and waking enters it again.      *)
LEMMA GoodSleep ==
  ASSUME NEW s \in CriticalSection, NEW f \in BOOLEAN
  PROVE  Good(Sleep(s), f, In(Free, s), In(Free, s))
<1> DEFINE op == [do |-> "sleep", section |-> s]
           woken == [do |-> "asleep", section |-> s]
<1>1. In(Free, s) \in Held /\ Free \in Held
  BY FreeMayEnter, InAndOut
<1>2. Good(Enter(s), f, Free, In(Free, s))
  BY FreeMayEnter, GoodEnter
<1>3. ASSUME NEW rest, NEW Y, IsSeq(rest), Safe(rest, In(Free, s), f, Y)
      PROVE  Safe(<<woken>> \o rest, Free, f, Y)
  <2> DEFINE T == {<<Enter(s) \o rest, Free, f>>}
  <2>1. Head(<<woken>> \o rest) = woken /\ Tail(<<woken>> \o rest) = rest
    BY <1>3, OneFirst
  <2>2. Step(<<woken>> \o rest, Free, f, T)
    <3>1. woken.do = "asleep" /\ woken.section = s
      OBVIOUS
    <3>2. <<Enter(s) \o rest, Free, f>> \in T
      OBVIOUS
    <3> HIDE DEF woken, T
    <3> QED BY <2>1, <3>1, <3>2 DEF Step, Does
  <2>3. Safe(Enter(s) \o rest, Free, f, Y)
    BY <1>2, <1>3 DEF Good
  <2>4. \A d, g, e : <<d, g, e>> \in T => Safe(d, g, e, Y)
    BY <2>3
  <2> HIDE DEF woken, T
  <2>5. Allowed(<<woken>> \o rest, Free, f, T)
    BY <1>1, <1>3, <2>2, OneFirst DEF Allowed
  <2> QED BY <2>4, <2>5, AheadIsSafe
<1>4. ASSUME NEW rest, NEW Y, IsSeq(rest), Safe(rest, In(Free, s), f, Y)
      PROVE  \E T : /\ \A d, g, e : <<d, g, e>> \in T => Safe(d, g, e, Y)
                    /\ Step(<<op>> \o rest, In(Free, s), f, T)
  <2> DEFINE T == {<<<<woken>> \o rest, Free, f>>}
  <2>1. Head(<<op>> \o rest) = op /\ Tail(<<op>> \o rest) = rest
    BY <1>4, OneFirst
  <2>2. Step(<<op>> \o rest, In(Free, s), f, T)
    <3>1. op.do = "sleep" /\ op.section = s
      OBVIOUS
    <3>2. <<<<[do |-> "asleep", section |-> s]>> \o rest, Free, f>> \in T
      OBVIOUS
    <3> HIDE DEF op, T
    <3> QED BY <2>1, <3>1, <3>2 DEF Step, Does
  <2>3. \A d, g, e : <<d, g, e>> \in T => Safe(d, g, e, Y)
    BY <1>3, <1>4
  <2> QED BY <2>2, <2>3
<1> HIDE DEF op
<1>5. Good(<<op>>, f, In(Free, s), In(Free, s))
  BY <1>1, <1>4, GoodOperation
<1> QED BY <1>5 DEF Sleep, op

LEMMA GoodRepeat ==
  ASSUME NEW body, NEW f \in BOOLEAN, NEW h \in Held, Good(body, f, h, h)
  PROVE  Good(Repeat(body), f, h, h)
<1> DEFINE op == [do |-> "repeat", body |-> body]
<1>1. IsSeq(<<op>>) /\ IsSeq(body)
  BY EmptyIsSeq, OneFirst DEF Good
<1>2. ASSUME NEW rest, NEW Y, IsSeq(rest), Safe(rest, h, f, Y)
      PROVE  Safe(<<op>> \o rest, h, f, Y)
  <2> DEFINE again == <<op>> \o rest
             round == (body \o <<op>>) \o rest
             Y2 == Y \cup {<<again, h, f>>}
             T == {<<rest, h, f>>, <<round, h, f>>}
  <2>1. Head(again) = op /\ Tail(again) = rest /\ IsSeq(again) /\ again # << >>
    BY <1>2, OneFirst
  <2>2. Step(again, h, f, T)
    <3>1. op.do = "repeat" /\ op.body = body
      OBVIOUS
    <3>2. <<rest, h, f>> \in T /\ <<(body \o <<op>>) \o rest, h, f>> \in T
      OBVIOUS
    <3> HIDE DEF op, T, again
    <3> QED BY <2>1, <3>1, <3>2 DEF Step, Does
  <2>3. Safe(rest, h, f, Y2)
    <3>1. Y \subseteq Y2
      OBVIOUS
    <3> HIDE DEF Y2
    <3> QED BY <1>2, <3>1, SafeStaysSafe
  <2>4. Safe(again, h, f, Y2)
    <3>1. <<again, h, f>> \in Y2
      OBVIOUS
    <3> HIDE DEF Y2, again
    <3>2. Closed({}, Y2)
      BY DEF Closed
    <3> QED BY <3>1, <3>2 DEF Safe
  <2>5. Safe(round, h, f, Y2)
    <3> HIDE DEF Y2, op
    <3> QED BY <1>1, <1>2, <2>4, SafeThenSafe
  <2>6. \A d, g, e : <<d, g, e>> \in T => Safe(d, g, e, Y2)
    <3> HIDE DEF Y2, round
    <3> QED BY <2>3, <2>5
  <2> HIDE DEF T, again
  <2>7. Allowed(again, h, f, T)
    BY <2>1, <2>2 DEF Allowed
  <2>8. Safe(again, h, f, Y)
    BY <2>6, <2>7, LoopIsSafe
  <2> QED BY <2>8 DEF again
<1> HIDE DEF op
<1>3. Good(<<op>>, f, h, h)
  BY <1>1, <1>2 DEF Good
<1> QED BY <1>3 DEF Repeat, op

LEMMA GoodWaitLoop ==
  ASSUME NEW s \in CriticalSection, NEW f \in BOOLEAN
  PROVE  Good(WaitLoop(s), f, In(Free, s), In(Free, s))
<1> DEFINE op == [do |-> "while", section |-> s]
           h == In(Free, s)
<1>1. IsSeq(<<op>>) /\ h \in Held
  BY EmptyIsSeq, OneFirst, FreeMayEnter, InAndOut
<1>2. Good(Sleep(s), f, h, h)
  BY GoodSleep
<1> HIDE DEF h
<1>3. ASSUME NEW rest, NEW Y, IsSeq(rest), Safe(rest, h, f, Y)
      PROVE  Safe(<<op>> \o rest, h, f, Y)
  <2> DEFINE again == <<op>> \o rest
             no == Sleep(s) \o <<op>>
             round == is_shutting_down(<< >>, no) \o rest
             Y2 == Y \cup {<<again, h, f>>}
             T == {<<rest, h, f>>, <<round, h, f>>}
  <2>1. Head(again) = op /\ Tail(again) = rest /\ IsSeq(again) /\ again # << >>
    BY <1>3, OneFirst
  <2>2. Step(again, h, f, T)
    <3>1. op.do = "while" /\ op.section = s
      OBVIOUS
    <3>2. /\ <<rest, h, f>> \in T
          /\ <<is_shutting_down(<< >>, Sleep(s) \o <<op>>) \o rest, h, f>> \in T
      OBVIOUS
    <3> HIDE DEF op, T, again
    <3> QED BY <2>1, <3>1, <3>2 DEF Step, Does
  <2>3. Safe(rest, h, f, Y2)
    <3>1. Y \subseteq Y2
      OBVIOUS
    <3> HIDE DEF Y2
    <3> QED BY <1>3, <3>1, SafeStaysSafe
  <2>4. Safe(again, h, f, Y2)
    <3>1. <<again, h, f>> \in Y2
      OBVIOUS
    <3> HIDE DEF Y2, again
    <3>2. Closed({}, Y2)
      BY DEF Closed
    <3> QED BY <3>1, <3>2 DEF Safe
  <2>5. IsSeq(no) /\ Safe(no \o rest, h, f, Y2)
    <3> HIDE DEF Y2, op
    <3> QED BY <1>1, <1>2, <1>3, <2>4, SafeThenSafe
  <2>6. Safe(round, h, f, Y2)
    <3> HIDE DEF Y2, no
    <3>1. IsSeq(<< >>) /\ << >> \o rest = rest
      BY <1>3, EmptyIsSeq
    <3>2. Safe(<< >> \o rest, h, f, Y2)
      BY <2>3, <3>1
    <3> QED BY <1>1, <1>3, <2>5, <3>1, <3>2, SafeTest
  <2>7. \A d, g, e : <<d, g, e>> \in T => Safe(d, g, e, Y2)
    <3> HIDE DEF Y2, round
    <3> QED BY <2>3, <2>6
  <2> HIDE DEF T, again
  <2>8. Allowed(again, h, f, T)
    BY <1>1, <2>1, <2>2 DEF Allowed
  <2>9. Safe(again, h, f, Y)
    BY <2>7, <2>8, LoopIsSafe
  <2> QED BY <2>9 DEF again
<1> HIDE DEF op
<1>4. Good(<<op>>, f, h, h)
  BY <1>1, <1>3 DEF Good
<1> QED BY <1>4 DEF WaitLoop, op, h

LEMMA GoodInside ==
  ASSUME NEW body, NEW s \in CriticalSection, NEW f \in BOOLEAN, NEW h \in Held,
         MayEnter(h, s), Good(body, f, In(h, s), In(h, s))
  PROVE  Good(Inside(s, body), f, h, h)
<1>1. Good(Enter(s), f, h, In(h, s)) /\ Good(Leave(s), f, In(h, s), h)
  BY GoodEnter, GoodLeave
<1>2. Good(Enter(s) \o body, f, h, In(h, s))
  BY <1>1, GoodThenGood
<1>3. Good((Enter(s) \o body) \o Leave(s), f, h, h)
  BY <1>1, <1>2, GoodThenGood
<1> QED BY <1>3 DEF Inside

LEMMA GoodTouch ==
  ASSUME NEW s \in CriticalSection, NEW f \in BOOLEAN, NEW h \in Held, MayEnter(h, s)
  PROVE  Good(Inside(s, << >>), f, h, h)
<1>1. Good(<< >>, f, In(h, s), In(h, s))
  BY GoodNothing
<1> QED BY <1>1, GoodInside

IsFlattening(g, q, n) ==
    g = [i \in 1 .. n |-> IF i = 1 THEN q[i] ELSE g[i - 1] \o q[i]]

LEMMA FlatteningExists ==
  ASSUME NEW q, NEW n \in Nat
  PROVE  \E g : IsFlattening(g, q, n)
<1> DEFINE Bad == {m \in Nat : ~ \E g : IsFlattening(g, q, m)}
<1> SUFFICES ASSUME Bad # {} PROVE FALSE
  OBVIOUS
<1>1. PICK m \in Bad : \A y \in Bad : m <= y
  <2>1. Bad \in SUBSET Nat
    OBVIOUS
  <2> HIDE DEF Bad
  <2> QED BY <2>1, LeastExists
<1>2. CASE m = 0
  <2> DEFINE g == [i \in 1 .. 0 |-> << >>]
  <2>1. IsFlattening(g, q, 0)
    BY DEF IsFlattening
  <2> QED BY <1>1, <1>2, <2>1
<1>3. CASE m # 0
  <2>1. m \in Nat /\ m - 1 \in Nat /\ m - 1 \notin Bad
    BY <1>1, <1>3
  <2>2. PICK g : IsFlattening(g, q, m - 1)
    BY <2>1
  <2> DEFINE last == IF m = 1 THEN q[m] ELSE g[m - 1] \o q[m]
             k == [i \in 1 .. m |-> IF i = m THEN last ELSE g[i]]
  <2>3. \A i \in 1 .. m - 1 : k[i] = g[i]
    BY <2>1
  <2>4. \A i \in 1 .. m - 1 : g[i] = IF i = 1 THEN q[i] ELSE g[i - 1] \o q[i]
    BY <2>2 DEF IsFlattening
  <2>5. \A i \in 1 .. m : k[i] = IF i = 1 THEN q[i] ELSE k[i - 1] \o q[i]
    <3> TAKE i \in 1 .. m
    <3>1. CASE i = m
      <4>1. k[m] = last /\ (m # 1 => k[m - 1] = g[m - 1])
        BY <2>1, <2>3
      <4> HIDE DEF k
      <4> QED BY <3>1, <4>1
    <3>2. CASE i # m
      <4>1. i \in 1 .. m - 1 /\ (i # 1 => i - 1 \in 1 .. m - 1)
        BY <2>1, <3>2
      <4>2. k[i] = g[i] /\ (i # 1 => k[i - 1] = g[i - 1])
        BY <2>3, <4>1
      <4> HIDE DEF k
      <4> QED BY <2>4, <4>1, <4>2
    <3> QED BY <3>1, <3>2
  <2>6. IsFlattening(k, q, m)
    <3>1. k = [i \in 1 .. m |-> k[i]]
      OBVIOUS
    <3> HIDE DEF k
    <3> QED BY <2>5, <3>1 DEF IsFlattening
  <2> HIDE DEF k
  <2> QED BY <1>1, <2>6
<1> QED BY <1>2, <1>3

(* The same is done for each of the topics, one after the other.           *)
LEMMA GoodForEach ==
  ASSUME NEW q, NEW f, NEW h, q = [t \in Topic |-> q[t]],
         \A t \in Topic : Good(q[t], f, h, h)
  PROVE  Good(FlattenSeq(q), f, h, h)
<1> DEFINE n == TOPICS_NUM
<1>1. n \in Nat /\ n >= 1 /\ Topic = 1 .. n
  BY CriticalSectionsAssumption DEF Topic
<1>2. Len(q) = n
  <2>1. \A t \in 1 .. n : q[t] \in {q[u] : u \in 1 .. n}
    OBVIOUS
  <2>2. q \in [1 .. n -> {q[u] : u \in 1 .. n}]
    BY <1>1, <2>1
  <2> QED BY <1>1, <2>2
<1> HIDE DEF n
<1>3. \E g : IsFlattening(g, q, Len(q))
  BY <1>1, <1>2, FlatteningExists
<1>4. PICK g : IsFlattening(g, q, n) /\ FlattenSeq(q) = g[n]
  <2>1. Len(q) # 0
    BY <1>1, <1>2
  <2>2. FlattenSeq(q) = (CHOOSE g : IsFlattening(g, q, Len(q)))[Len(q)]
    BY ONLY <2>1 DEF FlattenSeq, IsFlattening
  <2>3. IsFlattening(CHOOSE g : IsFlattening(g, q, Len(q)), q, Len(q))
    BY <1>3
  <2> QED BY <1>2, <2>2, <2>3
<1>5. \A i \in 1 .. n : g[i] = IF i = 1 THEN q[i] ELSE g[i - 1] \o q[i]
  BY <1>4 DEF IsFlattening
<1> DEFINE Bad == {i \in 1 .. n : ~ Good(g[i], f, h, h)}
<1>6. Bad = {}
  <2> SUFFICES ASSUME Bad # {} PROVE FALSE
    OBVIOUS
  <2>1. PICK i \in Bad : \A y \in Bad : i <= y
    <3>1. Bad \in SUBSET Nat
      BY <1>1
    <3> HIDE DEF Bad
    <3> QED BY <3>1, LeastExists
  <2>2. CASE i = 1
    BY <1>1, <1>5, <2>1, <2>2
  <2>3. CASE i # 1
    <3>1. i - 1 \in 1 .. n /\ i - 1 \notin Bad
      BY <1>1, <2>1, <2>3
    <3>2. Good(g[i - 1], f, h, h) /\ Good(q[i], f, h, h)
      BY <1>1, <2>1, <3>1
    <3>3. Good(g[i - 1] \o q[i], f, h, h)
      BY <3>2, GoodThenGood
    <3> QED BY <1>5, <2>1, <2>3, <3>3
  <2> QED BY <2>2, <2>3
<1> QED BY <1>1, <1>4, <1>6

-----------------------------------------------------------------------------
(* The functions, from the inside out.                                     *)

(* Where a message to a client is sent from: with nothing held, or, during *)
(* a shutdown, inside the outgoing buffer.                                 *)
SentFrom(f, h) == h = Free \/ (f = TRUE /\ h = In(Free, outgoing_buffer))

LEMMA SentFromBelow ==
  ASSUME NEW f \in BOOLEAN, NEW h, SentFrom(f, h)
  PROVE  /\ h \in Held /\ (f \/ h = Free) /\ MayEnter(h, printf_crit_section)
         /\ \A t \in Topic : MayEnter(h, subscribers(t))
<1>1. CASE h = Free
  BY <1>1, FreeMayEnter, SectionsAreRanked
<1>2. CASE f = TRUE /\ h = In(Free, outgoing_buffer)
  <2>1. \A s \in CriticalSection : Rank(s) > 1 => MayEnter(In(Free, outgoing_buffer), s)
    <3> TAKE s \in CriticalSection
    <3> HAVE Rank(s) > 1
    <3>1. Rank(outgoing_buffer) < Rank(s)
      BY SectionsAreRanked
    <3> QED BY <3>1, FreeMayEnter, SectionsAreRanked, InMayEnter
  <2> QED BY <1>2, <2>1, FreeMayEnter, SectionsAreRanked, InAndOut
<1> QED BY <1>1, <1>2 DEF SentFrom

LEMMA GoodPrinted ==
  ASSUME NEW f \in BOOLEAN, NEW h, SentFrom(f, h)
  PROVE  Good(printed, f, h, h)
  BY SentFromBelow, SectionsAreRanked, GoodTouch DEF printed

LEMMA GoodWaitAndSend ==
  ASSUME NEW f \in BOOLEAN, NEW h, SentFrom(f, h)
  PROVE  Good(wait_and_send, f, h, h)
<1>1. h \in Held /\ (f \/ h = Free)
  BY SentFromBelow
<1>2. Good(Send, f, h, h)
  BY <1>1, GoodSend
<1>3. \A path \in {<< >>, printed} : Good(path, f, h, h)
  BY GoodPrinted, GoodNothing
<1>4. Good(OneOf({<< >>, printed}), f, h, h)
  BY <1>1, <1>3, GoodOneOf
<1> QED BY <1>2, <1>4, GoodThenGood DEF wait_and_send

LEMMA GoodMessage ==
  ASSUME NEW t \in Topic, NEW f \in BOOLEAN, NEW h, SentFrom(f, h)
  PROVE  Good(message(t), f, h, h)
<1> DEFINE s == subscribers(t)
           round == Leave(s) \o send_to_client \o Enter(s)
<1>1. s \in CriticalSection /\ h \in Held /\ MayEnter(h, s) /\ In(h, s) \in Held
  BY SectionsAreRanked, SentFromBelow, InAndOut
<1> HIDE DEF s
<1>2. Good(Leave(s), f, In(h, s), h) /\ Good(Enter(s), f, h, In(h, s))
  BY <1>1, GoodLeave, GoodEnter
<1>3. Good(send_to_client, f, h, h)
  BY GoodWaitAndSend DEF send_to_client
<1>4. Good(Leave(s) \o send_to_client, f, In(h, s), h)
  BY <1>2, <1>3, GoodThenGood
<1>5. Good(round, f, In(h, s), In(h, s))
  BY <1>2, <1>4, GoodThenGood
<1> HIDE DEF round
<1>6. Good(Inside(s, Repeat(round)), f, h, h)
  BY <1>1, <1>5, GoodRepeat, GoodInside
<1>7. Good(printed \o Inside(s, Repeat(round)), f, h, h)
  BY <1>6, GoodPrinted, GoodThenGood
<1> QED BY <1>7 DEF message, round, s

LEMMA GoodToSubscribers ==
  ASSUME NEW f \in BOOLEAN, NEW h, SentFrom(f, h)
  PROVE  Good(send_subscription_message_or_response, f, h, h)
<1> DEFINE paths == {send_to_client} \cup {message(t) : t \in Topic}
<1>1. \A path \in paths : Good(path, f, h, h)
  BY GoodWaitAndSend, GoodMessage DEF send_to_client
<1>2. h \in Held
  BY SentFromBelow
<1> HIDE DEF paths
<1>3. Good(OneOf(paths), f, h, h)
  BY <1>1, <1>2, GoodOneOf
<1> QED BY <1>3 DEF send_subscription_message_or_response, paths

-----------------------------------------------------------------------------
(* What a thread calls when it is inside nothing.                          *)
IsGood(c) == Good(c, FALSE, Free, Free)

LEMMA BothAreGood ==
  ASSUME NEW a, NEW b, IsGood(a), IsGood(b)
  PROVE  IsGood(a \o b)
  BY GoodThenGood DEF IsGood

LEMMA EitherIsGood ==
  ASSUME NEW paths, \A path \in paths : IsGood(path)
  PROVE  IsGood(OneOf(paths))
<1>1. \A path \in paths : Good(path, FALSE, Free, Free)
  BY DEF IsGood
<1>2. Free \in Held
  BY FreeMayEnter, SectionsAreRanked
<1> QED BY <1>1, <1>2, GoodOneOf DEF IsGood

LEMMA TouchIsGood ==
  ASSUME NEW s \in CriticalSection
  PROVE  IsGood(Inside(s, << >>))
  BY FreeMayEnter, GoodTouch DEF IsGood

LEMMA OutputIsGood ==
  IsGood(<< >>) /\ IsGood(printed) /\ IsGood(notify_stats_manager)
<1>1. SentFrom(FALSE, Free)
  BY DEF SentFrom
<1> QED BY <1>1, GoodNothing, GoodPrinted, GoodWaitAndSend
        DEF IsGood, notify_stats_manager, send_to_stats_manager

(* Printing a list or a queue: its own section, entered inside printf's.   *)
LEMMA PrintingIsGood ==
  ASSUME NEW t \in Topic
  PROVE  IsGood(Inside(printf_crit_section, print_socket_list_unsafe(t)))
<1> DEFINE p == printf_crit_section
           s == subscribers(t)
<1>1. p \in CriticalSection /\ s \in CriticalSection /\ Rank(p) < Rank(s)
  BY SectionsAreRanked
<1>2. Free \in Held /\ MayEnter(Free, p) /\ MayEnter(Free, s) /\ In(Free, p) \in Held
  BY <1>1, FreeMayEnter, InAndOut
<1>3. MayEnter(In(Free, p), s)
  BY <1>1, <1>2, InMayEnter
<1> HIDE DEF p, s
<1>4. Good(Inside(s, << >>), FALSE, In(Free, p), In(Free, p))
  BY <1>1, <1>2, <1>3, GoodTouch
<1>5. Good(Inside(p, Inside(s, << >>)), FALSE, Free, Free)
  BY <1>1, <1>2, <1>4, GoodInside
<1> QED BY <1>5 DEF IsGood, print_socket_list_unsafe, p, s

LEMMA EnqueueIsGood ==
  ASSUME NEW t \in Topic
  PROVE  IsGood(enqueue(t))
<1> DEFINE q == message_queue(t)
           p == printf_crit_section
           h1 == In(Free, q)
           h2 == In(h1, p)
<1>1. q \in CriticalSection /\ p \in CriticalSection /\ Rank(q) < Rank(p)
  BY SectionsAreRanked
<1>2. Free \in Held /\ MayEnter(Free, q) /\ MayEnter(Free, p)
  BY <1>1, FreeMayEnter
<1>3. h1 \in Held /\ h1[q] > 0 /\ MayEnter(h1, p)
  BY <1>1, <1>2, InAndOut, InMayEnter
<1>4. h2 \in Held /\ h2[q] > 0
  <2> HIDE DEF h1
  <2> QED BY <1>1, <1>3, InAndOut, AgainMayEnter
<1>5. MayEnter(h2, q)
  <2> HIDE DEF h1, h2
  <2> QED BY <1>1, <1>4 DEF MayEnter
<1> HIDE DEF q, p
<1>6. Good(Inside(q, << >>), FALSE, h2, h2)
  <2> HIDE DEF h1, h2
  <2> QED BY <1>1, <1>4, <1>5, GoodTouch
<1>7. Good(Inside(p, Inside(q, << >>)), FALSE, h1, h1)
  <2>1. Good(Inside(q, << >>), FALSE, In(h1, p), In(h1, p))
    BY <1>6
  <2> HIDE DEF h1, h2
  <2> QED BY <1>1, <1>3, <2>1, GoodInside
<1>8. Good(Inside(q, Inside(p, Inside(q, << >>))), FALSE, Free, Free)
  <2>1. Good(Inside(p, Inside(q, << >>)), FALSE, In(Free, q), In(Free, q))
    BY <1>7
  <2> QED BY <1>1, <1>2, <2>1, GoodInside
<1> QED BY <1>8 DEF IsGood, enqueue, print_message_queue_unsafe, q, p

(* Waiting for a queue or the buffer, which is the only section held.      *)
LEMMA WaitingIsGood ==
  ASSUME NEW s \in CriticalSection
  PROVE  IsGood(Inside(s, WaitLoop(s) \o is_shutting_down(<< >>, << >>)))
<1>1. Free \in Held /\ MayEnter(Free, s) /\ In(Free, s) \in Held
  BY FreeMayEnter, InAndOut
<1>2. Good(WaitLoop(s), FALSE, In(Free, s), In(Free, s))
  BY GoodWaitLoop
<1>3. Good(is_shutting_down(<< >>, << >>), FALSE, In(Free, s), In(Free, s))
  <2>1. Good(<< >>, FALSE, In(Free, s), In(Free, s))
    BY GoodNothing
  <2> QED BY <1>1, <2>1, GoodTest
<1> DEFINE body == WaitLoop(s) \o is_shutting_down(<< >>, << >>)
<1>4. Good(body, FALSE, In(Free, s), In(Free, s))
  BY <1>2, <1>3, GoodThenGood
<1> HIDE DEF body
<1>5. Good(Inside(s, body), FALSE, Free, Free)
  BY <1>1, <1>4, GoodInside
<1> QED BY <1>5 DEF IsGood, body

LEMMA SectionsExist ==
  \A t \in Topic : message_queue(t) \in CriticalSection /\ subscribers(t) \in CriticalSection
  BY SectionsAreRanked

LEMMA CommandsAreGood ==
  ASSUME NEW t \in Topic
  PROVE  IsGood(publish(t)) /\ IsGood(subscribe(t)) /\ IsGood(unsubscribe(t))
<1> DEFINE print == Inside(printf_crit_section, print_socket_list_unsafe(t))
           added == add_to_start(t) \o print \o notify_stats_manager
           freed == print \o notify_stats_manager
<1>1. IsGood(publish(t))
  BY EnqueueIsGood, OutputIsGood, BothAreGood DEF publish
<1>2. IsGood(add_to_start(t)) /\ IsGood(free_node(t))
  BY SectionsExist, TouchIsGood DEF add_to_start, free_node
<1>3. IsGood(print)
  BY PrintingIsGood
<1> HIDE DEF print
<1>4. IsGood(added) /\ IsGood(freed)
  BY <1>2, <1>3, OutputIsGood, BothAreGood
<1>5. IsGood(OneOf({added, printed}))
  <2>1. \A path \in {added, printed} : IsGood(path)
    BY <1>4, OutputIsGood
  <2> QED BY <2>1, EitherIsGood
<1>6. IsGood(OneOf({freed, printed}))
  <2>1. \A path \in {freed, printed} : IsGood(path)
    BY <1>4, OutputIsGood
  <2> QED BY <2>1, EitherIsGood
<1>7. IsGood(subscribe(t))
  BY <1>5 DEF subscribe, print
<1>8. IsGood(unsubscribe(t))
  BY <1>2, <1>6, BothAreGood DEF unsubscribe, print
<1> QED BY <1>1, <1>7, <1>8

LEMMA ProductionIsGood ==
  IsGood(produce_new_message)
  BY SectionsAreRanked, WaitingIsGood DEF produce_new_message

LEMMA QueryIsGood ==
  IsGood(query)
<1>1. \A path \in {<< >>, notify_stats_manager} : IsGood(path)
  BY OutputIsGood
<1>2. IsGood(OneOf({<< >>, notify_stats_manager}))
  BY <1>1, EitherIsGood
<1> QED BY <1>2, ProductionIsGood, BothAreGood DEF query

LEMMA ForEachIsGood ==
  ASSUME NEW q, q = [t \in Topic |-> q[t]], \A t \in Topic : IsGood(q[t])
  PROVE  IsGood(FlattenSeq(q))
<1>1. \A t \in Topic : Good(q[t], FALSE, Free, Free)
  BY DEF IsGood
<1>2. Good(FlattenSeq(q), FALSE, Free, Free)
  BY <1>1, GoodForEach
<1> QED BY <1>2 DEF IsGood

LEMMA ClosingIsGood ==
  IsGood(connection_closed)
<1> DEFINE q == [t \in Topic |-> free_node(t)]
<1>1. \A t \in Topic : IsGood(q[t])
  BY SectionsExist, TouchIsGood DEF free_node
<1>2. q = [t \in Topic |-> q[t]]
  OBVIOUS
<1> HIDE DEF q
<1>3. IsGood(FlattenSeq(q))
  BY <1>1, <1>2, ForEachIsGood
<1> QED BY <1>3, OutputIsGood, BothAreGood DEF connection_closed, q

LEMMA MainCallsAreGood ==
  \A path \in MainCalls : IsGood(path)
  BY OutputIsGood, ClosingIsGood, QueryIsGood, CommandsAreGood DEF MainCalls

LEMMA SignalIsGood ==
  ASSUME NEW f \in BOOLEAN, NEW h \in Held
  PROVE  Good(signal_shut_down, f, h, h) /\ Ends(signal_shut_down \o End, f, h)
<1>1. Good(signal_shut_down, f, h, h)
  BY SectionsAreRanked, LastMayEnter, GoodTouch DEF signal_shut_down
<1>2. Ends(End, f, h)
  BY EndEnds
<1> QED BY <1>1, <1>2, GoodThenEnds

LEMMA ProducerIsGood ==
  ASSUME NEW t \in Topic
  PROVE  IsGood(produce(t))
<1>1. Free \in Held /\ Ends(signal_shut_down \o End, TRUE, Free)
  BY FreeMayEnter, SectionsAreRanked, SignalIsGood
<1>2. IsGood(dequeue(t))
  BY SectionsExist, WaitingIsGood DEF dequeue
<1>3. Good(dequeue(t) \o produce_new_message, FALSE, Free, Free)
  BY <1>2, ProductionIsGood, BothAreGood DEF IsGood
<1>4. Good(is_shutting_down(signal_shut_down \o End, dequeue(t) \o produce_new_message),
           FALSE, Free, Free)
  BY <1>1, <1>3, GoodTest
<1> QED BY <1>4 DEF IsGood, produce

(* The consumer sends its last message from inside the outgoing buffer,    *)
(* knowing that the flag is set.                                           *)
LEMMA ConsumerIsGood ==
  IsGood(consume)
<1> DEFINE s == outgoing_buffer
           h == In(Free, s)
           send == send_subscription_message_or_response
           yes == send \o Leave(s) \o signal_shut_down \o End
           no == Leave(s) \o send
           test == is_shutting_down(yes, no)
           over == signal_shut_down \o End
           turn == Enter(s) \o WaitLoop(s) \o test
<1>1. s \in CriticalSection /\ Free \in Held /\ MayEnter(Free, s) /\ h \in Held
  BY SectionsAreRanked, FreeMayEnter, InAndOut
<1>2. SentFrom(TRUE, h) /\ SentFrom(FALSE, Free)
  BY DEF SentFrom
<1> HIDE DEF s, send
<1>3. /\ \A f \in BOOLEAN : Good(Leave(s), f, h, Free)
      /\ Good(Enter(s), FALSE, Free, h) /\ Good(WaitLoop(s), FALSE, h, h)
  BY <1>1, GoodLeave, GoodEnter, GoodWaitLoop
<1> HIDE DEF h
<1>4. Good(send, TRUE, h, h) /\ Good(send, FALSE, Free, Free)
  BY <1>2, GoodToSubscribers DEF send
<1>5. Ends(yes, TRUE, h)
  <2>1. Good(send \o Leave(s), TRUE, h, Free)
    BY <1>3, <1>4, GoodThenGood
  <2>2. Good(signal_shut_down, TRUE, Free, Free) /\ Ends(End, TRUE, Free)
    BY <1>1, SignalIsGood, EndEnds
  <2>3. Good((send \o Leave(s)) \o signal_shut_down, TRUE, h, Free)
    BY <2>1, <2>2, GoodThenGood
  <2> QED BY <2>2, <2>3, GoodThenEnds
<1>6. Good(no, FALSE, h, Free)
  BY <1>3, <1>4, GoodThenGood
<1>7. Good(test, FALSE, h, Free)
  <2> HIDE DEF yes, no
  <2> QED BY <1>1, <1>5, <1>6, GoodTest
<1>8. Good(turn, FALSE, Free, Free)
  <2> HIDE DEF test
  <2>1. Good(Enter(s) \o WaitLoop(s), FALSE, Free, h)
    BY <1>3, GoodThenGood
  <2> QED BY <1>7, <2>1, GoodThenGood
<1>9. Ends(over, TRUE, Free)
  BY <1>1, SignalIsGood
<1>10. Good(is_shutting_down(over, turn), FALSE, Free, Free)
  <2> HIDE DEF over, turn
  <2> QED BY <1>1, <1>8, <1>9, GoodTest
<1> QED BY <1>10 DEF IsGood, consume, s, send

LEMMA CallsAreGood ==
  ASSUME NEW thread \in Thread, NEW path \in Calls(thread)
  PROVE  IsGood(path)
<1>1. CASE thread = Main
  BY <1>1, MainCallsAreGood, CriticalSectionsAssumption DEF Calls, Main, Consumer
<1>2. CASE thread = Consumer
  BY <1>2, ConsumerIsGood, CriticalSectionsAssumption DEF Calls, Main, Consumer
<1>3. CASE thread \in Topic
  <2>1. thread # Main /\ thread # Consumer
    BY <1>3, CriticalSectionsAssumption DEF Topic, Main, Consumer
  <2> QED BY <1>3, <2>1, ProducerIsGood DEF Calls
<1> QED BY <1>1, <1>2, <1>3 DEF Thread

LEMMA ShutDownIsGood ==
  Ends(mutual_assured_destruction, FALSE, Free)
<1> DEFINE sd == shutting_down
           h == In(Free, sd)
           wake == [t \in Topic |-> Inside(message_queue(t), << >>)]
           close == [t \in Topic |-> free_message_queue(t) \o close_sockets_and_free_socket_list(t)]
<1>1. sd \in CriticalSection /\ Free \in Held /\ MayEnter(Free, sd) /\ h \in Held
  BY SectionsAreRanked, FreeMayEnter, InAndOut
<1>2. IsGood(Inside(sd, SetFlag))
  <2>1. Good(SetFlag, FALSE, In(Free, sd), In(Free, sd))
    BY <1>1, GoodSetFlag
  <2> HIDE DEF sd
  <2> QED BY <1>1, <2>1, GoodInside DEF IsGood
<1>3. IsGood(FlattenSeq(wake))
  <2>1. (\A t \in Topic : IsGood(wake[t])) /\ wake = [t \in Topic |-> wake[t]]
    BY SectionsExist, TouchIsGood
  <2> HIDE DEF wake
  <2> QED BY <2>1, ForEachIsGood
<1>4. IsGood(Inside(outgoing_buffer, << >>))
  BY SectionsAreRanked, TouchIsGood
<1>5. IsGood(Inside(sd, Repeat(Sleep(sd))))
  <2> HIDE DEF sd
  <2>1. Good(Sleep(sd), FALSE, h, h)
    BY <1>1, GoodSleep
  <2>2. Good(Repeat(Sleep(sd)), FALSE, h, h)
    BY <1>1, <2>1, GoodRepeat
  <2>3. Good(Repeat(Sleep(sd)), FALSE, In(Free, sd), In(Free, sd))
    BY <2>2
  <2> QED BY <1>1, <2>3, GoodInside DEF IsGood
<1>6. IsGood(FlattenSeq(close))
  <2>1. \A t \in Topic : IsGood(close[t])
    BY SectionsExist, TouchIsGood, BothAreGood
       DEF free_message_queue, close_sockets_and_free_socket_list
  <2>2. close = [t \in Topic |-> close[t]]
    OBVIOUS
  <2> HIDE DEF close
  <2> QED BY <2>1, <2>2, ForEachIsGood
<1>7. IsGood(shut_down_threads)
  <2> DEFINE a == Inside(sd, SetFlag)
             b == FlattenSeq(wake)
             c == Inside(outgoing_buffer, << >>)
             d == Inside(sd, Repeat(Sleep(sd)))
  <2>1. shut_down_threads = ((a \o b) \o c) \o d
    BY DEF shut_down_threads
  <2>2. IsGood(a) /\ IsGood(b) /\ IsGood(c) /\ IsGood(d)
    BY <1>2, <1>3, <1>4, <1>5
  <2> HIDE DEF a, b, c, d
  <2>3. IsGood(a \o b)
    BY <2>2, BothAreGood
  <2>4. IsGood((a \o b) \o c)
    BY <2>2, <2>3, BothAreGood
  <2>5. IsGood(((a \o b) \o c) \o d)
    BY <2>2, <2>4, BothAreGood
  <2> QED BY <2>1, <2>5
<1>8. Good(shut_down_threads \o FlattenSeq(close), FALSE, Free, Free)
  BY <1>6, <1>7, BothAreGood DEF IsGood
<1>9. Ends(End, FALSE, Free)
  BY <1>1, EndEnds
<1> HIDE DEF close
<1>10. Ends((shut_down_threads \o FlattenSeq(close)) \o End, FALSE, Free)
  BY <1>8, <1>9, GoodThenEnds
<1> QED BY <1>10 DEF mutual_assured_destruction, close

-----------------------------------------------------------------------------
(* Of every thread, what is left of its code is safe where it is.          *)
LocksTypeOK ==
    /\ code = [thread \in Thread |-> code[thread]]
    /\ owner \in [CriticalSection -> Thread \cup {Nobody}]
    /\ depth \in [CriticalSection -> Nat]
    /\ flag \in BOOLEAN
    /\ \A s \in CriticalSection : owner[s] = Nobody <=> depth[s] = 0

HeldBy(thread) == [s \in CriticalSection |-> IF owner[s] = thread THEN depth[s] ELSE 0]

GoesOnSafely(thread) ==
    \E f \in BOOLEAN : (f => flag) /\ Safe(code[thread], HeldBy(thread), f, {})

SectionsInv == LocksTypeOK /\ \A thread \in Thread : GoesOnSafely(thread)

LEMMA NobodyIsNoThread ==
  Nobody \notin Thread /\ Main \in Thread
  BY CriticalSectionsAssumption DEF Thread, Nobody, Main, Consumer, Topic

LEMMA HeldByIsHeld ==
  ASSUME LocksTypeOK, NEW thread \in Thread
  PROVE  /\ HeldBy(thread) \in Held
         /\ \A s \in CriticalSection : HeldBy(thread)[s] > 0 <=> owner[s] = thread
<1>1. HeldBy(thread) \in Held
  BY DEF HeldBy, Held, LocksTypeOK
<1>2. ASSUME NEW s \in CriticalSection
      PROVE  HeldBy(thread)[s] > 0 <=> owner[s] = thread
  <2>1. HeldBy(thread)[s] = IF owner[s] = thread THEN depth[s] ELSE 0
    BY DEF HeldBy
  <2>2. depth[s] \in Nat /\ (owner[s] = Nobody <=> depth[s] = 0) /\ thread # Nobody
    BY NobodyIsNoThread DEF LocksTypeOK
  <2> QED BY <2>1, <2>2
<1> QED BY <1>1, <1>2

LEMMA EndIsSafe ==
  Safe(<< >>, Free, FALSE, {})
<1>1. Allowed(<< >>, Free, FALSE, {})
  BY FreeMayEnter, SectionsAreRanked DEF Allowed
<1> QED BY <1>1, AheadIsSafe

LEMMA GoodIsSafe ==
  ASSUME NEW c, IsGood(c) \/ Ends(c, FALSE, Free)
  PROVE  Safe(c, Free, FALSE, {})
<1>1. IsSeq(<< >>) /\ c \o << >> = c
  BY EmptyIsSeq DEF IsGood, Good, Ends
<1>2. Safe(c \o << >>, Free, FALSE, {})
  BY <1>1, EndIsSafe DEF IsGood, Good, Ends
<1> QED BY <1>1, <1>2

LEMMA SectionsInvInit ==
  Init => SectionsInv
<1> SUFFICES ASSUME Init PROVE SectionsInv
  OBVIOUS
<1>1. PICK missing \in SUBSET (Thread \ {Main}) :
        code = [thread \in Thread |->
                  CASE thread \in missing -> End
                    [] thread = Main /\ missing # {} -> mutual_assured_destruction
                    [] OTHER -> << >>]
  BY DEF Init
<1>2. /\ owner = [s \in CriticalSection |-> Nobody] /\ depth = [s \in CriticalSection |-> 0]
      /\ flag = FALSE
  BY DEF Init
<1>3. LocksTypeOK
  BY <1>1, <1>2 DEF LocksTypeOK
<1>4. ASSUME NEW thread \in Thread PROVE GoesOnSafely(thread)
  <2>1. HeldBy(thread) = Free
    BY <1>2, NobodyIsNoThread DEF HeldBy, Free
  <2>2. \/ code[thread] = End
        \/ code[thread] = mutual_assured_destruction
        \/ code[thread] = << >>
    <3>1. CASE thread \in missing
      BY <1>1, <3>1
    <3>2. CASE thread \notin missing /\ thread = Main /\ missing # {}
      BY <1>1, <3>2
    <3>3. CASE thread \notin missing /\ ~ (thread = Main /\ missing # {})
      BY <1>1, <3>3
    <3> QED BY <3>1, <3>2, <3>3
  <2>3. Ends(End, FALSE, Free)
    BY FreeMayEnter, SectionsAreRanked, EndEnds
  <2>4. Safe(code[thread], Free, FALSE, {})
    BY <2>2, <2>3, ShutDownIsGood, GoodIsSafe, EndIsSafe
  <2> QED BY <2>1, <2>4 DEF GoesOnSafely
<1> QED BY <1>3, <1>4 DEF SectionsInv

(* What a step of one thread has to do for the invariant to stay true.     *)
LEMMA OneMoves ==
  ASSUME SectionsInv, NEW thread \in Thread, NEW c, NEW h, NEW f \in BOOLEAN,
         code' = [code EXCEPT ![thread] = c], flag => flag', LocksTypeOK', f => flag',
         HeldBy(thread)' = h, Safe(c, h, f, {}),
         \A u \in Thread \ {thread} : HeldBy(u)' = HeldBy(u)
  PROVE  SectionsInv'
<1>1. code = [u \in Thread |-> code[u]]
  BY DEF SectionsInv, LocksTypeOK
<1>2. code'[thread] = c /\ \A u \in Thread \ {thread} : code'[u] = code[u]
  BY <1>1
<1>3. GoesOnSafely(thread)'
  BY <1>2 DEF GoesOnSafely
<1>4. ASSUME NEW u \in Thread \ {thread} PROVE GoesOnSafely(u)'
  <2>1. PICK e \in BOOLEAN : (e => flag) /\ Safe(code[u], HeldBy(u), e, {})
    BY DEF SectionsInv, GoesOnSafely
  <2>2. code'[u] = code[u] /\ HeldBy(u)' = HeldBy(u) /\ (e => flag')
    BY <1>2, <2>1
  <2>3. Safe(code'[u], HeldBy(u)', e, {})
    BY <2>1, <2>2
  <2> QED BY <2>2, <2>3 DEF GoesOnSafely
<1> QED BY <1>3, <1>4 DEF SectionsInv

(* The thread's code, and what is allowed there.                           *)
LEMMA NextIsAllowed ==
  ASSUME SectionsInv, NEW thread \in Thread, code[thread] # << >>
  PROVE  \E f, Z :
            /\ f \in BOOLEAN /\ (f => flag)
            /\ IsSeq(Tail(code[thread])) /\ HeldBy(thread) \in Held
            /\ Does(Next1(thread), Tail(code[thread]), HeldBy(thread), f, Z)
            /\ \A d, g, e : <<d, g, e>> \in Z => Safe(d, g, e, {})
<1>1. PICK f \in BOOLEAN : (f => flag) /\ Safe(code[thread], HeldBy(thread), f, {})
  BY DEF SectionsInv, GoesOnSafely
<1>2. PICK Z : /\ Allowed(code[thread], HeldBy(thread), f, Z)
               /\ \A d, g, e : <<d, g, e>> \in Z => Safe(d, g, e, {})
  BY <1>1, SafeIsAllowed
<1>3. /\ IsSeq(code[thread]) /\ HeldBy(thread) \in Held
      /\ Does(Next1(thread), Tail(code[thread]), HeldBy(thread), f, Z)
  BY <1>2 DEF Allowed, Step, Next1
<1>4. IsSeq(Tail(code[thread]))
  <2>1. PICK S : code[thread] \in Seq(S)
    BY <1>3 DEF IsSeq
  <2> QED BY <2>1, HeadTailProperties DEF IsSeq
<1> QED BY <1>1, <1>2, <1>3, <1>4

(* A step that neither enters nor leaves.                                  *)
LEMMA OnlyCodeMoves ==
  ASSUME SectionsInv, NEW thread \in Thread, NEW c, NEW f \in BOOLEAN,
         code' = [code EXCEPT ![thread] = c], UNCHANGED <<owner, depth>>,
         flag' \in BOOLEAN, flag => flag', f => flag', Safe(c, HeldBy(thread), f, {})
  PROVE  SectionsInv'
<1>1. \A u \in Thread : HeldBy(u)' = HeldBy(u)
  BY DEF HeldBy
<1>2. LocksTypeOK'
  <2>1. code' = [u \in Thread |-> code'[u]]
    BY DEF SectionsInv, LocksTypeOK
  <2>2. LocksTypeOK
    BY DEF SectionsInv
  <2> QED BY <2>1, <2>2 DEF LocksTypeOK
<1>3. SectionsInv'
  BY <1>1, <1>2, OneMoves
<1> QED BY <1>3

LEMMA CallKeepsInv ==
  ASSUME SectionsInv, NEW thread \in Thread, Call(thread)
  PROVE  SectionsInv'
<1>1. PICK path \in Calls(thread) : code' = [code EXCEPT ![thread] = path]
  BY DEF Call
<1>2. UNCHANGED <<owner, depth>> /\ UNCHANGED flag /\ code[thread] = << >>
  BY DEF Call, NoSectionChanges
<1>3. HeldBy(thread) = Free
  <2>1. PICK f \in BOOLEAN : (f => flag) /\ Safe(code[thread], HeldBy(thread), f, {})
    BY DEF SectionsInv, GoesOnSafely
  <2>2. PICK Z : Allowed(code[thread], HeldBy(thread), f, Z)
    BY <2>1, SafeIsAllowed
  <2> QED BY <1>2, <2>2 DEF Allowed
<1>4. Safe(path, HeldBy(thread), FALSE, {})
  BY <1>3, CallsAreGood, GoodIsSafe
<1>5. flag \in BOOLEAN
  BY DEF SectionsInv, LocksTypeOK
<1> QED BY <1>1, <1>2, <1>4, <1>5, OnlyCodeMoves

LEMMA EnterKeepsInv ==
  ASSUME SectionsInv, NEW thread \in Thread, EnterCriticalSection(thread)
  PROVE  SectionsInv'
<1> DEFINE s == Next1(thread).section
           c == Tail(code[thread])
           h == In(HeldBy(thread), s)
<1>1. code[thread] # << >> /\ Next1(thread).do = "enter"
  BY DEF EnterCriticalSection, Doing
<1>2. PICK f, Z :
        /\ f \in BOOLEAN /\ (f => flag)
        /\ IsSeq(c) /\ HeldBy(thread) \in Held
        /\ Does(Next1(thread), c, HeldBy(thread), f, Z)
        /\ \A d, g, e : <<d, g, e>> \in Z => Safe(d, g, e, {})
  BY <1>1, NextIsAllowed
<1>3. s \in CriticalSection /\ Safe(c, h, f, {})
  BY <1>1, <1>2 DEF Does
<1>4. /\ owner[s] \in {Nobody, thread}
      /\ owner' = [owner EXCEPT ![s] = thread] /\ depth' = [depth EXCEPT ![s] = @ + 1]
      /\ code' = [code EXCEPT ![thread] = c] /\ UNCHANGED flag
  <2>1. << >> \o c = c
    BY <1>2, EmptyIsSeq
  <2>2. code' = [code EXCEPT ![thread] = << >> \o Tail(@)]
    BY DEF EnterCriticalSection, Continue
  <2>3. code = [u \in Thread |-> code[u]]
    BY DEF SectionsInv, LocksTypeOK
  <2>4. code' = [code EXCEPT ![thread] = << >> \o c]
    BY <2>2, <2>3
  <2> QED BY <2>1, <2>4 DEF EnterCriticalSection
<1>5. LocksTypeOK
  BY DEF SectionsInv
<1> HIDE DEF s, c
<1>6. LocksTypeOK'
  <2>1. code' = [u \in Thread |-> code'[u]]
    BY <1>4, <1>5 DEF LocksTypeOK
  <2>2. depth'[s] = depth[s] + 1 /\ depth[s] \in Nat /\ owner'[s] = thread /\ thread # Nobody
    BY <1>3, <1>4, <1>5, NobodyIsNoThread DEF LocksTypeOK
  <2>3. /\ owner' \in [CriticalSection -> Thread \cup {Nobody}]
        /\ depth' \in [CriticalSection -> Nat] /\ flag' \in BOOLEAN
    <3>1. owner' \in [CriticalSection -> Thread \cup {Nobody}] /\ flag' \in BOOLEAN
      BY <1>4, <1>5 DEF LocksTypeOK
    <3>2. depth[s] + 1 \in Nat /\ depth \in [CriticalSection -> Nat]
      BY <1>5, <2>2 DEF LocksTypeOK
    <3>3. depth' \in [CriticalSection -> Nat]
      BY <1>4, <3>2
    <3> QED BY <3>1, <3>3
  <2>4. \A r \in CriticalSection : owner'[r] = Nobody <=> depth'[r] = 0
    BY <1>4, <1>5, <2>2 DEF LocksTypeOK
  <2> QED BY <2>1, <2>3, <2>4 DEF LocksTypeOK
<1>7. HeldBy(thread)' = h
  <2>1. \A r \in CriticalSection : HeldBy(thread)'[r] = h[r]
    <3> TAKE r \in CriticalSection
    <3>1. h[r] = IF r = s THEN HeldBy(thread)[s] + 1 ELSE HeldBy(thread)[r]
      BY <1>2, <1>3, InAndOut
    <3>2. /\ HeldBy(thread)[r] = IF owner[r] = thread THEN depth[r] ELSE 0
          /\ HeldBy(thread)'[r] = IF owner'[r] = thread THEN depth'[r] ELSE 0
      BY DEF HeldBy
    <3>3. CASE r = s
      <4>1. owner'[s] = thread /\ depth'[s] = depth[s] + 1 /\ depth[s] \in Nat
        BY <1>3, <1>4, <1>5 DEF LocksTypeOK
      <4>2. owner[s] = Nobody => depth[s] = 0
        BY <1>3, <1>5 DEF LocksTypeOK
      <4>3. thread # Nobody
        BY NobodyIsNoThread
      <4> HIDE DEF h
      <4> QED BY <1>4, <3>1, <3>2, <3>3, <4>1, <4>2, <4>3
    <3>4. CASE r # s
      <4>1. owner'[r] = owner[r] /\ depth'[r] = depth[r]
        BY <1>4, <1>5, <3>4 DEF LocksTypeOK
      <4> HIDE DEF h
      <4> QED BY <3>1, <3>2, <3>4, <4>1
    <3> QED BY <3>3, <3>4
  <2>2. h \in [CriticalSection -> Nat]
    BY <1>2, <1>3, InAndOut DEF Held
  <2>3. HeldBy(thread)' = [r \in CriticalSection |-> HeldBy(thread)'[r]]
    BY DEF HeldBy
  <2> HIDE DEF h
  <2> QED BY <2>1, <2>2, <2>3
<1>8. ASSUME NEW u \in Thread \ {thread} PROVE HeldBy(u)' = HeldBy(u)
  <2>1. \A r \in CriticalSection : r # s => owner'[r] = owner[r] /\ depth'[r] = depth[r]
    BY <1>4, <1>5 DEF LocksTypeOK
  <2>2. owner'[s] # u /\ owner[s] # u
    BY <1>3, <1>4, <1>5, NobodyIsNoThread DEF LocksTypeOK
  <2>3. \A r \in CriticalSection :
           (IF owner'[r] = u THEN depth'[r] ELSE 0) = (IF owner[r] = u THEN depth[r] ELSE 0)
    BY <2>1, <2>2
  <2> QED BY <2>3 DEF HeldBy
<1> HIDE DEF h
<1> QED BY <1>2, <1>3, <1>4, <1>6, <1>7, <1>8, OneMoves

(* Leaving a section, whether or not it was entered more than once.        *)
LEMMA LeftKeepsLocks ==
  ASSUME LocksTypeOK, NEW thread \in Thread, NEW s \in CriticalSection, owner[s] = thread,
         Left(s), NEW c, code' = [code EXCEPT ![thread] = c], UNCHANGED flag
  PROVE  /\ LocksTypeOK' /\ HeldBy(thread)' = Out(HeldBy(thread), s)
         /\ \A u \in Thread \ {thread} : HeldBy(u)' = HeldBy(u)
<1>1. /\ depth[s] \in Nat /\ depth[s] # 0 /\ thread # Nobody
      /\ owner \in [CriticalSection -> Thread \cup {Nobody}]
      /\ depth \in [CriticalSection -> Nat]
      /\ \A r \in CriticalSection : owner[r] = Nobody <=> depth[r] = 0
  BY NobodyIsNoThread DEF LocksTypeOK
<1>2. /\ depth' = [depth EXCEPT ![s] = depth[s] - 1]
      /\ owner' = IF depth[s] = 1 THEN [owner EXCEPT ![s] = Nobody] ELSE owner
  BY DEF Left
<1>3. depth[s] - 1 \in Nat /\ (depth[s] - 1 = 0 <=> depth[s] = 1)
  BY <1>1
<1>4. /\ depth'[s] = depth[s] - 1
      /\ owner'[s] = IF depth[s] = 1 THEN Nobody ELSE thread
      /\ \A r \in CriticalSection : r # s => owner'[r] = owner[r] /\ depth'[r] = depth[r]
  BY <1>1, <1>2
<1>5. LocksTypeOK'
  <2>1. code' = [u \in Thread |-> code'[u]] /\ flag' \in BOOLEAN
    BY DEF LocksTypeOK
  <2>2. depth' \in [CriticalSection -> Nat]
    BY <1>1, <1>2, <1>3
  <2>3. owner' \in [CriticalSection -> Thread \cup {Nobody}]
    BY <1>1, <1>2
  <2>4. \A r \in CriticalSection : owner'[r] = Nobody <=> depth'[r] = 0
    BY <1>1, <1>3, <1>4
  <2> QED BY <2>1, <2>2, <2>3, <2>4 DEF LocksTypeOK
<1>6. HeldBy(thread)' = Out(HeldBy(thread), s)
  <2>1. HeldBy(thread)' = [r \in CriticalSection |->
                             IF owner'[r] = thread THEN depth'[r] ELSE 0]
    BY DEF HeldBy
  <2>2. HeldBy(thread) \in Held
    BY HeldByIsHeld
  <2>3. Out(HeldBy(thread), s) = [r \in CriticalSection |->
                                    IF r = s THEN HeldBy(thread)[s] - 1 ELSE HeldBy(thread)[r]]
    BY <2>2 DEF Out, Held
  <2>4. \A r \in CriticalSection :
          HeldBy(thread)[r] = IF owner[r] = thread THEN depth[r] ELSE 0
    BY DEF HeldBy
  <2>5. ASSUME NEW r \in CriticalSection
        PROVE  (IF owner'[r] = thread THEN depth'[r] ELSE 0)
                 = (IF r = s THEN HeldBy(thread)[s] - 1 ELSE HeldBy(thread)[r])
    <3>1. CASE r = s
      <4>1. HeldBy(thread)[s] = depth[s]
        BY <2>4
      <4> QED BY <1>1, <1>3, <1>4, <3>1, <4>1
    <3>2. CASE r # s
      BY <1>4, <2>4, <3>2
    <3> QED BY <3>1, <3>2
  <2> QED BY <2>1, <2>3, <2>5
<1>7. ASSUME NEW u \in Thread \ {thread} PROVE HeldBy(u)' = HeldBy(u)
  <2>1. owner'[s] # u /\ owner[s] # u
    BY <1>4, NobodyIsNoThread
  <2>2. \A r \in CriticalSection :
           (IF owner'[r] = u THEN depth'[r] ELSE 0) = (IF owner[r] = u THEN depth[r] ELSE 0)
    BY <1>4, <2>1
  <2> QED BY <2>2 DEF HeldBy
<1> QED BY <1>5, <1>6, <1>7

(* What Continue makes of the code.                                        *)
LEMMA ContinueIs ==
  ASSUME LocksTypeOK, NEW thread \in Thread, NEW path, Continue(thread, path)
  PROVE  code' = [code EXCEPT ![thread] = path \o Tail(code[thread])]
<1>1. code = [u \in Thread |-> code[u]]
  BY DEF LocksTypeOK
<1> QED BY <1>1 DEF Continue

LEMMA LeaveKeepsInv ==
  ASSUME SectionsInv, NEW thread \in Thread, LeaveCriticalSection(thread)
  PROVE  SectionsInv'
<1> DEFINE s == Next1(thread).section
           c == Tail(code[thread])
           h == Out(HeldBy(thread), s)
<1>1. code[thread] # << >> /\ Next1(thread).do = "leave"
  BY DEF LeaveCriticalSection, Doing
<1>2. PICK f, Z :
        /\ f \in BOOLEAN /\ (f => flag)
        /\ IsSeq(c) /\ HeldBy(thread) \in Held
        /\ Does(Next1(thread), c, HeldBy(thread), f, Z)
        /\ \A d, g, e : <<d, g, e>> \in Z => Safe(d, g, e, {})
  BY <1>1, NextIsAllowed
<1>3. s \in CriticalSection /\ HeldBy(thread)[s] > 0 /\ Safe(c, h, f, {})
  BY <1>1, <1>2 DEF Does
<1>4. LocksTypeOK /\ owner[s] = thread
  BY <1>3, HeldByIsHeld DEF SectionsInv
<1>5. code' = [code EXCEPT ![thread] = c] /\ Left(s) /\ UNCHANGED flag
  <2>1. << >> \o c = c
    BY <1>2, EmptyIsSeq
  <2> QED BY <1>4, <2>1, ContinueIs DEF LeaveCriticalSection
<1> HIDE DEF s, c
<1>6. /\ LocksTypeOK' /\ HeldBy(thread)' = h
      /\ \A u \in Thread \ {thread} : HeldBy(u)' = HeldBy(u)
  BY <1>3, <1>4, <1>5, LeftKeepsLocks
<1> HIDE DEF h
<1> QED BY <1>2, <1>3, <1>5, <1>6, OneMoves

LEMMA SleepKeepsInv ==
  ASSUME SectionsInv, NEW thread \in Thread, SleepConditionVariableCS(thread)
  PROVE  SectionsInv'
<1> DEFINE s == Next1(thread).section
           c == <<[do |-> "asleep", section |-> s]>> \o Tail(code[thread])
<1>1. code[thread] # << >> /\ Next1(thread).do = "sleep"
  BY DEF SleepConditionVariableCS, Doing
<1>2. PICK f, Z :
        /\ f \in BOOLEAN /\ (f => flag)
        /\ IsSeq(Tail(code[thread])) /\ HeldBy(thread) \in Held
        /\ Does(Next1(thread), Tail(code[thread]), HeldBy(thread), f, Z)
        /\ \A d, g, e : <<d, g, e>> \in Z => Safe(d, g, e, {})
  BY <1>1, NextIsAllowed
<1>3. s \in CriticalSection /\ HeldBy(thread) = In(Free, s) /\ Safe(c, Free, f, {})
  BY <1>1, <1>2 DEF Does
<1>4. LocksTypeOK
  BY DEF SectionsInv
<1>5. code' = [code EXCEPT ![thread] = c] /\ Left(s) /\ UNCHANGED flag
  BY <1>4, ContinueIs DEF SleepConditionVariableCS
<1> HIDE DEF s, c
<1>6. HeldBy(thread)[s] > 0 /\ Out(HeldBy(thread), s) = Free
  BY <1>3, FreeMayEnter, InAndOut
<1>7. owner[s] = thread
  BY <1>3, <1>4, <1>6, HeldByIsHeld
<1>8. /\ LocksTypeOK' /\ HeldBy(thread)' = Free
      /\ \A u \in Thread \ {thread} : HeldBy(u)' = HeldBy(u)
  BY <1>3, <1>4, <1>5, <1>6, <1>7, LeftKeepsLocks
<1> QED BY <1>2, <1>3, <1>5, <1>8, OneMoves

(* The steps that only go on in the code.                                  *)
LEMMA OthersKeepInv ==
  ASSUME SectionsInv, NEW thread \in Thread,
         Awake(thread) \/ Sent(thread) \/ FlagSet(thread) \/ Branch(thread)
  PROVE  SectionsInv'
<1> DEFINE op == Next1(thread)
           rest == Tail(code[thread])
           h == HeldBy(thread)
<1>1. LocksTypeOK /\ flag \in BOOLEAN
  BY DEF SectionsInv, LocksTypeOK
<1>2. code[thread] # << >> /\ UNCHANGED <<owner, depth>>
  BY DEF Awake, Sent, FlagSet, Branch, Doing, NoSectionChanges
<1>3. flag' \in BOOLEAN /\ (flag => flag')
  BY <1>1 DEF Awake, Sent, FlagSet, Branch
<1>4. PICK f, Z :
        /\ f \in BOOLEAN /\ (f => flag)
        /\ IsSeq(rest) /\ h \in Held
        /\ Does(op, rest, h, f, Z)
        /\ \A d, g, e : <<d, g, e>> \in Z => Safe(d, g, e, {})
  BY <1>2, NextIsAllowed
<1>5. << >> \o rest = rest
  BY <1>4, EmptyIsSeq
<1>6. ASSUME NEW path, Continue(thread, path),
             NEW e \in BOOLEAN, e => flag, Safe(path \o rest, h, e, {})
      PROVE  SectionsInv'
  <2>1. code' = [code EXCEPT ![thread] = path \o rest]
    BY <1>1, <1>6, ContinueIs
  <2> QED BY <1>2, <1>3, <1>6, <2>1, OnlyCodeMoves
<1> HIDE DEF op, rest, h
<1>7. CASE Awake(thread)
  <2>1. op.do = "asleep" /\ Continue(thread, Enter(op.section))
    BY <1>7 DEF Awake, Doing, op
  <2>2. Safe(Enter(op.section) \o rest, h, f, {})
    BY <1>4, <2>1 DEF Does
  <2> QED BY <1>4, <1>6, <2>1, <2>2
<1>8. CASE Sent(thread) \/ FlagSet(thread)
  <2>1. op.do \in {"send", "set"} /\ Continue(thread, << >>)
    BY <1>8 DEF Sent, FlagSet, Doing, op
  <2>2. Safe(<< >> \o rest, h, f, {})
    BY <1>4, <1>5, <2>1 DEF Does
  <2> QED BY <1>4, <1>6, <2>1, <2>2
<1>9. CASE Branch(thread)
  <2>1. \/ op.do = "while" /\ Continue(thread, << >>)
        \/ /\ op.do = "while"
           /\ Continue(thread, is_shutting_down(<< >>, Sleep(op.section) \o <<op>>))
        \/ op.do = "repeat" /\ Continue(thread, << >>)
        \/ op.do = "repeat" /\ Continue(thread, op.body \o <<op>>)
        \/ op.do = "one of" /\ \E path \in op.paths : Continue(thread, path)
        \/ op.do = "if" /\ Continue(thread, IF flag THEN op.yes ELSE op.no)
    BY <1>9 DEF Branch, Doing, op
  <2>2. CASE op.do \in {"while", "repeat"} /\ Continue(thread, << >>)
    <3>1. Safe(<< >> \o rest, h, f, {})
      BY <1>4, <1>5, <2>2 DEF Does
    <3> QED BY <1>4, <1>6, <2>2, <3>1
  <2>3. CASE /\ op.do = "while"
             /\ Continue(thread, is_shutting_down(<< >>, Sleep(op.section) \o <<op>>))
    <3>1. Safe(is_shutting_down(<< >>, Sleep(op.section) \o <<op>>) \o rest, h, f, {})
      BY <1>4, <2>3 DEF Does
    <3> QED BY <1>4, <1>6, <2>3, <3>1
  <2>4. CASE op.do = "repeat" /\ Continue(thread, op.body \o <<op>>)
    <3>1. Safe((op.body \o <<op>>) \o rest, h, f, {})
      BY <1>4, <2>4 DEF Does
    <3> QED BY <1>4, <1>6, <2>4, <3>1
  <2>5. CASE op.do = "one of" /\ \E path \in op.paths : Continue(thread, path)
    <3>1. PICK path \in op.paths : Continue(thread, path)
      BY <2>5
    <3>2. Safe(path \o rest, h, f, {})
      BY <1>4, <2>5 DEF Does
    <3> QED BY <1>4, <1>6, <3>1, <3>2
  <2>6. CASE op.do = "if" /\ Continue(thread, IF flag THEN op.yes ELSE op.no)
    <3>1. CASE flag
      <4>1. PICK e \in {TRUE, f} : Safe(op.yes \o rest, h, e, {})
        BY <1>4, <2>6 DEF Does
      <4>2. Continue(thread, op.yes)
        BY <2>6, <3>1
      <4>3. e \in BOOLEAN /\ (e => flag)
        BY <1>4, <3>1
      <4> QED BY <1>6, <4>1, <4>2, <4>3
    <3>2. CASE ~flag
      <4>1. Safe(op.no \o rest, h, f, {})
        BY <1>4, <2>6 DEF Does
      <4>2. Continue(thread, op.no)
        BY <2>6, <3>2
      <4> QED BY <1>4, <1>6, <4>1, <4>2
    <3> QED BY <3>1, <3>2
  <2> QED BY <2>1, <2>2, <2>3, <2>4, <2>5, <2>6
<1> QED BY <1>7, <1>8, <1>9

LEMMA SectionsInvStep ==
  SectionsInv /\ [Next]_vars => SectionsInv'
<1> SUFFICES ASSUME SectionsInv, [Next]_vars PROVE SectionsInv'
  OBVIOUS
<1>1. CASE UNCHANGED vars
  BY <1>1 DEF vars, SectionsInv, LocksTypeOK, GoesOnSafely, HeldBy
<1>2. ASSUME NEW thread \in Thread,
             Call(thread) \/ OwnStep(thread) \/ Awake(thread) \/ Sent(thread)
      PROVE  SectionsInv'
  BY <1>2, CallKeepsInv, EnterKeepsInv, LeaveKeepsInv, SleepKeepsInv, OthersKeepInv DEF OwnStep
<1> QED BY <1>1, <1>2 DEF Next

-----------------------------------------------------------------------------
(* A waiting thread is inside sections of a lower rank only, so among the  *)
(* threads of a ring the one that waits for the highest rank waits for a   *)
(* thread that waits for a higher one still.                               *)
LEMMA WaitersWaitUpwards ==
  ASSUME SectionsInv, NEW thread \in Thread, Waits(thread)
  PROVE  /\ Next1(thread).section \in CriticalSection
         /\ \A s \in CriticalSection : owner[s] = thread => Rank(s) < Rank(Next1(thread).section)
<1> DEFINE s == Next1(thread).section
<1>1. /\ code[thread] # << >> /\ Next1(thread).do = "enter"
      /\ owner[s] \notin {Nobody, thread} /\ LocksTypeOK
  BY DEF Waits, Doing, SectionsInv
<1>2. s \in CriticalSection /\ MayEnter(HeldBy(thread), s)
  BY <1>1, NextIsAllowed DEF Does
<1>3. \A r \in CriticalSection : HeldBy(thread)[r] > 0 <=> owner[r] = thread
  BY <1>1, HeldByIsHeld
<1> QED BY <1>1, <1>2, <1>3 DEF MayEnter

LEMMA InvExcludesRings ==
  SectionsInv => NoCircularWait
<1> SUFFICES ASSUME SectionsInv, NEW ring \in (SUBSET Thread) \ {{}},
                    ~ \E thread \in ring : WaitsFor(thread) \notin ring
             PROVE  FALSE
  BY Zenon DEF NoCircularWait
<1>0. ring \in SUBSET Thread /\ ring # {} /\ \A thread \in ring : WaitsFor(thread) \in ring
  OBVIOUS
<1> DEFINE For(thread) == Next1(thread).section
           Below == {4 - Rank(For(thread)) : thread \in ring}
<1>1. ASSUME NEW thread \in ring
      PROVE  /\ Waits(thread) /\ owner[For(thread)] \in ring
             /\ For(thread) \in CriticalSection /\ Rank(For(thread)) \in 1 .. 4
             /\ \A s \in CriticalSection : owner[s] = thread => Rank(s) < Rank(For(thread))
  <2>1. Waits(thread) /\ owner[For(thread)] \in ring
    BY <1>0, NobodyIsNoThread DEF WaitsFor
  <2> QED BY <1>0, <2>1, WaitersWaitUpwards, SectionsAreRanked
<1> HIDE DEF For
<1>2. PICK low \in Below : \A x \in Below : low <= x
  <2>1. Below \in SUBSET Nat /\ Below # {}
    BY <1>0, <1>1
  <2> HIDE DEF Below
  <2> QED BY <2>1, LeastExists
<1>3. PICK thread \in ring : low = 4 - Rank(For(thread))
  BY <1>2
<1> DEFINE next == owner[For(thread)]
<1>4. next \in ring /\ Rank(For(thread)) < Rank(For(next))
  BY <1>1
<1>5. 4 - Rank(For(next)) \in Below
  BY <1>4
<1> QED BY <1>1, <1>2, <1>3, <1>4, <1>5

LEMMA InvKeepsBlockedFree ==
  SectionsInv => NothingHeldWhileBlocked
<1> SUFFICES ASSUME SectionsInv, NEW thread \in Thread,
                    Doing(thread, "asleep") \/ (Doing(thread, "send") /\ ~flag)
             PROVE  Holds(thread) = {}
  BY DEF NothingHeldWhileBlocked
<1>1. HeldBy(thread) = Free
  BY NextIsAllowed DEF Doing, Does
<1>2. \A s \in CriticalSection : owner[s] # thread
  BY <1>1, HeldByIsHeld DEF Free, SectionsInv
<1> QED BY <1>2 DEF Holds

LEMMA SectionsInvHolds ==
  Spec => []SectionsInv
  BY SectionsInvInit, SectionsInvStep, PTL DEF Spec

(* However many topics there are, and however their threads, the consumer  *)
(* and main interleave: no threads wait for one another in a ring, each    *)
(* inside a critical section that the next one wants (message_queue.cpp,   *)
(* outgoing_buffer.cpp, socket_list.cpp and the printing nest in one       *)
(* order).                                                                 *)
THEOREM NoRingOfWaiters ==
  Spec => []NoCircularWait
  BY SectionsInvHolds, InvExcludesRings, PTL

(* Nobody is inside a critical section while it sleeps, or while it waits  *)
(* for a client that does not read (outgoing_buffer.cpp:91), before a      *)
(* shutdown has begun.                                                     *)
THEOREM BlockedThreadsHoldNothing ==
  Spec => []NothingHeldWhileBlocked
  BY SectionsInvHolds, InvKeepsBlockedFree, PTL
=============================================================================
