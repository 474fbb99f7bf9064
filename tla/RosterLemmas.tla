---------------------------- MODULE RosterLemmas ----------------------------
(* What adding to the front of a sequence and removing one element of it,  *)
(* the two things the broker does to its socket lists, make of it: its     *)
(* length, which element is where, and how often it occurs.                *)
EXTENDS Integers, Sequences, SequencesExt, Selection, SequenceTheorems,
        FiniteSetTheorems, WellFoundedInduction, TLAPS

(* Every set of numbers has a least element, which is what Min picks.      *)
LEMMA LeastExists ==
  ASSUME NEW I \in SUBSET Nat, I # {}
  PROVE  Min(I) \in I /\ \A y \in I : Min(I) <= y
<1>1. PICK x \in I : \A y \in I : <<y, x>> \notin OpToRel(<, Nat)
  BY NatLessThanWellFounded, WFMin
<1>2. \A y \in I : x <= y
  <2> TAKE y \in I
  <2>1. <<y, x>> \in Nat \X Nat /\ <<y, x>>[1] = y /\ <<y, x>>[2] = x
    OBVIOUS
  <2>2. ~(y < x)
    BY <1>1, <2>1 DEF OpToRel
  <2> QED BY <2>2
<1> QED BY <1>2 DEF Min

LEMMA ElementIsSomewhere ==
  ASSUME NEW S, NEW q \in Seq(S), NEW e
  PROVE  e \in ToSet(q) <=> \E k \in 1 .. Len(q) : q[k] = e
  BY DEF ToSet

LEMMA ConsElements ==
  ASSUME NEW S, NEW q \in Seq(S), NEW e \in S
  PROVE  /\ Cons(e, q) \in Seq(S)
         /\ Len(Cons(e, q)) = Len(q) + 1
         /\ \A j \in 1 .. Len(q) + 1 : Cons(e, q)[j] = IF j = 1 THEN e ELSE q[j - 1]
  BY DEF Cons

LEMMA RemoveAtElements ==
  ASSUME NEW S, NEW q \in Seq(S), NEW i \in 1 .. Len(q)
  PROVE  /\ RemoveAt(q, i) \in Seq(S)
         /\ Len(RemoveAt(q, i)) = Len(q) - 1
         /\ \A j \in 1 .. Len(q) - 1 :
               RemoveAt(q, i)[j] = IF j < i THEN q[j] ELSE q[j + 1]
<1> DEFINE front == SubSeq(q, 1, i - 1)
           back == SubSeq(q, i + 1, Len(q))
<1>1. /\ front \in Seq(S) /\ Len(front) = i - 1
      /\ \A j \in 1 .. i - 1 : front[j] = q[j]
  OBVIOUS
<1>2. /\ back \in Seq(S) /\ Len(back) = Len(q) - i
      /\ \A j \in 1 .. Len(q) - i : back[j] = q[i + j]
  OBVIOUS
<1>3. RemoveAt(q, i) = front \o back
  BY DEF RemoveAt
<1> HIDE DEF front, back
<1>4. /\ front \o back \in Seq(S)
      /\ Len(front \o back) = Len(front) + Len(back)
      /\ \A j \in 1 .. Len(front) + Len(back) :
            (front \o back)[j] = IF j <= Len(front) THEN front[j] ELSE back[j - Len(front)]
  BY <1>1, <1>2, ConcatProperties
<1>5. Len(q) \in Nat /\ i \in Nat /\ 1 <= i /\ i <= Len(q)
  OBVIOUS
<1>6. Len(front) + Len(back) = Len(q) - 1
  BY <1>1, <1>2, <1>5
<1>7. ASSUME NEW j \in 1 .. Len(q) - 1
      PROVE  RemoveAt(q, i)[j] = IF j < i THEN q[j] ELSE q[j + 1]
  <2>1. j \in Nat /\ 1 <= j /\ j <= Len(q) - 1
    BY <1>5
  <2>2. CASE j < i
    BY <1>1, <1>3, <1>4, <1>5, <1>6, <2>1, <2>2
  <2>3. CASE ~(j < i)
    <3>1. j - (i - 1) \in 1 .. Len(q) - i /\ i + (j - (i - 1)) = j + 1
      BY <1>5, <2>1, <2>3
    <3>2. back[j - (i - 1)] = q[j + 1]
      BY <1>2, <3>1
    <3>3. (front \o back)[j] = back[j - (i - 1)]
      BY <1>1, <1>4, <1>5, <1>6, <2>1, <2>3
    <3> QED BY <1>3, <2>3, <3>2, <3>3
  <2> QED BY <2>2, <2>3
<1> QED BY <1>3, <1>4, <1>6, <1>7

(* The place of the occurrence nearest to the front, which RemoveFirst     *)
(* takes out and SelectInSeq finds.                                        *)
FirstAt(q, e) == Min({k \in 1 .. Len(q) : q[k] = e})

LEMMA FirstIsNearest ==
  ASSUME NEW S, NEW q \in Seq(S), NEW e \in ToSet(q)
  PROVE  /\ FirstAt(q, e) \in 1 .. Len(q) /\ q[FirstAt(q, e)] = e
         /\ \A j \in 1 .. Len(q) : q[j] = e => FirstAt(q, e) <= j
<1> DEFINE I == {k \in 1 .. Len(q) : q[k] = e}
<1>1. PICK k \in 1 .. Len(q) : q[k] = e
  BY DEF ToSet
<1>2. Min(I) \in I /\ \A y \in I : Min(I) <= y
  <2>1. I \in SUBSET Nat /\ I # {}
    BY <1>1
  <2> HIDE DEF I
  <2> QED BY <2>1, LeastExists
<1> QED BY <1>2 DEF FirstAt

LEMMA FirstIsRemoved ==
  ASSUME NEW S, NEW q \in Seq(S), NEW e \in ToSet(q)
  PROVE  RemoveFirst(q, e) = RemoveAt(q, FirstAt(q, e))
<1>1. PICK k \in 1 .. Len(q) : q[k] = e
  BY DEF ToSet
<1>2. SelectInSeq(q, LAMBDA v : v = e) = FirstAt(q, e)
  BY <1>1 DEF SelectInSeq, FirstAt
<1> QED BY <1>1, <1>2 DEF RemoveFirst

LEMMA RemoveFirstElements ==
  ASSUME NEW S, NEW q \in Seq(S), NEW e \in ToSet(q)
  PROVE  /\ RemoveFirst(q, e) \in Seq(S)
         /\ Len(RemoveFirst(q, e)) = Len(q) - 1
         /\ \A j \in 1 .. Len(q) - 1 :
               RemoveFirst(q, e)[j] = IF j < FirstAt(q, e) THEN q[j] ELSE q[j + 1]
  BY FirstIsNearest, FirstIsRemoved, RemoveAtElements

-----------------------------------------------------------------------------
(* The places where an element occurs, and how many they are.              *)
Places(q, e) == {k \in 1 .. Len(q) : q[k] = e}

LEMMA PlacesAreFinite ==
  ASSUME NEW S, NEW q \in Seq(S), NEW e
  PROVE  /\ IsFiniteSet(Places(q, e)) /\ Cardinality(Places(q, e)) \in Nat
         /\ Cardinality(Places(q, e)) = 0 <=> e \notin ToSet(q)
<1>1. IsFiniteSet(1 .. Len(q))
  BY FS_Interval
<1>2. IsFiniteSet(Places(q, e))
  BY <1>1, FS_Subset DEF Places
<1>3. Cardinality(Places(q, e)) = 0 <=> Places(q, e) = {}
  BY <1>2, FS_EmptySet
<1>4. Places(q, e) = {} <=> e \notin ToSet(q)
  BY DEF Places, ToSet
<1> QED BY <1>2, <1>3, <1>4, FS_CardinalityType

(* A mapping that misses no place and meets none twice counts them.        *)
LEMMA SamePlaces ==
  ASSUME NEW S, NEW T, IsFiniteSet(S), NEW f \in [S -> T],
         \A a, b \in S : f[a] = f[b] => a = b, \A b \in T : \E a \in S : f[a] = b
  PROVE  Cardinality(T) = Cardinality(S)
<1>1. f \in Bijection(S, T)
  BY DEF Bijection, Injection, Surjection, IsInjective
<1> QED BY <1>1, FS_Bijection DEF ExistsBijection

LEMMA ConsCounts ==
  ASSUME NEW S, NEW q \in Seq(S), NEW e \in S, NEW d
  PROVE  Cardinality(Places(Cons(e, q), d)) =
            IF d = e THEN Cardinality(Places(q, d)) + 1 ELSE Cardinality(Places(q, d))
<1> DEFINE r == Cons(e, q)
           f == [k \in Places(q, d) |-> k + 1]
<1>1. /\ r \in Seq(S) /\ Len(r) = Len(q) + 1
      /\ \A j \in 1 .. Len(q) + 1 : r[j] = IF j = 1 THEN e ELSE q[j - 1]
  BY ConsElements
<1> HIDE DEF r
<1>2. Len(q) \in Nat
  OBVIOUS
<1>3. IsFiniteSet(Places(q, d)) /\ IsFiniteSet(Places(r, d))
  BY <1>1, PlacesAreFinite
<1>4. \A k \in Places(q, d) : k + 1 \in Places(r, d) \ {1}
  <2> TAKE k \in Places(q, d)
  <2>1. k \in 1 .. Len(q) /\ q[k] = d
    BY DEF Places
  <2>2. k + 1 \in 1 .. Len(q) + 1 /\ k + 1 # 1 /\ (k + 1) - 1 = k
    BY <1>2, <2>1
  <2>3. r[k + 1] = q[k]
    BY <1>1, <2>2
  <2> QED BY <1>1, <2>1, <2>2, <2>3 DEF Places
<1>5. \A j \in Places(r, d) \ {1} : j - 1 \in Places(q, d) /\ (j - 1) + 1 = j
  <2> TAKE j \in Places(r, d) \ {1}
  <2>1. j \in 1 .. Len(q) + 1 /\ r[j] = d /\ j # 1
    BY <1>1 DEF Places
  <2>2. j - 1 \in 1 .. Len(q) /\ (j - 1) + 1 = j
    BY <1>2, <2>1
  <2>3. r[j] = q[j - 1]
    BY <1>1, <2>1
  <2> QED BY <2>1, <2>2, <2>3 DEF Places
<1>6. Cardinality(Places(r, d) \ {1}) = Cardinality(Places(q, d))
  <2>1. f \in [Places(q, d) -> Places(r, d) \ {1}]
    BY <1>4
  <2>2. \A a, b \in Places(q, d) : f[a] = f[b] => a = b
    BY DEF Places
  <2>3. \A j \in Places(r, d) \ {1} : \E k \in Places(q, d) : f[k] = j
    BY <1>5
  <2> HIDE DEF f
  <2> QED BY <1>3, <2>1, <2>2, <2>3, SamePlaces
<1>7. 1 \in Places(r, d) <=> d = e
  BY <1>1, <1>2 DEF Places
<1>8. Cardinality(Places(r, d) \ {1}) =
        IF 1 \in Places(r, d) THEN Cardinality(Places(r, d)) - 1 ELSE Cardinality(Places(r, d))
  BY <1>3, FS_RemoveElement
<1>9. Cardinality(Places(r, d)) \in Nat /\ Cardinality(Places(q, d)) \in Nat
  BY <1>3, FS_CardinalityType
<1>10. CASE d = e
  BY <1>6, <1>7, <1>8, <1>9, <1>10 DEF r
<1>11. CASE d # e
  BY <1>6, <1>7, <1>8, <1>9, <1>11 DEF r
<1> QED BY <1>10, <1>11

LEMMA RemoveFirstCounts ==
  ASSUME NEW S, NEW q \in Seq(S), NEW e \in ToSet(q), NEW d
  PROVE  Cardinality(Places(RemoveFirst(q, e), d)) =
            IF d = e THEN Cardinality(Places(q, d)) - 1 ELSE Cardinality(Places(q, d))
<1> DEFINE r == RemoveFirst(q, e)
           p == FirstAt(q, e)
           f == [j \in Places(r, d) |-> IF j < p THEN j ELSE j + 1]
<1>1. /\ r \in Seq(S) /\ Len(r) = Len(q) - 1
      /\ \A j \in 1 .. Len(q) - 1 : r[j] = IF j < p THEN q[j] ELSE q[j + 1]
  BY RemoveFirstElements
<1>2. p \in 1 .. Len(q) /\ q[p] = e /\ Len(q) \in Nat
  BY FirstIsNearest
<1> HIDE DEF r, p
<1>3. IsFiniteSet(Places(q, d)) /\ IsFiniteSet(Places(r, d))
  BY <1>1, PlacesAreFinite
<1>4. \A j \in Places(r, d) : (IF j < p THEN j ELSE j + 1) \in Places(q, d) \ {p}
  <2> TAKE j \in Places(r, d)
  <2>1. j \in 1 .. Len(q) - 1 /\ r[j] = d
    BY <1>1 DEF Places
  <2>2. CASE j < p
    <3>1. r[j] = q[j] /\ j \in 1 .. Len(q) /\ j # p
      BY <1>1, <1>2, <2>1, <2>2
    <3> QED BY <2>1, <2>2, <3>1 DEF Places
  <2>3. CASE ~(j < p)
    <3>1. r[j] = q[j + 1]
      BY <1>1, <2>1, <2>3
    <3>2. j + 1 \in 1 .. Len(q) /\ j + 1 # p
      BY <1>2, <2>1, <2>3
    <3> QED BY <2>1, <2>3, <3>1, <3>2 DEF Places
  <2> QED BY <2>2, <2>3
<1>5. \A k \in Places(q, d) \ {p} : \E j \in Places(r, d) : (IF j < p THEN j ELSE j + 1) = k
  <2> TAKE k \in Places(q, d) \ {p}
  <2>1. k \in 1 .. Len(q) /\ q[k] = d /\ k # p
    BY DEF Places
  <2>2. CASE k < p
    <3>1. k \in 1 .. Len(q) - 1
      BY <1>2, <2>1, <2>2
    <3>2. r[k] = q[k]
      BY <1>1, <2>2, <3>1
    <3>3. k \in Places(r, d)
      BY <1>1, <2>1, <3>1, <3>2 DEF Places
    <3> QED BY <2>2, <3>3
  <2>3. CASE ~(k < p)
    <3>1. k - 1 \in 1 .. Len(q) - 1 /\ ~(k - 1 < p) /\ (k - 1) + 1 = k
      BY <1>2, <2>1, <2>3
    <3>2. r[k - 1] = q[k]
      BY <1>1, <3>1
    <3>3. k - 1 \in Places(r, d)
      BY <1>1, <2>1, <3>1, <3>2 DEF Places
    <3> QED BY <3>1, <3>3
  <2> QED BY <2>2, <2>3
<1>6. Cardinality(Places(q, d) \ {p}) = Cardinality(Places(r, d))
  <2>1. f \in [Places(r, d) -> Places(q, d) \ {p}]
    BY <1>4
  <2>2. \A a, b \in Places(r, d) : f[a] = f[b] => a = b
    <3>1. Places(r, d) \subseteq Int /\ p \in Int
      BY <1>2 DEF Places
    <3> QED BY <3>1
  <2>3. \A k \in Places(q, d) \ {p} : \E j \in Places(r, d) : f[j] = k
    BY <1>5
  <2> HIDE DEF f
  <2> QED BY <1>3, <2>1, <2>2, <2>3, SamePlaces
<1>7. p \in Places(q, d) <=> d = e
  BY <1>2 DEF Places
<1>8. Cardinality(Places(q, d) \ {p}) =
        IF p \in Places(q, d) THEN Cardinality(Places(q, d)) - 1 ELSE Cardinality(Places(q, d))
  BY <1>3, FS_RemoveElement
<1>9. CASE d = e
  BY <1>6, <1>7, <1>8, <1>9 DEF r
<1>10. CASE d # e
  BY <1>6, <1>7, <1>8, <1>10 DEF r
<1> QED BY <1>9, <1>10

(* How often an element occurs, when n elements are taken off the front,   *)
(* when one is appended, and when two sequences are put together.          *)
PlacesUpTo(n, q, e) == {k \in 1 .. n : q[k] = e}

LEMMA PlacesUpToAreFinite ==
  ASSUME NEW n \in Nat, NEW q, NEW e
  PROVE  IsFiniteSet(PlacesUpTo(n, q, e)) /\ Cardinality(PlacesUpTo(n, q, e)) \in Nat
<1>1. IsFiniteSet(1 .. n) /\ PlacesUpTo(n, q, e) \subseteq 1 .. n
  BY FS_Interval DEF PlacesUpTo
<1> QED BY <1>1, FS_Subset, FS_CardinalityType

LEMMA CountsBehind ==
  ASSUME NEW S, NEW q \in Seq(S), NEW r \in Seq(S), NEW n \in 0 .. Len(q), NEW d,
         Len(r) = Len(q) - n, \A k \in 1 .. Len(q) - n : r[k] = q[k + n]
  PROVE  /\ Cardinality(PlacesUpTo(n, q, d)) \in Nat
         /\ Cardinality(Places(q, d)) =
              Cardinality(PlacesUpTo(n, q, d)) + Cardinality(Places(r, d))
<1> DEFINE A == PlacesUpTo(n, q, d)
           B == {k \in n + 1 .. Len(q) : q[k] = d}
           f == [k \in Places(r, d) |-> k + n]
<1>1. Places(q, d) = A \cup B /\ A \cap B = {}
  BY DEF Places, PlacesUpTo
<1>2. IsFiniteSet(Places(q, d)) /\ IsFiniteSet(Places(r, d))
      /\ Cardinality(Places(r, d)) \in Nat
  BY PlacesAreFinite
<1>3. IsFiniteSet(A) /\ IsFiniteSet(B)
  <2> A \in SUBSET Places(q, d) /\ B \in SUBSET Places(q, d)
    BY <1>1
  <2> HIDE DEF A, B
  <2> QED BY <1>2, FS_Subset
<1>4. Cardinality(B) = Cardinality(Places(r, d))
  <2>1. f \in [Places(r, d) -> B]
    BY DEF Places
  <2>2. \A a, b \in Places(r, d) : f[a] = f[b] => a = b
    BY DEF Places
  <2>3. \A b \in B : \E a \in Places(r, d) : f[a] = b
    <3> TAKE b \in B
    <3>1. b - n \in 1 .. Len(q) - n /\ (b - n) + n = b
      OBVIOUS
    <3>2. b - n \in Places(r, d)
      BY <3>1 DEF Places
    <3> QED BY <3>1, <3>2
  <2> HIDE DEF f, B
  <2> QED BY <1>2, <2>1, <2>2, <2>3, SamePlaces
<1> HIDE DEF A, B
<1>5. Cardinality(Places(q, d)) = Cardinality(A) + Cardinality(B) - Cardinality({})
  BY <1>1, <1>3, FS_Union
<1>6. Cardinality(A) \in Nat /\ Cardinality({}) = 0
  BY <1>3, FS_CardinalityType, FS_EmptySet
<1> QED BY <1>2, <1>4, <1>5, <1>6 DEF A

LEMMA CountsAppended ==
  ASSUME NEW S, NEW q \in Seq(S), NEW e \in S, NEW d
  PROVE  Cardinality(Places(Append(q, e), d)) =
           IF d = e THEN Cardinality(Places(q, d)) + 1 ELSE Cardinality(Places(q, d))
<1>1. /\ Len(Append(q, e)) = Len(q) + 1 /\ Append(q, e)[Len(q) + 1] = e
      /\ \A k \in 1 .. Len(q) : Append(q, e)[k] = q[k]
  BY AppendProperties
<1>2. IsFiniteSet(Places(q, d)) /\ Len(q) + 1 \notin Places(q, d)
  <2>1. IsFiniteSet(Places(q, d))
    BY PlacesAreFinite
  <2>2. Len(q) + 1 \notin Places(q, d)
    BY DEF Places
  <2> QED BY <2>1, <2>2
<1>3. CASE d = e
  <2>1. Places(Append(q, e), d) = Places(q, d) \cup {Len(q) + 1}
    BY <1>1, <1>3 DEF Places
  <2>2. Cardinality(Places(q, d) \cup {Len(q) + 1}) = Cardinality(Places(q, d)) + 1
    BY ONLY <1>2, FS_AddElement
  <2> QED BY <1>3, <2>1, <2>2
<1>4. CASE d # e
  <2>1. Places(Append(q, e), d) = Places(q, d)
    BY <1>1, <1>4 DEF Places
  <2> QED BY <1>4, <2>1
<1> QED BY <1>3, <1>4

LEMMA CountsConcat ==
  ASSUME NEW S, NEW q \in Seq(S), NEW r \in Seq(S), NEW d
  PROVE  Cardinality(Places(q \o r, d)) = Cardinality(Places(q, d)) + Cardinality(Places(r, d))
<1>1. PICK w : w = q \o r
  OBVIOUS
<1>2. PICK n : n = Len(q)
  OBVIOUS
<1>3. /\ w \in Seq(S) /\ Len(w) = n + Len(r) /\ n \in 0 .. Len(w) /\ Len(r) = Len(w) - n
      /\ \A k \in 1 .. n : w[k] = q[k]
      /\ \A k \in 1 .. Len(w) - n : r[k] = w[k + n]
  BY <1>1, <1>2, ConcatProperties
<1>4. PlacesUpTo(n, w, d) = Places(q, d)
  BY <1>2, <1>3 DEF PlacesUpTo, Places
<1>5. /\ w \in Seq(S) /\ r \in Seq(S) /\ n \in 0 .. Len(w) /\ Len(r) = Len(w) - n
      /\ \A k \in 1 .. Len(w) - n : r[k] = w[k + n]
  BY <1>3
<1>6. Cardinality(Places(w, d)) = Cardinality(PlacesUpTo(n, w, d)) + Cardinality(Places(r, d))
  BY ONLY <1>5, CountsBehind
<1> QED BY <1>1, <1>4, <1>6

-----------------------------------------------------------------------------
(* Selected(q, K): that the function it is defined by exists and is unique,*)
(* and what it makes of a sequence that grows.                             *)
IsSelection(f, q, K, n) ==
    f = [k \in 0 .. n |-> IF k = 0 THEN << >>
                          ELSE IF k \in K THEN Append(f[k - 1], q[k]) ELSE f[k - 1]]

LEMMA SelectionExists ==
  ASSUME NEW q, NEW K, NEW n \in Nat
  PROVE  \E f : IsSelection(f, q, K, n)
<1> DEFINE Bad == {m \in Nat : ~ \E f : IsSelection(f, q, K, m)}
<1> SUFFICES ASSUME Bad # {} PROVE FALSE
  OBVIOUS
<1>1. PICK m \in Bad : \A y \in Bad : m <= y
  <2>1. Bad \in SUBSET Nat
    OBVIOUS
  <2> HIDE DEF Bad
  <2> QED BY <2>1, LeastExists
<1>2. CASE m = 0
  <2> DEFINE f == [k \in 0 .. 0 |-> << >>]
  <2>1. IsSelection(f, q, K, 0)
    BY DEF IsSelection
  <2> QED BY <1>1, <1>2, <2>1
<1>3. CASE m # 0
  <2>1. m - 1 \in Nat /\ m - 1 \notin Bad
    BY <1>1, <1>3
  <2>2. PICK f : IsSelection(f, q, K, m - 1)
    BY <2>1
  <2> DEFINE next == IF m \in K THEN Append(f[m - 1], q[m]) ELSE f[m - 1]
             g == [k \in 0 .. m |-> IF k = m THEN next ELSE f[k]]
  <2>3. \A k \in 0 .. m - 1 : g[k] = f[k]
    BY <2>1
  <2>4. \A k \in 0 .. m - 1 :
          f[k] = IF k = 0 THEN << >> ELSE IF k \in K THEN Append(f[k - 1], q[k]) ELSE f[k - 1]
    BY <2>2 DEF IsSelection
  <2>5. \A k \in 0 .. m :
          g[k] = IF k = 0 THEN << >> ELSE IF k \in K THEN Append(g[k - 1], q[k]) ELSE g[k - 1]
    <3> TAKE k \in 0 .. m
    <3>1. CASE k = m
      <4>1. g[m] = next /\ g[m - 1] = f[m - 1]
        BY <2>1, <2>3
      <4> QED BY <1>3, <3>1, <4>1
    <3>2. CASE k # m
      <4>1. k \in 0 .. m - 1 /\ (k # 0 => k - 1 \in 0 .. m - 1)
        BY <1>1, <3>2
      <4>2. g[k] = f[k] /\ (k # 0 => g[k - 1] = f[k - 1])
        BY <2>3, <4>1
      <4> HIDE DEF g
      <4> QED BY <2>4, <4>1, <4>2
    <3> QED BY <3>1, <3>2
  <2>6. IsSelection(g, q, K, m)
    <3>1. g = [k \in 0 .. m |-> g[k]]
      OBVIOUS
    <3> HIDE DEF g
    <3> QED BY <2>5, <3>1 DEF IsSelection
  <2> HIDE DEF g
  <2> QED BY <1>1, <2>6
<1> QED BY <1>2, <1>3

LEMMA SelectionUnique ==
  ASSUME NEW q, NEW r, NEW K, NEW L, NEW n \in Nat, NEW m \in n .. n + 1, NEW f, NEW g,
         IsSelection(f, q, K, n), IsSelection(g, r, L, m),
         \A k \in 1 .. n : q[k] = r[k] /\ (k \in K <=> k \in L)
  PROVE  f[n] = g[n]
<1> DEFINE Bad == {k \in 0 .. n : f[k] # g[k]}
<1> SUFFICES ASSUME Bad # {} PROVE FALSE
  BY SMT
<1>1. PICK k \in Bad : \A y \in Bad : k <= y
  <2>1. Bad \in SUBSET Nat
    OBVIOUS
  <2> HIDE DEF Bad
  <2> QED BY <2>1, LeastExists
<1>2. k \in 0 .. n /\ k \in 0 .. m /\ f[k] # g[k]
  OBVIOUS
<1>3. /\ f[k] = IF k = 0 THEN << >> ELSE IF k \in K THEN Append(f[k - 1], q[k]) ELSE f[k - 1]
      /\ g[k] = IF k = 0 THEN << >> ELSE IF k \in L THEN Append(g[k - 1], r[k]) ELSE g[k - 1]
  <2> HIDE DEF Bad
  <2>1. f[k] = IF k = 0 THEN << >> ELSE IF k \in K THEN Append(f[k - 1], q[k]) ELSE f[k - 1]
    BY <1>2 DEF IsSelection
  <2>2. g[k] = IF k = 0 THEN << >> ELSE IF k \in L THEN Append(g[k - 1], r[k]) ELSE g[k - 1]
    BY <1>2 DEF IsSelection
  <2> QED BY <2>1, <2>2
<1>4. k # 0
  BY <1>3, <1>2
<1>5. k \in 1 .. n /\ k - 1 \in 0 .. n /\ k - 1 \notin Bad
  BY <1>1, <1>2, <1>4
<1>6. f[k - 1] = g[k - 1]
  BY <1>5
<1> HIDE DEF Bad
<1> QED BY <1>3, <1>2, <1>4, <1>5, <1>6

LEMMA SelectedIs ==
  ASSUME NEW S, NEW q \in Seq(S), NEW K
  PROVE  \E f : IsSelection(f, q, K, Len(q)) /\ Selected(q, K) = f[Len(q)]
<1>1. Len(q) \in Nat
  OBVIOUS
<1>2. \E f : IsSelection(f, q, K, Len(q))
  BY <1>1, SelectionExists
<1> QED BY <1>2 DEF Selected, IsSelection

LEMMA SelectedSame ==
  ASSUME NEW S, NEW q \in Seq(S), NEW K, NEW L, \A k \in 1 .. Len(q) : k \in K <=> k \in L
  PROVE  Selected(q, K) = Selected(q, L)
<1>1. Len(q) \in Nat /\ Len(q) \in Len(q) .. Len(q) + 1
  OBVIOUS
<1>2. PICK f : IsSelection(f, q, K, Len(q)) /\ Selected(q, K) = f[Len(q)]
  BY SelectedIs
<1>3. PICK g : IsSelection(g, q, L, Len(q)) /\ Selected(q, L) = g[Len(q)]
  BY SelectedIs
<1>4. f[Len(q)] = g[Len(q)]
  BY <1>1, <1>2, <1>3, SelectionUnique
<1> QED BY <1>2, <1>3, <1>4

LEMMA SelectedEmpty ==
  ASSUME NEW K
  PROVE  Selected(<< >>, K) = << >>
<1>1. << >> \in Seq({}) /\ Len(<< >>) = 0
  OBVIOUS
<1>2. PICK f : IsSelection(f, << >>, K, 0) /\ Selected(<< >>, K) = f[0]
  BY <1>1, SelectedIs
<1> QED BY <1>2 DEF IsSelection

LEMMA SelectedAppend ==
  ASSUME NEW S, NEW q \in Seq(S), NEW e \in S, NEW K
  PROVE  Selected(Append(q, e), K) =
           IF Len(q) + 1 \in K THEN Append(Selected(q, K), e) ELSE Selected(q, K)
<1> DEFINE n == Len(q)
           r == Append(q, e)
<1>1. /\ n \in Nat /\ n + 1 \in n .. n + 1 /\ r \in Seq(S) /\ Len(r) = n + 1 /\ r[n + 1] = e
      /\ \A k \in 1 .. n : r[k] = q[k]
  OBVIOUS
<1> HIDE DEF r
<1>2. PICK f : IsSelection(f, q, K, n) /\ Selected(q, K) = f[n]
  BY SelectedIs
<1>3. PICK g : IsSelection(g, r, K, n + 1) /\ Selected(r, K) = g[n + 1]
  BY <1>1, SelectedIs
<1> HIDE DEF n
<1>4. f[n] = g[n]
  BY <1>1, <1>2, <1>3, SelectionUnique
<1>5. g[n + 1] = IF n + 1 \in K THEN Append(g[n], r[n + 1]) ELSE g[n]
  <2>1. n + 1 \in 0 .. n + 1 /\ n + 1 # 0 /\ (n + 1) - 1 = n
    BY <1>1
  <2>2. g[n + 1] = IF n + 1 = 0 THEN << >>
                   ELSE IF n + 1 \in K THEN Append(g[(n + 1) - 1], r[n + 1]) ELSE g[(n + 1) - 1]
    BY <1>3, <2>1 DEF IsSelection
  <2> QED BY <2>1, <2>2
<1> QED BY <1>1, <1>2, <1>3, <1>4, <1>5 DEF r, n

(* What is selected from a sequence are elements of it.                    *)
LEMMA SelectedIn ==
  ASSUME NEW S, NEW q \in Seq(S), NEW K
  PROVE  Selected(q, K) \in Seq(S)
<1>1. PICK f : IsSelection(f, q, K, Len(q)) /\ Selected(q, K) = f[Len(q)]
  BY SelectedIs
<1> DEFINE Bad == {n \in 0 .. Len(q) : f[n] \notin Seq(S)}
<1>2. Bad = {}
  <2> SUFFICES ASSUME Bad # {} PROVE FALSE
    OBVIOUS
  <2>1. PICK n \in Bad : \A y \in Bad : n <= y
    <3>1. Bad \in SUBSET Nat
      OBVIOUS
    <3> HIDE DEF Bad
    <3> QED BY <3>1, LeastExists
  <2>2. n \in 0 .. Len(q) /\ Len(q) \in Nat /\ f[n] \notin Seq(S)
    OBVIOUS
  <2>3. f[n] = IF n = 0 THEN << >> ELSE IF n \in K THEN Append(f[n - 1], q[n]) ELSE f[n - 1]
    BY <1>1, <2>2 DEF IsSelection
  <2>4. << >> \in Seq(S)
    OBVIOUS
  <2>5. n # 0
    BY <2>2, <2>3, <2>4
  <2>6. n - 1 \in 0 .. Len(q) /\ n - 1 \notin Bad /\ n \in 1 .. Len(q)
    BY <2>1, <2>2, <2>5
  <2>7. f[n - 1] \in Seq(S) /\ q[n] \in S
    BY <2>6
  <2> HIDE DEF Bad
  <2> QED BY <2>2, <2>3, <2>5, <2>7
<1>3. Len(q) \in 0 .. Len(q)
  OBVIOUS
<1> QED BY <1>1, <1>2, <1>3

LEMMA SelectedGrows ==
  ASSUME NEW S, NEW q \in Seq(S), NEW e \in S, NEW K, NEW L,
         \A k \in 1 .. Len(q) : k \in K <=> k \in L
  PROVE  Selected(Append(q, e), L) =
           IF Len(q) + 1 \in L THEN Append(Selected(q, K), e) ELSE Selected(q, K)
<1>1. Selected(q, K) = Selected(q, L)
  BY SelectedSame
<1> QED BY <1>1, SelectedAppend

(* Of the elements a selection keeps, the first to the last.               *)
UpTo(f, q, K, low, high, n) ==
    /\ low + Len(f[n]) <= high
    /\ \A j \in 1 .. Len(f[n]) : f[n][j].message = low + j
    /\ \A i \in K : IF i <= n THEN q[i].message <= low + Len(f[n])
                              ELSE q[i].message > low + Len(f[n])

LEMMA SelectionIsNumbered ==
  ASSUME NEW S, NEW q \in Seq(S), NEW K \in SUBSET (1 .. Len(q)),
         NEW low \in Nat, NEW high \in Nat, low <= high, NEW f, IsSelection(f, q, K, Len(q)),
         \A i \in K : q[i].message \in low + 1 .. high,
         \A i, j \in K : i < j => q[i].message < q[j].message,
         \A x \in low + 1 .. high : \E i \in K : q[i].message = x
  PROVE  \A n \in 0 .. Len(q) : f[n] \in Seq(S) /\ UpTo(f, q, K, low, high, n)
<1> DEFINE Bad == {n \in 0 .. Len(q) : ~ (f[n] \in Seq(S) /\ UpTo(f, q, K, low, high, n))}
<1> SUFFICES ASSUME Bad # {} PROVE FALSE
  OBVIOUS
<1>1. PICK n \in Bad : \A y \in Bad : n <= y
  <2>1. Bad \in SUBSET Nat
    OBVIOUS
  <2> HIDE DEF Bad
  <2> QED BY <2>1, LeastExists
<1>2. n \in 0 .. Len(q) /\ Len(q) \in Nat /\ ~ (f[n] \in Seq(S) /\ UpTo(f, q, K, low, high, n))
  OBVIOUS
<1>3. f[n] = IF n = 0 THEN << >> ELSE IF n \in K THEN Append(f[n - 1], q[n]) ELSE f[n - 1]
  BY <1>2 DEF IsSelection
<1>4. CASE n = 0
  <2>1. f[n] = << >> /\ Len(f[n]) = 0 /\ f[n] \in Seq(S)
    BY <1>3, <1>4
  <2>2. UpTo(f, q, K, low, high, n)
    BY <2>1, <1>4 DEF UpTo
  <2> QED BY <1>2, <2>1, <2>2
<1>5. CASE n # 0
  <2> DEFINE m == n - 1
  <2>1. m \in Nat /\ n = m + 1 /\ n \in 1 .. Len(q) /\ m \in 0 .. Len(q) /\ m \notin Bad
    BY <1>1, <1>2, <1>5
  <2>2. f[m] \in Seq(S) /\ UpTo(f, q, K, low, high, m)
    BY <2>1
  <2> HIDE DEF m, Bad
  <2>3. Len(f[m]) \in Nat /\ \A i \in K : i \in Nat /\ q[i].message \in Nat
    BY <2>2
  <2>4. CASE n \notin K
    <3>1. f[n] = f[m]
      BY <1>3, <1>5, <2>4 DEF m
    <3>2. UpTo(f, q, K, low, high, n)
      BY <2>1, <2>2, <2>3, <2>4, <3>1 DEF UpTo
    <3> QED BY <1>2, <2>2, <3>1, <3>2
  <2>5. CASE n \in K
    <3> DEFINE x == low + Len(f[m]) + 1
    <3>1. f[n] = Append(f[m], q[n]) /\ q[n] \in S
      BY <1>3, <1>5, <2>1, <2>5 DEF m
    <3>2. /\ f[n] \in Seq(S) /\ Len(f[n]) = Len(f[m]) + 1 /\ f[n][Len(f[n])] = q[n]
          /\ \A j \in 1 .. Len(f[m]) : f[n][j] = f[m][j]
      BY <2>2, <3>1
    <3>3. q[n].message \in low + 1 .. high /\ q[n].message >= x /\ x \in Nat
      BY <2>1, <2>2, <2>3, <2>5 DEF UpTo
    <3>4. q[n].message = x
      <4> SUFFICES ASSUME q[n].message # x PROVE FALSE
        OBVIOUS
      <4>1. x < q[n].message /\ x \in low + 1 .. high
        <5>1. low \in Nat /\ high \in Nat /\ Len(f[m]) \in Nat /\ q[n].message \in Int
          BY <2>3, <3>3
        <5>2. x \in Int /\ low + 1 <= x
          BY <5>1
        <5> HIDE DEF x
        <5>3. x < q[n].message /\ q[n].message <= high
          BY <3>3, <5>1, <5>2
        <5> QED BY <5>1, <5>2, <5>3
      <4>2. PICK i \in K : q[i].message = x
        BY <4>1
      <4>3. i > n
        <5>1. ~ (q[i].message <= low + Len(f[m]))
          BY <2>3, <4>2
        <5>2. i <= m => q[i].message <= low + Len(f[m])
          BY <2>2 DEF UpTo
        <5>3. i # n
          BY <4>1, <4>2
        <5> QED BY <2>1, <2>3, <5>1, <5>2, <5>3
      <4> QED BY <2>5, <3>3, <4>1, <4>2, <4>3
    <3>5. ASSUME NEW j \in 1 .. Len(f[n]) PROVE f[n][j].message = low + j
      <4>1. CASE j = Len(f[n])
        BY <2>3, <3>2, <3>4, <4>1
      <4>2. CASE j # Len(f[n])
        <5>1. j \in 1 .. Len(f[m])
          BY <2>3, <3>2, <4>2
        <5> QED BY <2>2, <3>2, <5>1 DEF UpTo
      <4> QED BY <4>1, <4>2
    <3>6. ASSUME NEW i \in K
          PROVE  IF i <= n THEN q[i].message <= low + Len(f[n])
                           ELSE q[i].message > low + Len(f[n])
      <4>1. low + Len(f[n]) = x /\ i \in Nat /\ q[i].message \in Nat
        BY <2>3, <3>2
      <4>2. CASE i <= m
        <5>1. q[i].message <= low + Len(f[m]) /\ i <= n
          BY <2>1, <2>2, <4>1, <4>2 DEF UpTo
        <5> QED BY <2>3, <3>2, <5>1
      <4>3. CASE i = n
        BY <2>1, <3>4, <4>1, <4>3
      <4>4. CASE i > n
        BY <2>1, <2>5, <3>4, <4>1, <4>4
      <4> QED BY <2>1, <4>1, <4>2, <4>3, <4>4
    <3>7. UpTo(f, q, K, low, high, n)
      <4>1. low + Len(f[n]) <= high
        BY <2>3, <3>2, <3>3, <3>4
      <4> QED BY <3>5, <3>6, <4>1 DEF UpTo
    <3> QED BY <1>2, <3>2, <3>7
  <2> QED BY <2>4, <2>5
<1> QED BY <1>4, <1>5

(* Elements numbered one after the other, wherever they stand in q, stand  *)
(* so in the selection.                                                    *)
LEMMA SelectedNumbers ==
  ASSUME NEW S, NEW q \in Seq(S), NEW K \in SUBSET (1 .. Len(q)),
         NEW low \in Nat, NEW high \in Nat, low <= high,
         \A i \in K : q[i].message \in low + 1 .. high,
         \A i, j \in K : i < j => q[i].message < q[j].message,
         \A x \in low + 1 .. high : \E i \in K : q[i].message = x
  PROVE  /\ Selected(q, K) \in Seq(S) /\ Len(Selected(q, K)) = high - low
         /\ \A j \in 1 .. high - low : Selected(q, K)[j].message = low + j
<1> DEFINE own == Selected(q, K)
<1>1. PICK f : IsSelection(f, q, K, Len(q)) /\ own = f[Len(q)]
  BY SelectedIs
<1>2. \A n \in 0 .. Len(q) : f[n] \in Seq(S) /\ UpTo(f, q, K, low, high, n)
  BY <1>1, SelectionIsNumbered
<1>3. own \in Seq(S) /\ UpTo(f, q, K, low, high, Len(q)) /\ Len(q) \in Nat
  BY <1>1, <1>2
<1> HIDE DEF own
<1>4. Len(own) \in Nat
  BY <1>3
<1>5. \A i \in K : i <= Len(q) /\ q[i].message <= low + Len(own)
  BY <1>1, <1>3 DEF UpTo
<1>6. ~ (low + Len(own) < high)
  <2> SUFFICES ASSUME low + Len(own) < high PROVE FALSE
    OBVIOUS
  <2>1. low + Len(own) + 1 \in low + 1 .. high
    BY <1>4
  <2>2. PICK i \in K : q[i].message = low + Len(own) + 1
    BY <2>1
  <2> QED BY <1>4, <1>5, <2>2
<1>7. \A j \in 1 .. Len(own) : own[j].message = low + j
  BY <1>1, <1>3 DEF UpTo
<1>8. low + Len(own) <= high
  BY <1>1, <1>3 DEF UpTo
<1>9. Len(own) = high - low
  BY <1>4, <1>6, <1>8
<1>10. \A j \in 1 .. high - low : own[j].message = low + j
  BY <1>7, <1>9
<1> QED BY <1>3, <1>9, <1>10 DEF own
=============================================================================
