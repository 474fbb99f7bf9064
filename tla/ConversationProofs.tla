------------------------- MODULE ConversationProofs -------------------------
(* For any number of clients, commands and cuts and any sizes of buffers   *)
(* and connections: commands are executed as they were sent, and what a    *)
(* user is shown is what he was sent.                                      *)
EXTENDS Conversation, RosterLemmas

-----------------------------------------------------------------------------
(* What the loops over a receive buffer make of it.                        *)
Piece(S) == [item : S, part : {"front", "rest"}]

LEMMA EvenOrOdd == \A k \in Nat : \E j \in Nat : k = 2 * j \/ k = 2 * j + 1
<1> DEFINE Bad == {k \in Nat : ~ \E j \in Nat : k = 2 * j \/ k = 2 * j + 1}
<1> SUFFICES ASSUME Bad # {} PROVE FALSE
  OBVIOUS
<1>1. Bad \in SUBSET Nat
  OBVIOUS
<1>2. PICK k \in Bad : \A y \in Bad : k <= y
  BY <1>1, LeastExists
<1>3. k # 0
  <2>1. 0 = 2 * 0
    OBVIOUS
  <2> QED BY <2>1
<1>4. k - 1 \in Nat /\ k - 1 \notin Bad
  BY <1>2, <1>3
<1>5. PICK j \in Nat : k - 1 = 2 * j \/ k - 1 = 2 * j + 1
  BY <1>4
<1>6. k = 2 * j + 1 \/ k = 2 * (j + 1)
  BY <1>5
<1>7. \E i \in Nat : k = 2 * i \/ k = 2 * i + 1
  <2>1. j + 1 \in Nat
    OBVIOUS
  <2> QED BY <1>6, <2>1
<1> QED BY <1>2, <1>7

LEMMA ItemsAre ==
  ASSUME NEW S, NEW s \in Seq(Piece(S))
  PROVE  /\ Items(s) \in Seq(S) /\ Len(Items(s)) = Len(s)
         /\ \A k \in 1 .. Len(s) : Items(s)[k] = s[k].item
<1>1. Items(s) \in [1 .. Len(s) -> S]
  <2>1. \A k \in 1 .. Len(s) : s[k] \in Piece(S)
    OBVIOUS
  <2>2. \A k \in 1 .. Len(s) : s[k].item \in S
    BY <2>1 DEF Piece
  <2> QED BY <2>2 DEF Items
<1>2. Len(s) \in Nat
  OBVIOUS
<1> QED BY <1>1, <1>2 DEF Items

(* Strings that are there one behind the other, and perhaps the front of   *)
(* one more.                                                               *)
InARow(s, q) ==
    /\ \/ Len(s) = 2 * Len(q)
       \/ Len(s) = 2 * Len(q) + 1 /\ s[Len(s)].part = "front"
    /\ \A j \in 1 .. Len(q) : /\ s[2 * j - 1].part = "front" /\ s[2 * j].part = "rest"
                              /\ s[2 * j - 1].item = q[j]

LEMMA PlacesInARow ==
  ASSUME NEW S, NEW s \in Seq(Piece(S)), NEW q \in Seq(S), InARow(s, q)
  PROVE  /\ \A k \in Starts(s) : s[k].part = "front"
         /\ \A k \in 1 .. Len(s) : k \in WholeAt(s) <=> \E j \in 1 .. Len(q) : k = 2 * j - 1
<1>1. Len(q) \in Nat /\ Len(s) \in Nat
  OBVIOUS
<1>2. ASSUME NEW k \in 1 .. Len(s)
      PROVE  \/ \E j \in 1 .. Len(q) : k = 2 * j - 1 \/ k = 2 * j
             \/ k = 2 * Len(q) + 1 /\ s[k].part = "front"
  <2>1. PICK j \in Nat : k = 2 * j \/ k = 2 * j + 1
    <3>1. k \in Nat
      OBVIOUS
    <3> QED BY <3>1, EvenOrOdd
  <2>2. CASE k = 2 * j
    <3>1. j \in 1 .. Len(q)
      BY <1>1, <2>2 DEF InARow
    <3> QED BY <2>2, <3>1
  <2>3. CASE k = 2 * j + 1 /\ j < Len(q)
    <3>1. j + 1 \in 1 .. Len(q) /\ k = 2 * (j + 1) - 1
      BY <1>1, <2>3
    <3> QED BY <3>1
  <2>4. CASE k = 2 * j + 1 /\ j >= Len(q)
    <3>1. k = Len(s) /\ k = 2 * Len(q) + 1
      <4>1. Len(s) <= 2 * Len(q) + 1 /\ k <= Len(s)
        BY <1>1 DEF InARow
      <4> QED BY <4>1, <1>1, <2>4
    <3> QED BY <3>1, <1>1 DEF InARow
  <2> QED BY <2>1, <2>2, <2>3, <2>4, <1>1
<1>3. ASSUME NEW j \in 1 .. Len(q)
      PROVE  /\ 2 * j \notin Starts(s)
             /\ 2 * j - 1 \in Starts(s) => 2 * j - 1 \in WholeAt(s)
             /\ 2 * j \notin WholeAt(s)
             /\ 2 * j - 1 \in Starts(s)
  <2>1. s[2 * j - 1].part = "front" /\ s[2 * j].part = "rest"
        /\ 2 * j \in 1 .. Len(s) /\ 2 * j - 1 \in 1 .. Len(s) /\ 2 * j # 1 /\ 2 * j - 1 + 1 = 2 * j
    <3>1. s[2 * j - 1].part = "front" /\ s[2 * j].part = "rest"
      BY DEF InARow
    <3>2. Len(s) >= 2 * Len(q)
      BY <1>1 DEF InARow
    <3>3. j \in Nat /\ 1 <= j /\ j <= Len(q)
      BY <1>1
    <3>4. 1 <= 2 * j - 1 /\ 2 * j <= Len(s)
      BY <3>2, <3>3, <1>1
    <3> QED BY <3>1, <3>3, <3>4, <1>1
  <2>2. 2 * j - 1 = 1 \/ s[(2 * j - 1) - 1].part = "rest"
    <3>1. CASE j = 1
      BY <3>1
    <3>2. CASE j # 1
      <4>1. j - 1 \in 1 .. Len(q) /\ 2 * (j - 1) = (2 * j - 1) - 1
        BY <3>2, <1>1
      <4> QED BY <4>1 DEF InARow
    <3> QED BY <3>1, <3>2
  <2>3. 2 * j - 1 < Len(s)
    BY <2>1
  <2> QED BY <2>1, <2>2, <2>3 DEF Starts, WholeAt
<1>4. \A k \in Starts(s) : s[k].part = "front"
  <2> TAKE k \in Starts(s)
  <2>1. k \in 1 .. Len(s)
    BY DEF Starts
  <2>2. ASSUME NEW j \in 1 .. Len(q), k = 2 * j - 1 \/ k = 2 * j
        PROVE  s[k].part = "front"
    <3>1. k = 2 * j - 1
      BY <2>2, <1>3
    <3> QED BY <3>1 DEF InARow
  <2> QED BY <2>1, <2>2, <1>2
<1>5. ASSUME NEW k \in 1 .. Len(s)
      PROVE  k \in WholeAt(s) <=> \E j \in 1 .. Len(q) : k = 2 * j - 1
  <2>1. CASE \E j \in 1 .. Len(q) : k = 2 * j - 1
    BY <2>1, <1>3
  <2>2. CASE \E j \in 1 .. Len(q) : k = 2 * j
    <3>1. PICK j \in 1 .. Len(q) : k = 2 * j
      BY <2>2
    <3>2. \A i \in 1 .. Len(q) : k # 2 * i - 1
      BY <3>1
    <3> QED BY <3>1, <3>2, <1>3
  <2>3. CASE k = 2 * Len(q) + 1
    <3>1. Len(s) = k
      BY <2>3, <1>1 DEF InARow
    <3>2. k \notin WholeAt(s)
      BY <3>1, <1>1 DEF WholeAt
    <3>3. \A i \in 1 .. Len(q) : k # 2 * i - 1
      BY <2>3, <1>1
    <3> QED BY <3>2, <3>3
  <2> QED BY <2>1, <2>2, <2>3, <1>2
<1> QED BY <1>4, <1>5

LEMMA NothingCounts ==
  ASSUME NEW d
  PROVE  Cardinality(Places(<< >>, d)) = 0 /\ \A S : << >> \in Seq(S)
<1>1. Places(<< >>, d) = {}
  BY DEF Places
<1> QED BY <1>1, FS_EmptySet

(* A selection: where its elements come from; all of those at the odd      *)
(* places; and how often it holds something.                               *)
LEMMA SelectionPlaces ==
  ASSUME NEW S, NEW r \in Seq(S), NEW K
  PROVE  /\ Selected(r, K) \in Seq(S)
         /\ \E p \in [1 .. Len(Selected(r, K)) -> 1 .. Len(r)] :
              /\ \A i \in 1 .. Len(Selected(r, K)) : p[i] \in K /\ Selected(r, K)[i] = r[p[i]]
              /\ \A i, j \in 1 .. Len(Selected(r, K)) : i < j => p[i] < p[j]
<1>1. Len(r) \in Nat
  OBVIOUS
<1>2. PICK f : IsSelection(f, r, K, Len(r)) /\ Selected(r, K) = f[Len(r)]
  BY SelectedIs
<1>3. /\ f[0] = << >>
      /\ \A k \in 1 .. Len(r) : f[k] = IF k \in K THEN Append(f[k - 1], r[k]) ELSE f[k - 1]
  <2>1. \A k \in 0 .. Len(r) : f[k] = IF k = 0 THEN << >>
                          ELSE IF k \in K THEN Append(f[k - 1], r[k]) ELSE f[k - 1]
    BY <1>1, <1>2 DEF IsSelection
  <2>2. 0 \in 0 .. Len(r) /\ \A k \in 1 .. Len(r) : k \in 0 .. Len(r) /\ k # 0
    BY <1>1
  <2> QED BY <2>1, <2>2
<1> DEFINE At(p, g) == /\ \A i \in 1 .. Len(g) : p[i] \in K /\ g[i] = r[p[i]]
                       /\ \A i, j \in 1 .. Len(g) : i < j => p[i] < p[j]
           Fine(n) == f[n] \in Seq(S) /\ \E p \in [1 .. Len(f[n]) -> 1 .. n] : At(p, f[n])
           Bad == {n \in 0 .. Len(r) : ~Fine(n)}
<1>4. Bad = {}
  <2> SUFFICES ASSUME Bad # {} PROVE FALSE
    OBVIOUS
  <2>1. Bad \in SUBSET Nat
    OBVIOUS
  <2>2. PICK n \in Bad : \A y \in Bad : n <= y
    <3> HIDE DEF Bad
    <3> QED BY <2>1, LeastExists
  <2>3. n # 0
    <3>1. << >> \in Seq(S) /\ Len(<< >>) = 0
      OBVIOUS
    <3>2. [x \in 1 .. 0 |-> x] \in [1 .. Len(<< >>) -> 1 .. 0] /\ At([x \in 1 .. 0 |-> x], << >>)
      BY <3>1
    <3>3. \E p \in [1 .. Len(<< >>) -> 1 .. 0] : At(p, << >>)
      BY <3>2
    <3> HIDE DEF At
    <3>4. f[0] = << >>
      BY <1>3
    <3>5. Fine(0)
      BY <3>1, <3>3, <3>4
    <3> QED BY <3>5, <2>2
  <2>4. n \in 1 .. Len(r) /\ n - 1 \in 0 .. Len(r) /\ Fine(n - 1)
    <3>1. n \in 1 .. Len(r) /\ n - 1 \in 0 .. Len(r) /\ ~(n <= n - 1)
      BY <2>2, <2>3, <1>1
    <3>2. n - 1 \notin Bad
      BY <3>1, <2>2
    <3> QED BY <3>1, <3>2
  <2>5. PICK g : g = f[n - 1]
    OBVIOUS
  <2>6. PICK p \in [1 .. Len(g) -> 1 .. n - 1] : At(p, g)
    BY <2>4, <2>5
  <2>7. g \in Seq(S) /\ Len(g) \in Nat
    BY <2>4, <2>5
  <2>8. PICK l \in Nat : l = Len(g)
    BY <2>7
  <2>9. CASE n \in K
    <3>1. PICK h : h = Append(g, r[n])
      OBVIOUS
    <3>2. /\ f[n] = h /\ h \in Seq(S) /\ Len(h) = l + 1 /\ h[l + 1] = r[n]
          /\ \A i \in 1 .. l : h[i] = g[i]
      <4>1. r[n] \in S
        BY <2>4
      <4>2. f[n] = h
        BY <3>1, <2>4, <2>5, <2>9, <1>3
      <4>3. /\ Append(g, r[n]) \in Seq(S) /\ Len(Append(g, r[n])) = Len(g) + 1
            /\ \A i \in 1 .. Len(g) : Append(g, r[n])[i] = g[i]
            /\ Append(g, r[n])[Len(g) + 1] = r[n]
        BY <4>1, <2>7, AppendProperties
      <4> QED BY <4>2, <4>3, <3>1, <2>8
    <3> DEFINE o == [i \in 1 .. l + 1 |-> IF i = l + 1 THEN n ELSE p[i]]
    <3>3. \A i \in 1 .. l + 1 : i = l + 1 \/ i \in 1 .. l
      OBVIOUS
    <3>4. /\ \A i \in 1 .. l : p[i] \in 1 .. n - 1 /\ p[i] \in K /\ g[i] = r[p[i]]
          /\ \A i, j \in 1 .. l : i < j => p[i] < p[j]
      BY <2>6, <2>8
    <3>5. n \in Nat /\ n \in 1 .. n /\ \A x \in 1 .. n - 1 : x \in 1 .. n /\ x < n
      BY <2>4
    <3>6. o \in [1 .. l + 1 -> 1 .. n]
      BY <3>3, <3>4, <3>5
    <3>7. \A i \in 1 .. l + 1 : o[i] \in K /\ h[i] = r[o[i]]
      <4> TAKE i \in 1 .. l + 1
      <4>1. CASE i = l + 1
        BY <4>1, <3>2, <2>9
      <4>2. CASE i \in 1 .. l
        <5>1. i # l + 1
          BY <4>2
        <5> QED BY <4>2, <5>1, <3>2, <3>4
      <4> QED BY <4>1, <4>2, <3>3
    <3>8. ASSUME NEW i \in 1 .. l + 1, NEW j \in 1 .. l + 1, i < j
          PROVE  o[i] < o[j]
      <4>1. i \in 1 .. l /\ i # l + 1
        BY <3>8
      <4>2. o[i] = p[i] /\ p[i] < n
        BY <4>1, <3>4, <3>5
      <4>3. CASE j = l + 1
        BY <4>2, <4>3
      <4>4. CASE j \in 1 .. l
        <5>1. j # l + 1
          BY <4>4
        <5>2. o[j] = p[j] /\ p[i] < p[j]
          BY <4>1, <4>4, <5>1, <3>4, <3>8
        <5> QED BY <4>2, <5>2
      <4> QED BY <4>3, <4>4, <3>3
    <3> HIDE DEF o
    <3>9. Fine(n)
      <4>1. o \in [1 .. Len(f[n]) -> 1 .. n] /\ f[n] \in Seq(S)
        BY <3>2, <3>6
      <4>2. At(o, f[n])
        BY <3>2, <3>7, <3>8
      <4> QED BY <4>1, <4>2
    <3> QED BY <3>9, <2>2
  <2>10. CASE n \notin K
    <3>1. f[n] = g
      BY <2>4, <2>5, <2>10, <1>3
    <3>2. p \in [1 .. Len(g) -> 1 .. n]
      <4>1. 1 .. n - 1 \subseteq 1 .. n
        BY <2>4
      <4>2. p \in [1 .. Len(g) -> 1 .. n - 1]
        BY <2>6
      <4> HIDE DEF At
      <4> QED BY ONLY <4>1, <4>2
    <3>3. Fine(n)
      BY <3>1, <3>2, <2>6, <2>7
    <3> QED BY <3>3, <2>2
  <2> QED BY <2>9, <2>10
<1>5. Fine(Len(r))
  <2>1. Len(r) \in 0 .. Len(r)
    BY <1>1
  <2> QED BY <2>1, <1>4
<1> QED BY <1>2, <1>5

LEMMA SelectionOfOdds ==
  ASSUME NEW S, NEW r \in Seq(S), NEW q \in Seq(S), NEW K,
         Len(r) = 2 * Len(q) \/ Len(r) = 2 * Len(q) + 1,
         \A j \in 1 .. Len(q) : r[2 * j - 1] = q[j],
         \A k \in 1 .. Len(r) : k \in K <=> \E j \in 1 .. Len(q) : k = 2 * j - 1
  PROVE  Selected(r, K) = q
<1>1. /\ r \in Seq(S) /\ Len(q) \in Nat /\ Len(r) \in Nat
      /\ \A j \in 1 .. Len(q) : r[2 * j - 1] = q[j]
  OBVIOUS
<1>2. \A k \in 1 .. Len(r) : k \in K <=> \E j \in 1 .. Len(q) : k = 2 * j - 1
  OBVIOUS
<1>3. PICK f : IsSelection(f, r, K, Len(r)) /\ Selected(r, K) = f[Len(r)]
  BY <1>1, SelectedIs
<1>4. /\ f[0] = << >>
      /\ \A k \in 1 .. Len(r) : f[k] = IF k \in K THEN Append(f[k - 1], r[k]) ELSE f[k - 1]
  <2>1. \A k \in 0 .. Len(r) : f[k] = IF k = 0 THEN << >>
                          ELSE IF k \in K THEN Append(f[k - 1], r[k]) ELSE f[k - 1]
    BY <1>1, <1>3 DEF IsSelection
  <2>2. 0 \in 0 .. Len(r) /\ \A k \in 1 .. Len(r) : k \in 0 .. Len(r) /\ k # 0
    BY <1>1
  <2> QED BY <2>1, <2>2
<1> DEFINE Fine(n) == /\ f[2 * n] \in Seq(S) /\ Len(f[2 * n]) = n
                      /\ \A i \in 1 .. n : f[2 * n][i] = q[i]
           Bad == {n \in 0 .. Len(q) : ~Fine(n)}
<1>5. Bad = {}
  <2> SUFFICES ASSUME Bad # {} PROVE FALSE
    OBVIOUS
  <2>1. Bad \in SUBSET Nat
    OBVIOUS
  <2>2. PICK n \in Bad : \A y \in Bad : n <= y
    <3> HIDE DEF Bad
    <3> QED BY <2>1, LeastExists
  <2>3. n # 0
    <3>1. 2 * 0 = 0 /\ << >> \in Seq(S) /\ Len(<< >>) = 0
      OBVIOUS
    <3>2. Fine(0)
      <4>1. f[2 * 0] = << >>
        BY <3>1, <1>4
      <4> QED BY <3>1, <4>1
    <3> QED BY <3>2, <2>2
  <2>4. n \in 1 .. Len(q) /\ n - 1 \in 0 .. Len(q) /\ Fine(n - 1)
    <3>1. n \in 1 .. Len(q) /\ n - 1 \in 0 .. Len(q) /\ ~(n <= n - 1)
      BY <2>2, <2>3, <1>1
    <3>2. n - 1 \notin Bad
      BY <3>1, <2>2
    <3> QED BY <3>1, <3>2
  <2>5. 2 * n \in 1 .. Len(r) /\ 2 * n - 1 \in 1 .. Len(r)
        /\ 2 * n - 1 = (2 * n) - 1 /\ (2 * n - 1) - 1 = 2 * (n - 1)
    BY <2>4, <1>1
  <2>6. 2 * n - 1 \in K /\ 2 * n \notin K
    <3>1. \A j \in 1 .. Len(q) : 2 * n # 2 * j - 1
      BY <2>4
    <3> QED BY <2>4, <2>5, <3>1, <1>2
  <2> DEFINE g == f[2 * (n - 1)]
  <2>7. f[2 * n] = Append(g, q[n])
    <3>1. f[2 * n] = f[2 * n - 1]
      BY <2>5, <2>6, <1>4
    <3>2. f[2 * n - 1] = Append(f[(2 * n - 1) - 1], r[2 * n - 1])
      BY <2>5, <2>6, <1>4
    <3>3. r[2 * n - 1] = q[n]
      BY <2>4, <1>1
    <3> QED BY <3>1, <3>2, <3>3, <2>5
  <2>8. g \in Seq(S) /\ Len(g) = n - 1 /\ \A i \in 1 .. n - 1 : g[i] = q[i]
    BY <2>4
  <2> HIDE DEF g
  <2>9. q[n] \in S
    BY <2>4
  <2>10. /\ Append(g, q[n]) \in Seq(S) /\ Len(Append(g, q[n])) = n
         /\ \A i \in 1 .. n : Append(g, q[n])[i] = q[i]
    <3>1. PICK a : a = Append(g, q[n])
      OBVIOUS
    <3>2. /\ a \in Seq(S) /\ Len(a) = Len(g) + 1 /\ a[Len(g) + 1] = q[n]
          /\ \A i \in 1 .. Len(g) : a[i] = g[i]
      BY ONLY <2>8, <2>9, <3>1, AppendProperties
    <3>3. n \in Nat /\ Len(a) = n /\ a[n] = q[n] /\ \A i \in 1 .. n - 1 : a[i] = q[i]
      BY <2>4, <2>8, <3>2
    <3>4. ASSUME NEW i \in 1 .. n PROVE a[i] = q[i]
      <4>1. i = n \/ i \in 1 .. n - 1
        BY <3>3
      <4> QED BY <3>3, <4>1
    <3> QED BY <3>1, <3>2, <3>3, <3>4
  <2>11. Fine(n)
    BY <2>7, <2>10
  <2> QED BY <2>2, <2>11
<1>6. f[Len(r)] = f[2 * Len(q)]
  <2>1. CASE Len(r) = 2 * Len(q)
    BY <2>1, <1>1
  <2>2. CASE Len(r) = 2 * Len(q) + 1
    <3>1. Len(r) \in 1 .. Len(r) /\ Len(r) - 1 = 2 * Len(q)
      BY <2>2, <1>1
    <3>2. \A j \in 1 .. Len(q) : Len(r) # 2 * j - 1
      BY <2>2, <1>1
    <3>3. Len(r) \notin K
      BY <3>1, <3>2, <1>2
    <3> QED BY <3>1, <3>3, <1>1, <1>4
  <2> QED BY <2>1, <2>2
<1>7. Fine(Len(q))
  BY <1>1, <1>5
<1> HIDE DEF Bad
<1>8. f[Len(r)] = q
  <2> DEFINE g == f[2 * Len(q)]
  <2>1. g \in Seq(S) /\ Len(g) = Len(q) /\ \A i \in 1 .. Len(q) : g[i] = q[i]
    BY <1>7
  <2> HIDE DEF g
  <2>2. g = q
    BY <2>1, <1>1
  <2> QED BY <2>2, <1>6 DEF g
<1> QED BY <1>3, <1>8

LEMMA SelectionCounts ==
  ASSUME NEW R, NEW r \in Seq(R), NEW S, NEW s \in Seq(S), NEW K, NEW d, NEW e,
         Len(r) = Len(s), \A k \in 1 .. Len(s) : k \in K /\ r[k] = d => s[k] = e
  PROVE  Cardinality(Places(Selected(r, K), d)) <= Cardinality(Places(s, e))
<1>1. r \in Seq(R) /\ Len(r) = Len(s) /\ Len(s) \in Nat /\ \A k \in 1 .. Len(s) : r[k] \in R
  OBVIOUS
<1>2. \A k \in 1 .. Len(s) : k \in K /\ r[k] = d => s[k] = e
  OBVIOUS
<1>3. PICK f : IsSelection(f, r, K, Len(r)) /\ Selected(r, K) = f[Len(r)]
  BY <1>1, SelectedIs
<1>4. /\ f[0] = << >>
      /\ \A k \in 1 .. Len(s) : f[k] = IF k \in K THEN Append(f[k - 1], r[k]) ELSE f[k - 1]
  <2>1. \A k \in 0 .. Len(s) : f[k] = IF k = 0 THEN << >>
                          ELSE IF k \in K THEN Append(f[k - 1], r[k]) ELSE f[k - 1]
    BY <1>1, <1>3 DEF IsSelection
  <2>2. 0 \in 0 .. Len(s) /\ \A k \in 1 .. Len(s) : k \in 0 .. Len(s) /\ k # 0
    BY <1>1
  <2> QED BY <2>1, <2>2
<1> DEFINE Upto(n) == PlacesUpTo(n, s, e)
           Fine(n) == /\ f[n] \in Seq(R)
                      /\ Cardinality(Places(f[n], d)) <= Cardinality(Upto(n))
           Bad == {n \in 0 .. Len(s) : ~Fine(n)}
<1>5. ASSUME NEW n \in 0 .. Len(s)
      PROVE  IsFiniteSet(Upto(n)) /\ Cardinality(Upto(n)) \in Nat
  BY PlacesUpToAreFinite
<1>6. Bad = {}
  <2> SUFFICES ASSUME Bad # {} PROVE FALSE
    OBVIOUS
  <2>1. Bad \in SUBSET Nat
    OBVIOUS
  <2>2. PICK n \in Bad : \A y \in Bad : n <= y
    <3> HIDE DEF Bad
    <3> QED BY <2>1, LeastExists
  <2>3. n # 0
    <3>1. << >> \in Seq(R)
      OBVIOUS
    <3>2. Cardinality(Places(<< >>, d)) = 0
      BY NothingCounts
    <3>3. 0 \in 0 .. Len(s)
      BY <1>1
    <3>4. Cardinality(Upto(0)) \in Nat
      BY <3>3, <1>5
    <3>5. Fine(0)
      BY <3>1, <3>2, <3>4, <1>4
    <3> QED BY <3>5, <2>2
  <2>4. n \in 1 .. Len(s) /\ n - 1 \in 0 .. Len(s) /\ n \in 0 .. Len(s) /\ Fine(n - 1)
    <3>1. n \in 1 .. Len(s) /\ n - 1 \in 0 .. Len(s) /\ ~(n <= n - 1)
      BY <2>2, <2>3, <1>1
    <3>2. n - 1 \notin Bad
      BY <3>1, <2>2
    <3> QED BY <3>1, <3>2
  <2> DEFINE g == f[n - 1]
  <2>5. PICK A : A = Upto(n - 1)
    OBVIOUS
  <2>6. PICK B : B = Upto(n)
    OBVIOUS
  <2>7. /\ g \in Seq(R) /\ Cardinality(Places(g, d)) <= Cardinality(A)
        /\ f[n] = IF n \in K THEN Append(g, r[n]) ELSE g
        /\ IsFiniteSet(A) /\ Cardinality(A) \in Nat /\ IsFiniteSet(B) /\ Cardinality(B) \in Nat
    BY <1>4, <1>5, <2>4, <2>5, <2>6
  <2>8. A \subseteq B /\ n \notin A /\ (s[n] = e => B = A \cup {n})
    BY <2>4, <2>5, <2>6 DEF PlacesUpTo
  <2>9. Cardinality(Places(g, d)) \in Nat
    BY <2>7, PlacesAreFinite
  <2>10. Cardinality(A) <= Cardinality(B)
    BY <2>7, <2>8, FS_Subset
  <2> HIDE DEF g, Upto
  <2>11. CASE n \in K /\ r[n] = d
    <3>1. s[n] = e /\ r[n] \in R
      BY <2>11, <1>1, <1>2, <2>4
    <3>2. Cardinality(B) = Cardinality(A) + 1
      BY <3>1, <2>7, <2>8, FS_AddElement
    <3>3. Cardinality(Places(Append(g, r[n]), d)) = Cardinality(Places(g, d)) + 1
      BY <2>7, <2>11, <3>1, CountsAppended
    <3>4. Append(g, r[n]) \in Seq(R)
      BY <2>7, <3>1
    <3>5. Fine(n)
      BY <3>2, <3>3, <3>4, <2>6, <2>7, <2>9, <2>11
    <3> QED BY <3>5, <2>2
  <2>12. CASE n \in K /\ r[n] # d
    <3>1. r[n] \in R
      BY <1>1, <2>4
    <3>2. Cardinality(Places(Append(g, r[n]), d)) = Cardinality(Places(g, d))
      BY <2>7, <2>12, <3>1, CountsAppended
    <3>3. Append(g, r[n]) \in Seq(R)
      BY <2>7, <3>1
    <3>4. Fine(n)
      BY <3>2, <3>3, <2>6, <2>7, <2>9, <2>10, <2>12
    <3> QED BY <3>4, <2>2
  <2>13. CASE n \notin K
    <3>1. Fine(n)
      BY <2>6, <2>7, <2>9, <2>10, <2>13
    <3> QED BY <3>1, <2>2
  <2> QED BY <2>11, <2>12, <2>13
<1>7. Len(s) \in 0 .. Len(s)
  BY <1>1
<1>8. Fine(Len(s))
  BY <1>6, <1>7
<1>9. Upto(Len(s)) = Places(s, e)
  BY DEF PlacesUpTo, Places
<1>10. Selected(r, K) = f[Len(s)]
  BY <1>1, <1>3
<1> HIDE DEF Upto
<1> QED BY <1>8, <1>9, <1>10

LEMMA StringsInARow ==
  ASSUME NEW S, NEW s \in Seq(Piece(S)), NEW q \in Seq(S), InARow(s, q)
  PROVE  Strings(s) = q
<1>1. PICK r : r = Items(s)
  OBVIOUS
<1>2. PICK K : K = WholeAt(s)
  OBVIOUS
<1>3. r \in Seq(S) /\ Len(r) = Len(s) /\ \A j \in 1 .. Len(q) : r[2 * j - 1] = q[j]
  <2>1. \A j \in 1 .. Len(q) : 2 * j - 1 \in 1 .. Len(s) /\ s[2 * j - 1].item = q[j]
    BY DEF InARow
  <2> QED BY <2>1, <1>1, ItemsAre
<1>4. \A k \in 1 .. Len(r) : k \in K <=> \E j \in 1 .. Len(q) : k = 2 * j - 1
  BY <1>2, <1>3, PlacesInARow
<1>5. Len(r) = 2 * Len(q) \/ Len(r) = 2 * Len(q) + 1
  BY <1>3 DEF InARow
<1>6. r \in Seq(S) /\ q \in Seq(S)
  BY <1>3
<1>7. Selected(r, K) = q
  BY ONLY <1>3, <1>4, <1>5, <1>6, SelectionOfOdds
<1> QED BY <1>1, <1>2, <1>7 DEF Strings

LEMMA ScannedInARow ==
  ASSUME NEW S, NEW s \in Seq(Piece(S)), NEW q \in Seq(S), InARow(s, q),
         \A k \in 1 .. Len(s) : s[k].item.hashtag = TRUE
  PROVE  Scanned(s) = {s}
<1>1. \A k \in Starts(s) : s[k].part = "front" /\ k \in 1 .. Len(s)
  BY PlacesInARow DEF Starts
<1>2. Mistakable(s) = {} /\ SUBSET {} = {{}}
  BY <1>1 DEF Mistakable
<1>3. Stops(s, {}) = {}
  BY <1>1 DEF Stops
<1>4. UpToStop(s, {}) = s
  BY DEF UpToStop
<1>5. \A t : t \in Scanned(s) <=> \E mistaken \in {{}} : t = UpToStop(s, Stops(s, mistaken))
  BY <1>2 DEF Scanned
<1>6. \A t : t \in Scanned(s) <=> t = s
  BY <1>3, <1>4, <1>5
<1> QED BY <1>6

LEMMA NothingInNothing ==
  /\ Strings(<< >>) = << >> /\ Scanned(<< >>) = {<< >>}
  /\ CommandsIn(<< >>) = << >> /\ ShownIn(<< >>) = << >>
<1>1. Items(<< >>) = << >>
  BY DEF Items
<1>2. \A mistaken : Stops(<< >>, mistaken) = {}
  BY DEF Stops, Starts
<1>3. \A mistaken : UpToStop(<< >>, Stops(<< >>, mistaken)) = << >>
  BY <1>2 DEF UpToStop
<1>4. {} \in SUBSET Mistakable(<< >>)
  OBVIOUS
<1>5. Scanned(<< >>) = {<< >>}
  BY <1>3, <1>4 DEF Scanned
<1>6. /\ [k \in 1 .. Len(<< >>) |-> CommandAt(<< >>, k)] = << >>
      /\ [k \in 1 .. Len(<< >>) |-> ShownAt(<< >>, k)] = << >>
  OBVIOUS
<1> QED BY <1>1, <1>5, <1>6, SelectedEmpty DEF Strings, CommandsIn, ShownIn

(* What is made of a buffer's contents is made of its first pieces.        *)
LEMMA ScannedIs ==
  ASSUME NEW S, NEW s \in Seq(Piece(S)), NEW t \in Scanned(s)
  PROVE  /\ t \in Seq(Piece(S)) /\ Len(t) \in 0 .. Len(s)
         /\ \A k \in 1 .. Len(t) : t[k] = s[k]
<1>1. PICK stops : stops \in SUBSET (1 .. Len(s)) /\ t = UpToStop(s, stops)
  <2>1. PICK mistaken \in SUBSET Mistakable(s) : t = UpToStop(s, Stops(s, mistaken))
    BY DEF Scanned
  <2>2. Stops(s, mistaken) \in SUBSET (1 .. Len(s))
    BY DEF Stops, Starts
  <2> QED BY <2>1, <2>2
<1>2. Len(s) \in Nat
  OBVIOUS
<1>3. CASE stops = {}
  <2>1. t = s
    BY <1>1, <1>3 DEF UpToStop
  <2> QED BY <2>1, <1>2
<1>4. CASE stops # {}
  <2>1. PICK m : m = Min(stops)
    OBVIOUS
  <2>2. m \in 1 .. Len(s)
    <3>1. stops \in SUBSET Nat
      BY <1>1
    <3>2. m \in stops
      BY <3>1, <2>1, <1>4, LeastExists
    <3> QED BY <3>2, <1>1
  <2>3. t = SubSeq(s, 1, m - 1)
    BY <1>1, <1>4, <2>1 DEF UpToStop
  <2> QED BY <2>2, <2>3, <1>2
<1> QED BY <1>3, <1>4

(* What a client shows of it is made of strings that are in it.            *)
LEMMA ShownInIs ==
  ASSUME NEW S, Misread \notin S, NEW s \in Seq(Piece(S)), NEW t \in Scanned(s)
  PROVE  /\ ShownIn(t) \in Seq(S \cup {Misread})
         /\ \A d \in S : Cardinality(Places(ShownIn(t), d)) <= Cardinality(Places(s, FrontOf(d)))
<1>1. /\ t \in Seq(Piece(S)) /\ Len(t) \in 0 .. Len(s) /\ Len(t) \in Nat
      /\ \A k \in 1 .. Len(t) : t[k] = s[k] /\ k \in 1 .. Len(s)
  <2>1. /\ t \in Seq(Piece(S)) /\ Len(t) \in 0 .. Len(s)
        /\ \A k \in 1 .. Len(t) : t[k] = s[k]
    BY ScannedIs
  <2> QED BY <2>1
<1>2. PICK r : r = [k \in 1 .. Len(t) |-> ShownAt(t, k)]
  OBVIOUS
<1>3. ASSUME NEW k \in 1 .. Len(t)
      PROVE  /\ r[k] \in S \cup {Misread}
             /\ \A d \in S : r[k] = d => t[k] = FrontOf(d)
  <2>1. t[k] \in Piece(S) /\ r[k] = ShownAt(t, k)
    BY <1>1, <1>2
  <2>2. t[k].item \in S /\ (t[k].part = "front" => t[k] = FrontOf(t[k].item))
    BY <2>1 DEF Piece, FrontOf
  <2>3. r[k] = Misread \/ (t[k].part = "front" /\ r[k] = t[k].item)
    BY <2>1 DEF ShownAt
  <2> QED BY <2>2, <2>3
<1>4. r \in Seq(S \cup {Misread}) /\ Len(r) = Len(t)
  BY <1>1, <1>2, <1>3
<1>5. PICK K : K = Starts(t)
  OBVIOUS
<1>6. ShownIn(t) = Selected(r, K)
  BY <1>2, <1>5 DEF ShownIn
<1>7. Selected(r, K) \in Seq(S \cup {Misread})
  BY <1>4, SelectedIn
<1>8. ASSUME NEW d \in S
      PROVE  Cardinality(Places(Selected(r, K), d)) <= Cardinality(Places(s, FrontOf(d)))
  <2>1. PICK e : e = FrontOf(d)
    OBVIOUS
  <2>2. /\ r \in Seq(S \cup {Misread}) /\ t \in Seq(Piece(S)) /\ Len(r) = Len(t)
        /\ \A k \in 1 .. Len(t) : k \in K /\ r[k] = d => t[k] = e
    BY <1>1, <1>3, <1>4, <2>1
  <2>3. Cardinality(Places(Selected(r, K), d)) <= Cardinality(Places(t, e))
    BY ONLY <2>2, SelectionCounts
  <2>4. IsFiniteSet(Places(s, e)) /\ Cardinality(Places(s, e)) \in Nat
        /\ Cardinality(Places(t, e)) \in Nat
    BY <1>1, PlacesAreFinite
  <2>5. Places(t, e) \subseteq Places(s, e)
    BY <1>1 DEF Places
  <2>6. Cardinality(Places(t, e)) <= Cardinality(Places(s, e))
    BY <2>4, <2>5, FS_Subset
  <2>7. Cardinality(Places(Selected(r, K), d)) \in Nat
    BY <1>7, PlacesAreFinite
  <2> QED BY <2>1, <2>3, <2>4, <2>6, <2>7
<1> QED BY <1>6, <1>7, <1>8

(* recv() takes from the front, and leaves the rest where it is.           *)
LEMMA PortionIs ==
  ASSUME NEW S, NEW s \in Seq(S), NEW size \in Nat, NEW portion \in Portions(s, size)
  PROVE  /\ portion \in Seq(S) /\ Len(portion) \in 1 .. Len(s)
         /\ \A k \in 1 .. Len(portion) : portion[k] = s[k]
         /\ Remainder(s, portion) \in Seq(S)
         /\ Len(Remainder(s, portion)) = Len(s) - Len(portion)
         /\ \A k \in 1 .. Len(s) - Len(portion) :
               Remainder(s, portion)[k] = s[k + Len(portion)]
         /\ s = portion \o Remainder(s, portion)
<1>1. Len(s) \in Nat /\ {Len(s), size} \in SUBSET Nat /\ {Len(s), size} # {}
  OBVIOUS
<1>2. PICK most : most = Min({Len(s), size})
  OBVIOUS
<1>3. most \in Nat /\ most <= Len(s)
  BY <1>1, <1>2, LeastExists
<1>4. PICK n \in 1 .. most : portion = SubSeq(s, 1, n)
  BY <1>2 DEF Portions
<1>5. n \in 1 .. Len(s) /\ n \in Nat
  BY <1>1, <1>3
<1>6. portion \in Seq(S) /\ Len(portion) = n /\ \A k \in 1 .. n : portion[k] = s[k]
  BY <1>4, <1>5
<1>7. PICK r : r = Remainder(s, portion)
  OBVIOUS
<1>8. r \in Seq(S) /\ Len(r) = Len(s) - n /\ \A k \in 1 .. Len(s) - n : r[k] = s[k + n]
  <2>1. r = SubSeq(s, n + 1, Len(s))
    BY <1>6, <1>7 DEF Remainder
  <2> QED BY <2>1, <1>5
<1>9. s = portion \o r
  <2>1. PICK w : w = portion \o r
    OBVIOUS
  <2>2. /\ w \in Seq(S) /\ Len(w) = n + Len(r)
        /\ \A k \in 1 .. n + Len(r) : w[k] = IF k <= n THEN portion[k] ELSE r[k - n]
    <3>1. /\ portion \o r \in Seq(S) /\ Len(portion \o r) = Len(portion) + Len(r)
          /\ \A k \in 1 .. Len(portion) + Len(r) :
                (portion \o r)[k] = IF k <= Len(portion) THEN portion[k] ELSE r[k - Len(portion)]
      <4>1. portion \in Seq(S) /\ r \in Seq(S)
        BY <1>6, <1>8
      <4> QED BY ONLY <4>1, ConcatProperties
    <3> QED BY <3>1, <2>1, <1>6
  <2>3. Len(w) = Len(s) /\ Len(s) \in Nat
    BY <2>2, <1>5, <1>8
  <2>4. ASSUME NEW k \in 1 .. Len(s)
        PROVE  w[k] = s[k]
    <3>1. CASE k <= n
      <4>1. k \in 1 .. n /\ k \in 1 .. n + Len(r)
        BY <3>1, <1>5, <1>8
      <4> QED BY <4>1, <3>1, <2>2, <1>6
    <3>2. CASE ~(k <= n)
      <4>1. k - n \in 1 .. Len(s) - n /\ k \in 1 .. n + Len(r) /\ (k - n) + n = k
        BY <3>2, <1>5, <1>8
      <4> QED BY <4>1, <3>2, <2>2, <1>8
    <3> QED BY <3>1, <3>2
  <2>5. w = s
    <3>1. s \in Seq(S) /\ w \in Seq(S) /\ Len(s) = Len(w) /\ \A k \in 1 .. Len(s) : s[k] = w[k]
      BY <2>2, <2>3, <2>4
    <3>2. s = w
      BY ONLY <3>1, SeqEqual
    <3> QED BY <3>2
  <2> QED BY <2>1, <2>5
<1> QED BY <1>5, <1>6, <1>7, <1>8, <1>9

LEMMA PortionCounts ==
  ASSUME NEW S, NEW s \in Seq(S), NEW size \in Nat, NEW portion \in Portions(s, size), NEW d
  PROVE  Cardinality(Places(s, d)) = Cardinality(Places(portion, d))
                                       + Cardinality(Places(Remainder(s, portion), d))
<1>1. PICK r : r = Remainder(s, portion)
  OBVIOUS
<1>2. portion \in Seq(S) /\ r \in Seq(S) /\ s = portion \o r
  <2>1. s \in Seq(S) /\ size \in Nat /\ portion \in Portions(s, size)
    OBVIOUS
  <2>2. /\ portion \in Seq(S) /\ Remainder(s, portion) \in Seq(S)
        /\ s = portion \o Remainder(s, portion)
    BY ONLY <2>1, PortionIs
  <2> QED BY <1>1, <2>2
<1>3. Cardinality(Places(portion \o r, d)) =
         Cardinality(Places(portion, d)) + Cardinality(Places(r, d))
  BY <1>2, CountsConcat
<1> QED BY <1>1, <1>2, <1>3

(* Of what is in a buffer, the first piece is overwritten whatever is      *)
(* received; some of the pieces behind it may not be.                      *)
Behind(s) == IF s = << >> THEN << >> ELSE Tail(s)

LEMMA BehindIs ==
  ASSUME NEW S, NEW s \in Seq(S), NEW d
  PROVE  /\ Behind(s) \in Seq(S)
         /\ Cardinality(Places(Behind(s), d)) \in Nat
         /\ s # << >> => Cardinality(Places(s, d)) =
              IF s[1] = d THEN Cardinality(Places(Behind(s), d)) + 1
                          ELSE Cardinality(Places(Behind(s), d))
<1>1. CASE s = << >>
  <2>1. Behind(s) \in Seq(S)
    BY <1>1 DEF Behind
  <2> QED BY <1>1, <2>1, PlacesAreFinite
<1>2. CASE s # << >>
  <2>1. PICK t : t = Tail(s)
    OBVIOUS
  <2>2. t \in Seq(S) /\ Behind(s) = t /\ Len(s) \in Nat /\ Len(s) # 0 /\ Len(t) = Len(s) - 1
        /\ \A k \in 1 .. Len(s) - 1 : t[k] = s[k + 1]
    BY <1>2, <2>1 DEF Behind
  <2>3. /\ Cardinality(PlacesUpTo(1, s, d)) \in Nat
        /\ Cardinality(Places(s, d)) =
              Cardinality(PlacesUpTo(1, s, d)) + Cardinality(Places(t, d))
    <3>1. 1 \in 0 .. Len(s)
      BY <2>2
    <3> QED BY <3>1, <2>2, CountsBehind
  <2>4. Cardinality(Places(t, d)) \in Nat
    BY <2>2, PlacesAreFinite
  <2>5. CASE s[1] = d
    <3>1. PlacesUpTo(1, s, d) = {1}
      BY <2>5 DEF PlacesUpTo
    <3>2. Cardinality(PlacesUpTo(1, s, d)) = 1
      BY <3>1, FS_Singleton
    <3> QED BY <2>2, <2>3, <2>4, <2>5, <3>2
  <2>6. CASE s[1] # d
    <3>1. PlacesUpTo(1, s, d) = {}
      BY <2>6 DEF PlacesUpTo
    <3>2. Cardinality(PlacesUpTo(1, s, d)) = 0
      BY <3>1, FS_EmptySet
    <3> QED BY <2>2, <2>3, <2>4, <2>6, <3>2
  <2> QED BY <2>5, <2>6
<1> QED BY <1>1, <1>2

LEMMA SuffixCounts ==
  ASSUME NEW S, NEW t \in Seq(S), NEW suffix \in Suffixes(t)
  PROVE  /\ suffix \in Seq(S)
         /\ \A d : Cardinality(Places(suffix, d)) <= Cardinality(Places(t, d))
<1>1. Len(t) \in Nat
  OBVIOUS
<1>2. \E n \in 0 .. Len(t) :
         /\ suffix \in Seq(S) /\ Len(suffix) = Len(t) - n
         /\ \A k \in 1 .. Len(t) - n : suffix[k] = t[k + n]
  <2>1. CASE suffix = << >>
    <3>1. Len(t) \in 0 .. Len(t) /\ Len(<< >>) = Len(t) - Len(t) /\ << >> \in Seq(S)
          /\ \A k \in 1 .. Len(t) - Len(t) : FALSE
      BY <1>1
    <3> QED BY <2>1, <3>1
  <2>2. CASE suffix # << >>
    <3>1. PICK l \in 1 .. Len(t) : suffix = SubSeq(t, l, Len(t))
      BY <2>2 DEF Suffixes
    <3>2. l - 1 \in 0 .. Len(t) /\ suffix \in Seq(S) /\ Len(suffix) = Len(t) - (l - 1)
          /\ \A k \in 1 .. Len(t) - (l - 1) : suffix[k] = t[k + (l - 1)]
      BY <3>1, <1>1
    <3> QED BY <3>2
  <2> QED BY <2>1, <2>2
<1>3. PICK r : r = suffix
  OBVIOUS
<1>4. PICK n \in Nat : /\ t \in Seq(S) /\ r \in Seq(S) /\ n \in 0 .. Len(t)
                       /\ Len(r) = Len(t) - n /\ \A k \in 1 .. Len(t) - n : r[k] = t[k + n]
  BY <1>2, <1>3
<1>5. ASSUME NEW d
      PROVE  Cardinality(Places(r, d)) <= Cardinality(Places(t, d))
  <2>1. Cardinality(Places(t, d)) =
          Cardinality(PlacesUpTo(n, t, d)) + Cardinality(Places(r, d))
    BY ONLY <1>4, CountsBehind
  <2>2. Cardinality(PlacesUpTo(n, t, d)) \in Nat /\ Cardinality(Places(r, d)) \in Nat
    BY <1>4, PlacesUpToAreFinite, PlacesAreFinite
  <2> QED BY <2>1, <2>2
<1> QED BY <1>3, <1>4, <1>5

LEMMA OverIs ==
  ASSUME NEW S, NEW portion \in Seq(Piece(S)), portion # << >>, NEW old \in Seq(Piece(S)),
         NEW content \in Over(portion, old)
  PROVE  /\ content \in Seq(Piece(S)) /\ content # << >> /\ content[1] = portion[1]
         /\ old = << >> => content = portion
         /\ \A d : Cardinality(Places(content, FrontOf(d))) <=
                   Cardinality(Places(portion, FrontOf(d)))
                     + Cardinality(Places(Behind(old), FrontOf(d)))
<1>1. \A d : Cardinality(Places(portion, d)) \in Nat /\ Cardinality(Places(Behind(old), d)) \in Nat
  BY PlacesAreFinite, BehindIs
<1>2. CASE old = << >>
  <2>1. content = portion
    BY <1>2 DEF Over
  <2>2. \A d : Cardinality(Places(portion, d)) <=
               Cardinality(Places(portion, d)) + Cardinality(Places(Behind(old), d))
    BY <1>1
  <2> QED BY <1>2, <2>1, <2>2
<1>3. CASE old # << >>
  <2>1. PICK t : t = Tail(old)
    OBVIOUS
  <2>2. PICK left \in Suffixes(t) \cup Tails(old) : content = portion \o left
    BY <1>3, <2>1 DEF Over
  <2>3. t \in Seq(Piece(S)) /\ Len(t) \in Nat /\ Behind(old) = t
    BY <1>3, <2>1 DEF Behind
  <2>4. /\ left \in Seq(Piece(S))
        /\ \A d : Cardinality(Places(left, FrontOf(d))) <= Cardinality(Places(t, FrontOf(d)))
    <3>1. CASE left \in Suffixes(t)
      BY <3>1, <2>3, SuffixCounts
    <3>2. CASE left \in Tails(old)
      <4>1. PICK x : x = old[Len(old)].item /\ left = <<RestOf(x)>>
        BY <3>2 DEF Tails, Last
      <4>2. x \in S
        <5>1. old[Len(old)] \in Piece(S)
          BY <1>3
        <5> QED BY <4>1, <5>1 DEF Piece
      <4>3. RestOf(x) \in Piece(S) /\ \A d : FrontOf(d) # RestOf(x)
        <5>1. RestOf(x).part = "rest" /\ \A d : FrontOf(d).part = "front"
          BY DEF RestOf, FrontOf
        <5> QED BY <4>2, <5>1 DEF RestOf, Piece
      <4>4. ASSUME NEW d
            PROVE  Cardinality(Places(left, FrontOf(d))) = 0
        <5>1. Places(left, FrontOf(d)) = {}
          BY <4>1, <4>3 DEF Places
        <5> QED BY <5>1, FS_EmptySet
      <4>5. \A d : Cardinality(Places(t, d)) \in Nat
        BY <1>1, <2>3
      <4> QED BY <4>1, <4>3, <4>4, <4>5
    <3> QED BY <3>1, <3>2
  <2>5. content \in Seq(Piece(S)) /\ content # << >> /\ content[1] = portion[1]
    BY <2>2, <2>4
  <2>6. ASSUME NEW d
        PROVE  Cardinality(Places(content, FrontOf(d))) <=
                  Cardinality(Places(portion, FrontOf(d)))
                    + Cardinality(Places(Behind(old), FrontOf(d)))
    <3>1. portion \in Seq(Piece(S)) /\ left \in Seq(Piece(S))
      BY <2>4
    <3>2. Cardinality(Places(portion \o left, FrontOf(d))) =
             Cardinality(Places(portion, FrontOf(d))) + Cardinality(Places(left, FrontOf(d)))
      BY ONLY <3>1, CountsConcat
    <3>3. Cardinality(Places(left, FrontOf(d))) \in Nat
      BY <3>1, PlacesAreFinite
    <3> QED BY <1>1, <2>2, <2>3, <2>4, <3>2, <3>3
  <2> QED BY <1>3, <2>5, <2>6
<1> QED BY <1>2, <1>3

-----------------------------------------------------------------------------
(* Types.                                                                  *)
Sendable == Messages \cup Answers
ClientState == {"absent", "read", "prompt", "send", "ask", "exited", "reset", "gone"}
Executing == main \in {"execute", "notify", "produce"}

ClientTypeOK ==
    /\ client \in [Client -> ClientState]
    /\ command \in [Client -> Commands \cup {NULL}]
    /\ receive_buffer \in [Client -> Seq(Piece(Sendable))]
    /\ shown \in [Client -> Seq(Sendable \cup {Misread})]
    /\ sent \in [Client -> Nat] /\ asked \in [Client -> BOOLEAN]
    /\ \A c \in Client : client[c] = "send" =>
          command[c] \in Commands /\ command[c].kind = "command" /\ command[c].number = sent[c] + 1
    /\ \A c \in Client : client[c] = "ask" =>
          /\ command[c] \in Commands /\ command[c].kind = "command"
          /\ command[c].number = sent[c]
          /\ command[c].operation \in Queries /\ asked[c]

MainTypeOK ==
    /\ main \in {"receive", "execute", "notify", "produce"}
    /\ connections \in Seq(Client) /\ to_visit \in Seq(Client) /\ subscribers \in Seq(Client)
    /\ batch \in Seq(Commands) /\ left_in_buffer \in Seq(Piece(Commands))
    /\ response \in Answers \cup {NULL}
    /\ notifications \in Nat /\ published \in Nat
    /\ executed \in [Client -> Seq(Commands)] /\ lost \in SUBSET Client
    /\ cut_in \in [Client -> BOOLEAN]
    /\ Executing => to_visit # << >>
    /\ main = "receive" => left_in_buffer = << >> /\ batch = << >>
    /\ main \in {"receive", "execute"} => response = NULL
    /\ main = "produce" => response # NULL

QueuesTypeOK ==
    /\ queue \in Seq(Messages) /\ outgoing_buffer \in Seq(Sendable)
    /\ element \in Sendable \cup {NULL} /\ to_send \in Seq(Client)
    /\ element # NULL => to_send # << >>
    /\ element # NULL /\ element.kind = "answer" => to_send = <<element.to>>

WiresTypeOK ==
    /\ to_broker \in [Client -> Seq(Piece(Commands))]
    /\ to_client \in [Client -> Seq(Piece(Sendable))]
    /\ sent_to \in [Client -> Seq(Sendable)] /\ cut_out \in [Client -> BOOLEAN]

TypeOK == ClientTypeOK /\ MainTypeOK /\ QueuesTypeOK /\ WiresTypeOK

LEMMA Kinds ==
  /\ NULL \notin Sendable /\ NULL \notin Commands
  /\ Misread \notin Sendable
  /\ \A item \in Messages : item.kind = "message"
  /\ \A item \in Answers : item.kind = "answer" /\ item.to \in Client
<1>1. NULL \notin Sendable /\ NULL \notin Commands
  BY ConversationAssumption DEF Sendable
<1>2. /\ \A item \in Messages : item.kind = "message"
      /\ \A item \in Answers : item.kind = "answer" /\ item.to \in Client
  BY DEF Messages, Answers
<1>3. Misread \notin Sendable
  <2>1. Misread.kind = "misread"
    BY DEF Misread
  <2> QED BY <1>2, <2>1 DEF Sendable
<1> QED BY <1>1, <1>2, <1>3

LEMMA AnswerIs ==
  ASSUME NEW c \in Client, NEW question, question.number \in Nat
  PROVE  /\ Answer(c, question) \in Answers
         /\ Answer(c, question).kind = "answer" /\ Answer(c, question).to = c
         /\ Answer(c, question) # NULL
<1>1. PICK n \in Nat : n = question.number
  OBVIOUS
<1>2. PICK h \in BOOLEAN : h = (question.operation = "subscriber_number" /\ ~question.known)
  OBVIOUS
<1>3. Answer(c, question) = [kind |-> "answer", number |-> n, to |-> c, hashtag |-> h]
  BY <1>1, <1>2 DEF Answer
<1>4. Answer(c, question) \in Answers
  BY <1>3 DEF Answers
<1> QED BY <1>3, <1>4, Kinds DEF Sendable

LEMMA WholeIs ==
  ASSUME NEW S, NEW item \in S
  PROVE  /\ FrontOf(item) \in Piece(S) /\ RestOf(item) \in Piece(S)
         /\ <<FrontOf(item)>> \in Seq(Piece(S)) /\ Whole(item) \in Seq(Piece(S))
         /\ Len(Whole(item)) = 2 /\ Whole(item)[1] = FrontOf(item) /\ Whole(item)[2] = RestOf(item)
         /\ \A d : FrontOf(d) = FrontOf(item) <=> d = item
         /\ \A d : FrontOf(d) # RestOf(item)
<1>1. FrontOf(item) \in Piece(S) /\ RestOf(item) \in Piece(S)
  BY DEF FrontOf, RestOf, Piece
<1>2. \A d : FrontOf(d).item = d /\ FrontOf(d).part = "front" /\ RestOf(d).part = "rest"
  BY DEF FrontOf, RestOf
<1>3. /\ \A d : FrontOf(d) = FrontOf(item) <=> d = item
      /\ \A d : FrontOf(d) # RestOf(item)
  BY <1>2
<1> QED BY <1>1, <1>3 DEF Whole

LEMMA WholeCounts ==
  ASSUME NEW S, NEW item \in S, NEW d
  PROVE  /\ Cardinality(Places(<<FrontOf(item)>>, FrontOf(d))) = IF item = d THEN 1 ELSE 0
         /\ Cardinality(Places(Whole(item), FrontOf(d))) = IF item = d THEN 1 ELSE 0
         /\ <<FrontOf(item)>> \in Seq(Piece(S)) /\ Whole(item) \in Seq(Piece(S))
<1>1. /\ FrontOf(item) \in Piece(S) /\ RestOf(item) \in Piece(S)
      /\ FrontOf(d) = FrontOf(item) <=> d = item
      /\ FrontOf(d) # RestOf(item)
      /\ <<FrontOf(item)>> \in Seq(Piece(S)) /\ Whole(item) \in Seq(Piece(S))
  BY WholeIs
<1>2. /\ Places(<<FrontOf(item)>>, FrontOf(d)) = IF item = d THEN {1} ELSE {}
      /\ Places(Whole(item), FrontOf(d)) = IF item = d THEN {1} ELSE {}
  BY <1>1 DEF Places, Whole
<1>3. Cardinality({1}) = 1 /\ Cardinality({}) = 0
  BY FS_Singleton, FS_EmptySet
<1> QED BY <1>1, <1>2, <1>3

LEMMA TypesInit == Init => TypeOK
<1> SUFFICES ASSUME Init PROVE TypeOK
  OBVIOUS
<1>1. ClientTypeOK
  BY DEF Init, ClientTypeOK, ClientState
<1>2. MainTypeOK
  BY DEF Init, MainTypeOK, Executing
<1>3. QueuesTypeOK
  BY DEF Init, QueuesTypeOK
<1>4. WiresTypeOK
  BY DEF Init, WiresTypeOK
<1> QED BY <1>1, <1>2, <1>3, <1>4 DEF TypeOK

(* What a client is handed by recv().                                      *)
LEMMA SizesArePositive ==
  /\ BROKER_RECEIVE_BUFFER_SIZE \in Nat /\ CLIENT_RECEIVE_BUFFER_SIZE \in Nat
  /\ ClientBuffer \in Nat
  BY ConversationAssumption

LEMMA PortionType ==
  ASSUME TypeOK, NEW c \in Client,
         NEW portion \in Portions(to_client[c], CLIENT_RECEIVE_BUFFER_SIZE)
  PROVE  /\ portion \in Seq(Piece(Sendable)) /\ portion # << >>
         /\ Remainder(to_client[c], portion) \in Seq(Piece(Sendable))
         /\ \A content \in Over(portion, receive_buffer[c]) :
               /\ content \in Seq(Piece(Sendable)) /\ content # << >>
               /\ content[1] = portion[1]
               /\ \A scanned \in Scanned(content) :
                     ShownIn(scanned) \in Seq(Sendable \cup {Misread})
<1>1. to_client[c] \in Seq(Piece(Sendable)) /\ receive_buffer[c] \in Seq(Piece(Sendable))
      /\ CLIENT_RECEIVE_BUFFER_SIZE \in Nat
  BY SizesArePositive DEF TypeOK, WiresTypeOK, ClientTypeOK
<1>2. /\ portion \in Seq(Piece(Sendable)) /\ Len(portion) \in 1 .. Len(to_client[c])
      /\ Remainder(to_client[c], portion) \in Seq(Piece(Sendable))
  BY <1>1, PortionIs
<1>3. portion # << >>
  BY <1>2
<1>4. ASSUME NEW content \in Over(portion, receive_buffer[c])
      PROVE  /\ content \in Seq(Piece(Sendable)) /\ content # << >>
             /\ content[1] = portion[1]
             /\ \A scanned \in Scanned(content) :
                   ShownIn(scanned) \in Seq(Sendable \cup {Misread})
  <2>1. /\ portion \in Seq(Piece(Sendable)) /\ portion # << >>
        /\ receive_buffer[c] \in Seq(Piece(Sendable)) /\ content \in Over(portion, receive_buffer[c])
    BY <1>1, <1>2, <1>3
  <2>2. content \in Seq(Piece(Sendable)) /\ content # << >> /\ content[1] = portion[1]
    BY ONLY <2>1, OverIs
  <2>3. ASSUME NEW scanned \in Scanned(content)
        PROVE  ShownIn(scanned) \in Seq(Sendable \cup {Misread})
    <3>1. Misread \notin Sendable /\ content \in Seq(Piece(Sendable)) /\ scanned \in Scanned(content)
      BY <2>2, Kinds
    <3> QED BY ONLY <3>1, ShownInIs
  <2> QED BY <2>2, <2>3
<1> QED BY <1>2, <1>3, <1>4

LEMMA ClientTypes ==
  ASSUME TypeOK, NEW c \in Client, ClientUser(c) \/ ClientProgram(c)
  PROVE  TypeOK'
<1>1. /\ UNCHANGED <<mainVars, queue, outgoing_buffer, consumerVars>>
      /\ \/ connect_to_broker(c) \/ get_option(c) \/ cleanup(c) \/ send_command(c)
         \/ receive_answer(c) \/ receive_subscription_messages(c)
  BY DEF ClientUser, ClientProgram
<1> USE DEF ClientAt
<1>2. MainTypeOK' /\ QueuesTypeOK'
  BY <1>1 DEF mainVars, consumerVars, TypeOK, MainTypeOK, QueuesTypeOK, Executing
<1>3. sent_to' = sent_to /\ ClientTypeOK /\ WiresTypeOK
  BY <1>1 DEF consumerVars, TypeOK
<1>4. CASE connect_to_broker(c)
  <2>1. ClientTypeOK'
    BY <1>3, <1>4 DEF connect_to_broker, ClientTypeOK, ClientState
  <2>2. WiresTypeOK'
    BY <1>3, <1>4 DEF connect_to_broker, WiresTypeOK
  <2> QED BY <1>2, <2>1, <2>2 DEF TypeOK
<1>5. CASE get_option(c)
  <2>1. PICK option \in Option[c][sent[c] + 1] :
           command' = [command EXCEPT ![c] = create_command(option, sent[c] + 1)]
    BY <1>5 DEF get_option
  <2>2. sent[c] \in Nat /\ sent[c] + 1 \in 1 .. Len(Option[c])
    <3>1. sent[c] \in Nat /\ sent[c] < Len(Option[c]) /\ Len(Option[c]) \in Nat
      BY <1>3, <1>5, ConversationAssumption DEF get_option, ClientTypeOK
    <3> QED BY <3>1
  <2>3. option \in [operation : Operation, known : BOOLEAN]
    <3>1. Option[c] \in Seq(SUBSET [operation : Operation, known : BOOLEAN])
      BY ConversationAssumption
    <3>2. Option[c][sent[c] + 1] \in SUBSET [operation : Operation, known : BOOLEAN]
      BY <2>2, <3>1
    <3> QED BY <3>2
  <2>4. PICK new : new = create_command(option, sent[c] + 1)
    OBVIOUS
  <2>5. new \in Commands /\ new.kind = "command" /\ new.number = sent[c] + 1
    BY <2>2, <2>3, <2>4 DEF create_command, Commands
  <2>6. /\ client[c] = "prompt" /\ client' = [client EXCEPT ![c] = "send"]
        /\ command' = [command EXCEPT ![c] = new]
        /\ UNCHANGED <<receive_buffer, shown, sent, asked, to_broker, to_client, cut_out>>
    BY <1>5, <2>1, <2>4 DEF get_option
  <2>7. ClientTypeOK'
    BY <1>3, <2>5, <2>6 DEF ClientTypeOK, ClientState
  <2>8. WiresTypeOK'
    BY <1>3, <2>6 DEF WiresTypeOK
  <2> QED BY <1>2, <2>7, <2>8 DEF TypeOK
<1>6. CASE cleanup(c)
  <2>1. ClientTypeOK'
    <3>1. /\ client' = [client EXCEPT ![c] = "exited"] \/ client' = [client EXCEPT ![c] = "reset"]
          /\ client[c] = "prompt"
          /\ UNCHANGED <<command, receive_buffer, shown, sent, asked>>
      BY <1>6 DEF cleanup
    <3>2. client' \in [Client -> ClientState]
      BY <1>3, <3>1 DEF ClientTypeOK, ClientState
    <3>3. \A d \in Client : client'[d] \in {"send", "ask"} => client'[d] = client[d]
      BY <1>3, <3>1 DEF ClientTypeOK
    <3> QED BY <1>3, <3>1, <3>2, <3>3 DEF ClientTypeOK
  <2>2. WiresTypeOK'
    <3>1. /\ to_broker' = to_broker \/ to_broker' = [to_broker EXCEPT ![c] = << >>]
          /\ UNCHANGED <<to_client, cut_out>>
      BY <1>6 DEF cleanup
    <3>2. << >> \in Seq(Piece(Commands))
      OBVIOUS
    <3> QED BY <1>3, <3>1, <3>2 DEF WiresTypeOK
  <2> QED BY <1>2, <2>1, <2>2 DEF TypeOK
<1>7. CASE send_command(c)
  <2>1. /\ client[c] = "send" /\ sent' = [sent EXCEPT ![c] = @ + 1]
        /\ asked' = [asked EXCEPT ![c] = @ \/ command[c].operation \in Queries]
        /\ UNCHANGED <<receive_buffer, shown>>
        /\ \/ /\ command[c].operation \in Queries /\ client' = [client EXCEPT ![c] = "ask"]
              /\ command' = command
           \/ /\ client' = [client EXCEPT ![c] = "read"]
              /\ command' = [command EXCEPT ![c] = NULL]
    BY <1>7 DEF send_command
  <2>2. command[c] \in Commands /\ command[c].kind = "command"
        /\ command[c].number = sent[c] + 1 /\ sent[c] \in Nat
    BY <1>3, <2>1 DEF ClientTypeOK
  <2>3. ClientTypeOK'
    <3>1. /\ sent' \in [Client -> Nat] /\ sent'[c] = sent[c] + 1
          /\ \A d \in Client \ {c} : sent'[d] = sent[d]
      BY <1>3, <2>1, <2>2 DEF ClientTypeOK
    <3>2. /\ asked' \in [Client -> BOOLEAN]
          /\ command[c].operation \in Queries => asked'[c]
          /\ \A d \in Client \ {c} : asked'[d] = asked[d]
      BY <1>3, <2>1 DEF ClientTypeOK
    <3>3. CASE /\ command[c].operation \in Queries /\ client' = [client EXCEPT ![c] = "ask"]
               /\ command' = command
      <4>1. /\ client' \in [Client -> ClientState] /\ client'[c] = "ask"
            /\ \A d \in Client \ {c} : client'[d] = client[d]
        BY <1>3, <3>3 DEF ClientTypeOK, ClientState
      <4> QED BY <1>3, <2>1, <2>2, <3>1, <3>2, <3>3, <4>1 DEF ClientTypeOK
    <3>4. CASE /\ client' = [client EXCEPT ![c] = "read"]
               /\ command' = [command EXCEPT ![c] = NULL]
      <4>1. /\ client' \in [Client -> ClientState] /\ client'[c] = "read"
            /\ \A d \in Client \ {c} : client'[d] = client[d]
        BY <1>3, <3>4 DEF ClientTypeOK, ClientState
      <4>2. /\ command' \in [Client -> Commands \cup {NULL}]
            /\ \A d \in Client \ {c} : command'[d] = command[d]
        BY <1>3, <3>4 DEF ClientTypeOK
      <4> QED BY <1>3, <2>1, <3>1, <3>2, <4>1, <4>2 DEF ClientTypeOK
    <3> QED BY <2>1, <3>3, <3>4
  <2>4. WiresTypeOK'
    <3>1. to_broker[c] \o Whole(command[c]) \in Seq(Piece(Commands))
      <4>1. to_broker[c] \in Seq(Piece(Commands)) /\ Whole(command[c]) \in Seq(Piece(Commands))
        BY <1>3, <2>2, WholeIs DEF WiresTypeOK
      <4> QED BY <4>1, ConcatProperties
    <3>2. to_broker' = [to_broker EXCEPT ![c] = to_broker[c] \o Whole(command[c])]
          /\ UNCHANGED <<to_client, cut_out>>
      BY <1>7 DEF send_command
    <3> QED BY <3>1, <3>2, <1>3 DEF WiresTypeOK
  <2> QED BY <1>2, <2>3, <2>4 DEF TypeOK
<1>8. CASE receive_answer(c)
  <2>1. PICK portion \in Portions(to_client[c], CLIENT_RECEIVE_BUFFER_SIZE) :
          /\ receive_from_broker(c, portion)
          /\ receive_buffer' \in {[receive_buffer EXCEPT ![c] = content] :
                                    content \in Over(portion, receive_buffer[c])}
          /\ shown' = [shown EXCEPT ![c] = Append(@, TakenForAnswer(c, Head(portion)))]
    BY <1>8 DEF receive_answer
  <2>2. PICK content \in Over(portion, receive_buffer[c]) :
          receive_buffer' = [receive_buffer EXCEPT ![c] = content]
    BY <2>1
  <2>3. /\ client[c] = "ask" /\ client' = [client EXCEPT ![c] = "read"]
        /\ command' = [command EXCEPT ![c] = NULL]
        /\ UNCHANGED <<sent, asked, to_broker>>
    BY <1>8 DEF receive_answer
  <2>4. content \in Seq(Piece(Sendable)) /\ portion \in Seq(Piece(Sendable)) /\ portion # << >>
        /\ Remainder(to_client[c], portion) \in Seq(Piece(Sendable))
    BY PortionType
  <2>5. PICK taken : taken = TakenForAnswer(c, Head(portion))
    OBVIOUS
  <2>6. taken \in Sendable \cup {Misread}
    <3>1. Head(portion) \in Piece(Sendable)
      BY <2>4
    <3> QED BY <3>1, <2>5 DEF TakenForAnswer, Piece
  <2>7. shown[c] \in Seq(Sendable \cup {Misread})
    BY <1>3 DEF ClientTypeOK
  <2>8. Append(shown[c], taken) \in Seq(Sendable \cup {Misread})
    BY <2>6, <2>7
  <2>9. ClientTypeOK'
    <3>1. shown' = [shown EXCEPT ![c] = Append(shown[c], taken)]
      BY <2>1, <2>5
    <3> QED BY <1>3, <2>2, <2>3, <2>4, <2>8, <3>1 DEF ClientTypeOK, ClientState
  <2>10. WiresTypeOK'
    BY <1>3, <2>1, <2>3, <2>4 DEF WiresTypeOK, receive_from_broker
  <2> QED BY <1>2, <2>9, <2>10 DEF TypeOK
<1>9. CASE receive_subscription_messages(c)
  <2>1. /\ client' = [client EXCEPT ![c] = "prompt"] /\ UNCHANGED <<command, sent, asked, to_broker>>
    BY <1>9 DEF receive_subscription_messages
  <2>2. CASE UNCHANGED <<receive_buffer, shown, to_client, cut_out>>
    <3>1. ClientTypeOK'
      BY <1>3, <2>1, <2>2 DEF ClientTypeOK, ClientState
    <3>2. WiresTypeOK'
      BY <1>3, <2>1, <2>2 DEF WiresTypeOK
    <3> QED BY <1>2, <3>1, <3>2 DEF TypeOK
  <2>3. CASE \E portion \in Portions(to_client[c], CLIENT_RECEIVE_BUFFER_SIZE) :
               /\ receive_from_broker(c, portion)
               /\ \E content \in Over(portion, receive_buffer[c]) :
                     \E scanned \in Scanned(content) :
                        shown' = [shown EXCEPT ![c] = @ \o ShownIn(scanned)]
               /\ receive_buffer' = [receive_buffer EXCEPT ![c] = << >>]
    <3>1. PICK portion \in Portions(to_client[c], CLIENT_RECEIVE_BUFFER_SIZE) :
               /\ receive_from_broker(c, portion)
               /\ \E content \in Over(portion, receive_buffer[c]) :
                     \E scanned \in Scanned(content) :
                        shown' = [shown EXCEPT ![c] = @ \o ShownIn(scanned)]
               /\ receive_buffer' = [receive_buffer EXCEPT ![c] = << >>]
      BY <2>3
    <3>2. PICK content \in Over(portion, receive_buffer[c]) : \E scanned \in Scanned(content) :
             shown' = [shown EXCEPT ![c] = shown[c] \o ShownIn(scanned)]
      BY <3>1
    <3>3. PICK strings : /\ \E scanned \in Scanned(content) : strings = ShownIn(scanned)
                         /\ shown' = [shown EXCEPT ![c] = shown[c] \o strings]
      BY <3>2
    <3>4. strings \in Seq(Sendable \cup {Misread}) /\ Remainder(to_client[c], portion) \in Seq(Piece(Sendable))
      BY <3>3, PortionType
    <3>5. shown[c] \o strings \in Seq(Sendable \cup {Misread})
      <4>1. shown[c] \in Seq(Sendable \cup {Misread}) /\ strings \in Seq(Sendable \cup {Misread})
        BY <1>3, <3>4 DEF ClientTypeOK
      <4> QED BY <4>1, ConcatProperties
    <3>6. ClientTypeOK'
      <4>1. shown' = [shown EXCEPT ![c] = shown[c] \o strings]
            /\ receive_buffer' = [receive_buffer EXCEPT ![c] = << >>]
        BY <3>1, <3>3
      <4> QED BY <1>3, <2>1, <3>5, <4>1 DEF ClientTypeOK, ClientState
    <3>7. WiresTypeOK'
      BY <1>3, <2>1, <3>1, <3>4 DEF WiresTypeOK, receive_from_broker
    <3> QED BY <1>2, <3>6, <3>7 DEF TypeOK
  <2> QED BY <1>9, <2>2, <2>3 DEF receive_subscription_messages
<1> QED BY <1>1, <1>4, <1>5, <1>6, <1>7, <1>8, <1>9

(* What main takes for commands in what it received.                       *)
LEMMA CommandsInIs ==
  ASSUME NEW s \in Seq(Piece(Commands))
  PROVE  /\ CommandsIn(s) \in Seq(Commands)
         /\ \E p \in [1 .. Len(CommandsIn(s)) -> 1 .. Len(s)] :
              /\ \A i \in 1 .. Len(CommandsIn(s)) :
                    p[i] \in Starts(s) /\ CommandsIn(s)[i] = CommandAt(s, p[i])
              /\ \A i, j \in 1 .. Len(CommandsIn(s)) : i < j => p[i] < p[j]
<1>1. PICK r : r = [k \in 1 .. Len(s) |-> CommandAt(s, k)]
  OBVIOUS
<1>2. ASSUME NEW k \in 1 .. Len(s)
      PROVE  CommandAt(s, k) \in Commands
  <2>1. s[k] \in Piece(Commands)
    OBVIOUS
  <2>2. PICK item : item = s[k].item /\ item \in Commands
    BY <2>1 DEF Piece
  <2>3. /\ [item EXCEPT !.kind = "rest"] \in Commands
        /\ [item EXCEPT !.kind = "cut off"] \in Commands
    BY <2>2 DEF Commands
  <2>4. \/ CommandAt(s, k) = item
        \/ CommandAt(s, k) = [item EXCEPT !.kind = "rest"]
        \/ CommandAt(s, k) = [item EXCEPT !.kind = "cut off"]
    BY <2>2 DEF CommandAt
  <2> QED BY <2>2, <2>3, <2>4
<1>3. Len(s) \in Nat
  OBVIOUS
<1>4. r \in Seq(Commands) /\ Len(r) = Len(s) /\ \A k \in 1 .. Len(s) : r[k] = CommandAt(s, k)
  BY <1>1, <1>2, <1>3
<1>5. PICK q : q = CommandsIn(s)
  OBVIOUS
<1>6. q = Selected(r, Starts(s))
  BY <1>1, <1>5 DEF CommandsIn
<1>7. /\ Selected(r, Starts(s)) \in Seq(Commands)
      /\ \E p \in [1 .. Len(Selected(r, Starts(s))) -> 1 .. Len(r)] :
           /\ \A i \in 1 .. Len(Selected(r, Starts(s))) :
                 p[i] \in Starts(s) /\ Selected(r, Starts(s))[i] = r[p[i]]
           /\ \A i, j \in 1 .. Len(Selected(r, Starts(s))) : i < j => p[i] < p[j]
  BY <1>4, SelectionPlaces
<1>8. PICK p \in [1 .. Len(q) -> 1 .. Len(s)] :
           /\ \A i \in 1 .. Len(q) : p[i] \in Starts(s) /\ q[i] = r[p[i]]
           /\ \A i, j \in 1 .. Len(q) : i < j => p[i] < p[j]
  BY <1>4, <1>6, <1>7
<1>9. \A i \in 1 .. Len(q) : p[i] \in Starts(s) /\ q[i] = CommandAt(s, p[i])
  BY <1>4, <1>8
<1> QED BY <1>5, <1>6, <1>7, <1>8, <1>9

(* main in receive_command(): what it is left with.                        *)
LEMMA ReceivedIs ==
  ASSUME TypeOK, main = "receive", to_visit # << >>, NEW c, c = Head(to_visit), Received(c)
  PROVE  /\ c \in Client /\ main' = "execute" /\ UNCHANGED <<client, connections, to_visit, subscribers>>
         /\ \E portion \in Portions(to_broker[c], BROKER_RECEIVE_BUFFER_SIZE) :
               /\ portion \in Seq(Piece(Commands)) /\ Len(portion) \in 1 .. Len(to_broker[c])
               /\ to_broker' = [to_broker EXCEPT ![c] = Remainder(@, portion)]
               /\ cut_in' = [cut_in EXCEPT ![c] = @ \/ EndsWithin(portion)]
               /\ left_in_buffer' = portion
               /\ \E scanned \in Scanned(portion) : batch' = CommandsIn(scanned)
               /\ batch' \in Seq(Commands)
<1>1. c \in Client /\ left_in_buffer = << >> /\ to_broker[c] \in Seq(Piece(Commands))
  BY DEF TypeOK, MainTypeOK, WiresTypeOK
<1>2. PICK portion \in Portions(to_broker[c], BROKER_RECEIVE_BUFFER_SIZE) :
          /\ to_broker' = [to_broker EXCEPT ![c] = Remainder(@, portion)]
          /\ left_in_buffer' \in Over(portion, left_in_buffer)
          /\ cut_in' = [cut_in EXCEPT ![c] = @ \/ EndsWithin(portion)]
  BY DEF Received
<1>3. left_in_buffer' = portion
  BY <1>1, <1>2 DEF Over
<1>4. PICK scanned \in Scanned(portion) : batch' = CommandsIn(scanned)
  BY <1>3 DEF Received
<1>5. portion \in Seq(Piece(Commands)) /\ Len(portion) \in 1 .. Len(to_broker[c])
  BY <1>1, SizesArePositive, PortionIs
<1>7. batch' \in Seq(Commands)
  <2>1. scanned \in Seq(Piece(Commands))
    BY <1>5, ScannedIs
  <2> QED BY <2>1, <1>4, CommandsInIs
<1> QED BY <1>1, <1>2, <1>3, <1>4, <1>5, <1>7 DEF Received

LEMMA RemovedType ==
  ASSUME NEW S, NEW q \in Seq(S), NEW e
  PROVE  RemoveFirst(q, e) \in Seq(S)
<1>1. CASE e \in ToSet(q)
  BY <1>1, RemoveFirstElements
<1>2. CASE e \notin ToSet(q)
  <2>1. ~ \E i \in 1 .. Len(q) : q[i] = e
    BY <1>2 DEF ToSet
  <2> QED BY <2>1 DEF RemoveFirst
<1> QED BY <1>1, <1>2

LEMMA MainTypes ==
  ASSUME TypeOK, MainStep
  PROVE  TypeOK'
<1>1. UNCHANGED <<command, receive_buffer, shown, sent, asked, to_client, element, to_send,
                  sent_to, cut_out>>
  BY DEF MainStep, consumerVars
<1>2. ClientTypeOK /\ MainTypeOK /\ QueuesTypeOK /\ WiresTypeOK
  BY DEF TypeOK
<1>3. CASE accept_connection
  <2>1. /\ main = "receive" /\ connections' \in Seq(Client) /\ to_visit' = connections'
        /\ lost' \in SUBSET Client
        /\ UNCHANGED <<client, to_broker, main, batch, response, subscribers, queue, outgoing_buffer,
                       notifications, left_in_buffer, executed, published, cut_in>>
    <3>1. \A c \in Client : Cons(c, connections) \in Seq(Client)
      BY <1>2, ConsElements DEF MainTypeOK
    <3>2. connections \in Seq(Client) /\ lost \in SUBSET Client
      BY <1>2 DEF MainTypeOK
    <3>3. CASE accept_nobody
      BY <3>2, <3>3 DEF accept_nobody, ServeFrom
    <3>4. ASSUME NEW c \in Client, accept(c)
          PROVE  /\ main = "receive" /\ connections' \in Seq(Client) /\ to_visit' = connections'
                 /\ lost' \in SUBSET Client
                 /\ UNCHANGED <<client, to_broker, main, batch, response, subscribers, queue,
                                outgoing_buffer, notifications, left_in_buffer, executed,
                                published, cut_in>>
      <4>1. lost \cup {c} \in SUBSET Client
        BY <3>2
      <4>2. CASE ServeFrom(Cons(c, connections)) /\ UNCHANGED lost
        BY <3>1, <3>2, <4>2 DEF ServeFrom
      <4>3. CASE ServeFrom(connections) /\ lost' = lost \cup {c}
        BY <3>2, <4>1, <4>3 DEF ServeFrom
      <4> QED BY <3>4, <4>2, <4>3 DEF accept
    <3> QED BY <1>3, <3>3, <3>4 DEF accept_connection
  <2>2. ClientTypeOK' /\ QueuesTypeOK' /\ WiresTypeOK'
    BY <1>1, <1>2, <2>1 DEF ClientTypeOK, QueuesTypeOK, WiresTypeOK
  <2>3. MainTypeOK'
    BY <1>2, <2>1 DEF MainTypeOK, Executing
  <2> QED BY <2>2, <2>3 DEF TypeOK
<1>4. CASE receive_commands
  <2> DEFINE c == Head(to_visit)
  <2>1. /\ main = "receive" /\ to_visit # << >> /\ c \in Client
        /\ Received(c) \/ NothingReceived(c) \/ ConnectionClosed(c)
        /\ UNCHANGED <<response, queue, outgoing_buffer, notifications, executed, published, lost>>
    BY <1>2, <1>4 DEF receive_commands, MainTypeOK
  <2>2. QueuesTypeOK'
    BY <1>1, <1>2, <2>1 DEF QueuesTypeOK
  <2> HIDE DEF c
  <2>3. CASE Received(c)
    <3>1. /\ main' = "execute" /\ UNCHANGED <<client, connections, to_visit, subscribers>>
          /\ \E portion \in Portions(to_broker[c], BROKER_RECEIVE_BUFFER_SIZE) :
               /\ portion \in Seq(Piece(Commands)) /\ Len(portion) \in 1 .. Len(to_broker[c])
               /\ to_broker' = [to_broker EXCEPT ![c] = Remainder(@, portion)]
               /\ cut_in' = [cut_in EXCEPT ![c] = @ \/ EndsWithin(portion)]
               /\ left_in_buffer' = portion
               /\ batch' \in Seq(Commands)
      BY <2>1, <2>3, ReceivedIs DEF c
    <3>2. PICK portion \in Portions(to_broker[c], BROKER_RECEIVE_BUFFER_SIZE) :
               /\ portion \in Seq(Piece(Commands))
               /\ to_broker' = [to_broker EXCEPT ![c] = Remainder(@, portion)]
               /\ cut_in' = [cut_in EXCEPT ![c] = @ \/ EndsWithin(portion)]
               /\ left_in_buffer' = portion
               /\ batch' \in Seq(Commands)
      BY <3>1
    <3>3. ClientTypeOK'
      BY <1>1, <1>2, <3>1 DEF ClientTypeOK
    <3>4. MainTypeOK'
      <4>1. cut_in' \in [Client -> BOOLEAN]
        <5>1. (cut_in[c] \/ EndsWithin(portion)) \in BOOLEAN
          OBVIOUS
        <5> QED BY <5>1, <3>2, <1>2 DEF MainTypeOK
      <4> QED BY <4>1, <1>2, <2>1, <3>1, <3>2 DEF MainTypeOK, Executing
    <3>5. WiresTypeOK'
      <4>1. Remainder(to_broker[c], portion) \in Seq(Piece(Commands))
        BY <1>2, <2>1, SizesArePositive, PortionIs DEF WiresTypeOK
      <4> QED BY <4>1, <1>1, <1>2, <2>1, <3>2 DEF WiresTypeOK
    <3> QED BY <2>2, <3>3, <3>4, <3>5 DEF TypeOK
  <2>4. CASE NothingReceived(c)
    <3>1. ClientTypeOK' /\ WiresTypeOK'
      BY <1>1, <1>2, <2>4 DEF ClientTypeOK, WiresTypeOK, NothingReceived
    <3>2. MainTypeOK'
      <4>1. Tail(to_visit) \in Seq(Client)
        BY <1>2, <2>1 DEF MainTypeOK
      <4> QED BY <4>1, <1>2, <2>1, <2>4 DEF MainTypeOK, Executing, NothingReceived
    <3> QED BY <2>2, <3>1, <3>2 DEF TypeOK
  <2>5. CASE ConnectionClosed(c)
    <3>1. ClientTypeOK' /\ WiresTypeOK'
      BY <1>1, <1>2, <2>1, <2>5
         DEF ClientTypeOK, ClientState, WiresTypeOK, ConnectionClosed, ClientAt
    <3>2. MainTypeOK'
      <4>1. /\ Tail(to_visit) \in Seq(Client) /\ RemoveFirst(connections, c) \in Seq(Client)
            /\ RemoveFirst(subscribers, c) \in Seq(Client)
        BY <1>2, <2>1, RemovedType DEF MainTypeOK
      <4> QED BY <4>1, <1>2, <2>1, <2>5 DEF MainTypeOK, Executing, ConnectionClosed
    <3> QED BY <2>2, <3>1, <3>2 DEF TypeOK
  <2> QED BY <2>1, <2>3, <2>4, <2>5
<1>5. CASE execute_command
  <2> DEFINE c == Head(to_visit)
             item == Head(batch)
  <2>1. /\ main = "execute" /\ batch # << >> /\ c \in Client /\ item \in Commands
        /\ Tail(batch) \in Seq(Commands)
    BY <1>2, <1>5 DEF execute_command, MainTypeOK, Executing
  <2>2. PICK meant \in TakenFor(item) :
           /\ \/ queue' = Append(queue, Message(published + 1)) /\ published' = published + 1
              \/ UNCHANGED <<queue, published>>
           /\ subscribers' = Cons(c, subscribers) \/ subscribers' = subscribers
           /\ response' = response_to(c, meant)
           /\ main' = CASE meant.known -> "notify"
                        [] response' # NULL -> "produce"
                        [] OTHER -> "execute"
    BY <1>5 DEF execute_command
  <2>3. /\ executed' = [executed EXCEPT ![c] = Append(@, item)]
        /\ batch' = Tail(batch)
        /\ UNCHANGED <<client, to_broker, connections, to_visit, outgoing_buffer, notifications,
                       left_in_buffer, cut_in, lost>>
    BY <1>5 DEF execute_command
  <2>4. response' \in Answers \cup {NULL}
    <3>1. CASE meant.operation \in Queries
      <4>1. meant.number \in Nat
        <5>1. meant # Nothing
          <6>1. Nothing.operation \notin Queries
            BY DEF Nothing, Queries
          <6> QED BY <3>1, <6>1
        <5>2. meant = item \/ \E operation, known :
                 meant = [item EXCEPT !.operation = operation, !.known = known]
          BY <2>1, <2>2, <5>1 DEF TakenFor, Commands
        <5> QED BY <2>1, <5>2 DEF Commands
      <4> QED BY <2>1, <2>2, <3>1, <4>1, AnswerIs DEF response_to
    <3>2. CASE meant.operation \notin Queries
      BY <2>2, <3>2 DEF response_to
    <3> QED BY <3>1, <3>2
  <2>5. /\ main' \in {"execute", "notify", "produce"}
        /\ main' = "produce" => response' # NULL
        /\ main' = "execute" => response' = NULL
    <3>1. CASE meant.known
      BY <2>2, <3>1
    <3>2. CASE ~meant.known /\ response' # NULL
      BY <2>2, <3>2
    <3>3. CASE ~meant.known /\ response' = NULL
      BY <2>2, <3>3
    <3> QED BY <3>1, <3>2, <3>3
  <2>6. published' \in Nat /\ queue' \in Seq(Messages) /\ subscribers' \in Seq(Client)
    <3>1. published \in Nat /\ queue \in Seq(Messages) /\ subscribers \in Seq(Client)
      BY <1>2 DEF MainTypeOK, QueuesTypeOK
    <3>2. published + 1 \in Nat /\ Message(published + 1) \in Messages
      BY <3>1 DEF Message, Messages
    <3>3. Append(queue, Message(published + 1)) \in Seq(Messages)
      BY <3>1, <3>2
    <3>4. Cons(c, subscribers) \in Seq(Client)
      BY <2>1, <3>1, ConsElements
    <3> QED BY <2>2, <3>1, <3>2, <3>3, <3>4
  <2>7. executed' \in [Client -> Seq(Commands)]
    <3>1. executed[c] \in Seq(Commands)
      BY <1>2, <2>1 DEF MainTypeOK
    <3>2. Append(executed[c], item) \in Seq(Commands)
      BY <2>1, <3>1
    <3> QED BY <1>2, <2>3, <3>2 DEF MainTypeOK
  <2> HIDE DEF c, item
  <2>8. MainTypeOK'
    BY <1>2, <2>1, <2>3, <2>4, <2>5, <2>6, <2>7 DEF MainTypeOK, Executing
  <2>9. ClientTypeOK' /\ QueuesTypeOK' /\ WiresTypeOK'
    BY <1>1, <1>2, <2>3, <2>6 DEF ClientTypeOK, QueuesTypeOK, WiresTypeOK
  <2> QED BY <2>8, <2>9 DEF TypeOK
<1>6. CASE batch_ends
  <2>1. /\ main = "execute" /\ batch = << >> /\ left_in_buffer' = << >> /\ main' = "receive"
        /\ to_visit' = Tail(to_visit)
        /\ UNCHANGED <<client, to_broker, connections, batch, response, subscribers, queue,
                       outgoing_buffer, notifications, executed, published, cut_in, lost>>
    BY <1>6 DEF batch_ends, clear_receive_buffer
  <2>2. to_visit \in Seq(Client) /\ to_visit # << >> /\ Tail(to_visit) \in Seq(Client)
    BY <1>2, <2>1 DEF MainTypeOK, Executing
  <2>3. MainTypeOK'
    BY <1>2, <2>1, <2>2 DEF MainTypeOK, Executing
  <2>4. ClientTypeOK' /\ QueuesTypeOK' /\ WiresTypeOK'
    BY <1>1, <1>2, <2>1 DEF ClientTypeOK, QueuesTypeOK, WiresTypeOK
  <2> QED BY <2>3, <2>4 DEF TypeOK
<1>7. CASE /\ send_to_stats_manager \/ produce_new_message
           /\ UNCHANGED <<client, to_broker, connections, to_visit, batch, subscribers, queue,
                          left_in_buffer, broken, executed, published, cut_in, lost>>
  <2>1. CASE send_to_stats_manager
    <3>1. MainTypeOK'
      <4>1. /\ main = "notify" /\ notifications' = notifications + 1
            /\ response' = response
            /\ \/ response # NULL /\ main' = "produce"
               \/ response = NULL /\ main' = "execute"
        BY <2>1 DEF send_to_stats_manager
      <4> QED BY <1>2, <1>7, <4>1 DEF MainTypeOK, Executing
    <3>2. ClientTypeOK' /\ QueuesTypeOK' /\ WiresTypeOK'
      BY <1>1, <1>2, <1>7, <2>1
         DEF ClientTypeOK, QueuesTypeOK, WiresTypeOK, send_to_stats_manager
    <3> QED BY <3>1, <3>2 DEF TypeOK
  <2>2. CASE produce_new_message
    <3>1. MainTypeOK'
      BY <1>2, <1>7, <2>2 DEF MainTypeOK, Executing, produce_new_message
    <3>2. ClientTypeOK' /\ WiresTypeOK'
      BY <1>1, <1>2, <1>7 DEF ClientTypeOK, WiresTypeOK
    <3>3. QueuesTypeOK'
      <4>1. response \in Sendable /\ outgoing_buffer \in Seq(Sendable)
        BY <1>2, <2>2 DEF MainTypeOK, QueuesTypeOK, Sendable, produce_new_message
      <4>2. Append(outgoing_buffer, response) \in Seq(Sendable)
        BY <4>1
      <4> QED BY <1>1, <1>2, <1>7, <2>2, <4>2 DEF QueuesTypeOK, produce_new_message
    <3> QED BY <3>1, <3>2, <3>3 DEF TypeOK
  <2> QED BY <1>7, <2>1, <2>2
<1> QED BY <1>3, <1>4, <1>5, <1>6, <1>7 DEF MainStep

LEMMA ThreadTypes ==
  ASSUME TypeOK, produce \/ ConsumerStep \/ receive_notifications
  PROVE  TypeOK'
<1>1. ClientTypeOK /\ MainTypeOK /\ QueuesTypeOK /\ WiresTypeOK
  BY DEF TypeOK
<1>2. CASE produce
  <2>1. ClientTypeOK' /\ MainTypeOK' /\ WiresTypeOK'
    BY <1>1, <1>2 DEF produce, clientVars, mainVars, consumerVars, ClientTypeOK, MainTypeOK,
                      Executing, WiresTypeOK
  <2>2. QueuesTypeOK'
    <3>1. /\ queue # << >> /\ outgoing_buffer' = Append(outgoing_buffer, Head(queue))
          /\ queue' = Tail(queue) /\ UNCHANGED <<element, to_send>>
      BY <1>2 DEF produce, consumerVars
    <3>2. /\ queue \in Seq(Messages) /\ Head(queue) \in Sendable /\ Tail(queue) \in Seq(Messages)
          /\ outgoing_buffer \in Seq(Sendable)
      BY <1>1, <3>1 DEF QueuesTypeOK, Sendable
    <3>3. Append(outgoing_buffer, Head(queue)) \in Seq(Sendable)
      BY <3>2
    <3> QED BY <1>1, <3>1, <3>2, <3>3 DEF QueuesTypeOK
  <2> QED BY <2>1, <2>2 DEF TypeOK
<1>3. CASE consume
  <2>1. ClientTypeOK' /\ MainTypeOK' /\ WiresTypeOK'
    BY <1>1, <1>3 DEF consume, clientVars, mainVars, ClientTypeOK, MainTypeOK,
                      Executing, WiresTypeOK
  <2>2. QueuesTypeOK'
    <3> DEFINE first == Head(outgoing_buffer)
    <3>1. /\ outgoing_buffer # << >> /\ outgoing_buffer' = Tail(outgoing_buffer) /\ queue' = queue
          /\ \/ first.kind = "answer" /\ to_send' = <<first.to>>
             \/ first.kind # "answer" /\ to_send' = subscribers
          /\ \/ to_send' = << >> /\ element' = NULL
             \/ to_send' # << >> /\ element' = first
      BY <1>3 DEF consume
    <3>2. /\ first \in Sendable /\ Tail(outgoing_buffer) \in Seq(Sendable)
          /\ subscribers \in Seq(Client) /\ queue \in Seq(Messages)
      BY <1>1, <3>1 DEF QueuesTypeOK, MainTypeOK
    <3> HIDE DEF first
    <3>3. to_send' \in Seq(Client)
      <4>1. CASE first.kind = "answer"
        <5>1. first.to \in Client
          BY <3>2, <4>1, Kinds DEF Sendable
        <5>2. to_send' = <<first.to>>
          BY <3>1, <4>1
        <5> QED BY <5>1, <5>2
      <4>2. CASE first.kind # "answer"
        BY <3>1, <3>2, <4>2
      <4> QED BY <4>1, <4>2
    <3> QED BY <3>1, <3>2, <3>3, Kinds DEF QueuesTypeOK
  <2> QED BY <2>1, <2>2 DEF TypeOK
<1>4. CASE send_to_client
  <2> DEFINE c == Head(to_send)
             new == IF ClientBuffer - Len(to_client[c]) = 1 THEN <<FrontOf(element)>> ELSE Whole(element)
  <2>1. ClientTypeOK' /\ MainTypeOK'
    BY <1>1, <1>4 DEF send_to_client, clientVars, mainVars, ClientTypeOK, MainTypeOK, Executing
  <2>2. /\ element # NULL /\ element \in Sendable /\ to_send \in Seq(Client) /\ to_send # << >>
        /\ c \in Client
    BY <1>1, <1>4 DEF send_to_client, QueuesTypeOK
  <2>3. QueuesTypeOK'
    <3>1. /\ to_send' = Tail(to_send) /\ UNCHANGED <<queue, outgoing_buffer>>
          /\ \/ to_send' = << >> /\ element' = NULL
             \/ to_send' # << >> /\ element' = element
      BY <1>4 DEF send_to_client
    <3>2. Tail(to_send) \in Seq(Client)
      BY <2>2
    <3>3. element.kind = "answer" => to_send' = << >>
      <4>1. \A d : Tail(<<d>>) = << >>
        OBVIOUS
      <4> QED BY <1>1, <2>2, <3>1, <4>1 DEF QueuesTypeOK
    <3> QED BY <1>1, <2>2, <3>1, <3>2, <3>3 DEF QueuesTypeOK
  <2>4. WiresTypeOK'
    <3>1. to_broker' = to_broker
      BY <1>4 DEF send_to_client
    <3>2. CASE UNCHANGED <<to_client, sent_to, cut_out>>
      BY <1>1, <3>1, <3>2 DEF WiresTypeOK
    <3>3. CASE /\ to_client' = [to_client EXCEPT ![c] = @ \o new]
               /\ cut_out' = [cut_out EXCEPT ![c] = @ \/ ClientBuffer - Len(to_client[c]) = 1]
               /\ sent_to' = [sent_to EXCEPT ![c] = Append(@, element)]
      <4>1. new \in Seq(Piece(Sendable))
        BY <2>2, WholeIs
      <4> HIDE DEF new
      <4>2. to_client[c] \o new \in Seq(Piece(Sendable))
        BY <1>1, <2>2, <4>1, ConcatProperties DEF WiresTypeOK
      <4>3. Append(sent_to[c], element) \in Seq(Sendable)
        BY <1>1, <2>2 DEF WiresTypeOK
      <4> HIDE DEF c
      <4>4. /\ to_client' = [to_client EXCEPT ![c] = to_client[c] \o new]
            /\ sent_to' = [sent_to EXCEPT ![c] = Append(sent_to[c], element)]
        BY <3>3
      <4>5. cut_out' \in [Client -> BOOLEAN]
        BY <1>1, <2>2, <3>3 DEF WiresTypeOK
      <4> QED BY <1>1, <3>1, <4>2, <4>3, <4>4, <4>5 DEF WiresTypeOK
    <3>4. \/ UNCHANGED <<to_client, sent_to, cut_out>>
          \/ /\ to_client' = [to_client EXCEPT ![c] = @ \o new]
             /\ cut_out' = [cut_out EXCEPT ![c] = @ \/ ClientBuffer - Len(to_client[c]) = 1]
             /\ sent_to' = [sent_to EXCEPT ![c] = Append(@, element)]
      BY <1>4 DEF send_to_client
    <3> QED BY <3>2, <3>3, <3>4
  <2> QED BY <2>1, <2>3, <2>4 DEF TypeOK
<1>5. CASE receive_notifications
  <2>1. MainTypeOK'
    BY <1>1, <1>5 DEF receive_notifications, MainTypeOK, Executing
  <2>2. ClientTypeOK' /\ QueuesTypeOK' /\ WiresTypeOK'
    BY <1>1, <1>5 DEF receive_notifications, clientVars, consumerVars, ClientTypeOK, QueuesTypeOK,
                      WiresTypeOK
  <2> QED BY <2>1, <2>2 DEF TypeOK
<1> QED BY <1>2, <1>3, <1>4, <1>5 DEF ConsumerStep

LEMMA TypesStep ==
  ASSUME TypeOK, [Next]_vars
  PROVE  TypeOK'
<1>1. CASE UNCHANGED vars
  BY <1>1 DEF vars, clientVars, mainVars, consumerVars, TypeOK, ClientTypeOK, MainTypeOK, Executing,
              QueuesTypeOK, WiresTypeOK
<1>2. CASE Next
  BY <1>2, ClientTypes, MainTypes, ThreadTypes DEF Next
<1> QED BY <1>1, <1>2

-----------------------------------------------------------------------------
(* How often a string was shown to a client, is on its way to him, or lies *)
(* where his receive_buffer may show it once more.                         *)
FrontsInv ==
    \A c \in Client, item \in Sendable :
        Cardinality(Places(shown[c], item)) + Cardinality(Places(to_client[c], FrontOf(item)))
          + Cardinality(Places(Behind(receive_buffer[c]), FrontOf(item)))
        <= Cardinality(Places(sent_to[c], item))

LEMMA FrontsInit == Init => FrontsInv
<1> SUFFICES ASSUME Init, NEW c \in Client, NEW item \in Sendable
             PROVE  Cardinality(Places(shown[c], item))
                      + Cardinality(Places(to_client[c], FrontOf(item)))
                      + Cardinality(Places(Behind(receive_buffer[c]), FrontOf(item)))
                    <= Cardinality(Places(sent_to[c], item))
  BY DEF FrontsInv
<1>1. /\ shown[c] = << >> /\ to_client[c] = << >> /\ Behind(receive_buffer[c]) = << >>
      /\ sent_to[c] = << >>
  BY DEF Init, Behind
<1> QED BY <1>1, NothingCounts

(* What a client makes of what recv() hands him: no string twice.          *)
LEMMA PortionFronts ==
  ASSUME TypeOK, NEW c \in Client, NEW item, NEW d, d = FrontOf(item),
         NEW portion \in Portions(to_client[c], CLIENT_RECEIVE_BUFFER_SIZE),
         NEW content \in Over(portion, receive_buffer[c])
  PROVE  /\ content \in Seq(Piece(Sendable)) /\ content # << >>
         /\ Cardinality(Places(content, d)) \in Nat
         /\ Cardinality(Places(Remainder(to_client[c], portion), d)) \in Nat
         /\ Cardinality(Places(content, d)) + Cardinality(Places(Remainder(to_client[c], portion), d))
              <= Cardinality(Places(to_client[c], d))
                   + Cardinality(Places(Behind(receive_buffer[c]), d))
<1> DEFINE s == to_client[c]
           old == receive_buffer[c]
           r == Remainder(s, portion)
<1>1. s \in Seq(Piece(Sendable)) /\ old \in Seq(Piece(Sendable)) /\ CLIENT_RECEIVE_BUFFER_SIZE \in Nat
  BY SizesArePositive DEF TypeOK, WiresTypeOK, ClientTypeOK
<1>2. /\ portion \in Seq(Piece(Sendable)) /\ portion # << >> /\ r \in Seq(Piece(Sendable))
      /\ content \in Seq(Piece(Sendable)) /\ content # << >>
  BY PortionType
<1>3. Cardinality(Places(s, d)) = Cardinality(Places(portion, d)) + Cardinality(Places(r, d))
  BY <1>1, PortionCounts
<1> HIDE DEF s, old, r
<1>4. Cardinality(Places(content, d)) <=
         Cardinality(Places(portion, d)) + Cardinality(Places(Behind(old), d))
  <2>1. /\ portion \in Seq(Piece(Sendable)) /\ portion # << >> /\ old \in Seq(Piece(Sendable))
        /\ content \in Over(portion, old)
    BY <1>1, <1>2 DEF old
  <2>2. Cardinality(Places(content, FrontOf(item))) <=
           Cardinality(Places(portion, FrontOf(item))) + Cardinality(Places(Behind(old), FrontOf(item)))
    BY ONLY <2>1, OverIs
  <2> QED BY <2>2
<1>5. /\ Cardinality(Places(portion, d)) \in Nat /\ Cardinality(Places(content, d)) \in Nat
      /\ Cardinality(Places(r, d)) \in Nat /\ Cardinality(Places(Behind(old), d)) \in Nat
  BY <1>1, <1>2, PlacesAreFinite, BehindIs
<1> QED BY <1>2, <1>3, <1>4, <1>5 DEF s, old, r

LEMMA FrontsStep ==
  ASSUME TypeOK, FrontsInv, [Next]_vars
  PROVE  FrontsInv'
<1> SUFFICES ASSUME NEW c \in Client, NEW item \in Sendable
             PROVE  (Cardinality(Places(shown[c], item))
                      + Cardinality(Places(to_client[c], FrontOf(item)))
                      + Cardinality(Places(Behind(receive_buffer[c]), FrontOf(item)))
                    <= Cardinality(Places(sent_to[c], item)))'
  BY DEF FrontsInv
<1> DEFINE front == FrontOf(item)
<1>1. /\ to_client \in [Client -> Seq(Piece(Sendable))]
      /\ receive_buffer \in [Client -> Seq(Piece(Sendable))]
      /\ shown \in [Client -> Seq(Sendable \cup {Misread})]
      /\ sent_to \in [Client -> Seq(Sendable)] /\ item # Misread
  BY Kinds DEF TypeOK, WiresTypeOK, ClientTypeOK
<1> HIDE DEF front
<1>2. /\ Cardinality(Places(shown[c], item)) + Cardinality(Places(to_client[c], front))
           + Cardinality(Places(Behind(receive_buffer[c]), front))
         <= Cardinality(Places(sent_to[c], item))
      /\ Cardinality(Places(shown[c], item)) \in Nat /\ Cardinality(Places(to_client[c], front)) \in Nat
      /\ Cardinality(Places(Behind(receive_buffer[c]), front)) \in Nat
      /\ Cardinality(Places(sent_to[c], item)) \in Nat
  BY <1>1, PlacesAreFinite, BehindIs DEF FrontsInv, front
<1> DEFINE Same(d) == UNCHANGED <<shown[d], to_client[d], receive_buffer[d], sent_to[d]>>
<1>3. CASE Same(c)
  BY <1>2, <1>3 DEF front
<1>4. ASSUME NEW d \in Client, ClientUser(d) \/ ClientProgram(d), d # c
      PROVE  Same(c)
  <2>1. /\ sent_to' = sent_to
        /\ \/ connect_to_broker(d) \/ get_option(d) \/ cleanup(d) \/ send_command(d)
           \/ receive_answer(d) \/ receive_subscription_messages(d)
    BY <1>4 DEF ClientUser, ClientProgram, consumerVars
  <2>2. CASE connect_to_broker(d) \/ get_option(d) \/ cleanup(d) \/ send_command(d)
    BY <2>1, <2>2 DEF connect_to_broker, get_option, cleanup, send_command
  <2>3. CASE receive_answer(d)
    BY <1>1, <1>4, <2>1, <2>3 DEF receive_answer, receive_from_broker
  <2>4. CASE receive_subscription_messages(d)
    BY <1>1, <1>4, <2>1, <2>4 DEF receive_subscription_messages, receive_from_broker
  <2> QED BY <2>1, <2>2, <2>3, <2>4
<1>5. CASE ClientUser(c) \/ ClientProgram(c)
  <2>1. /\ sent_to' = sent_to
        /\ \/ connect_to_broker(c) \/ get_option(c) \/ cleanup(c) \/ send_command(c)
           \/ receive_answer(c) \/ receive_subscription_messages(c)
    BY <1>5 DEF ClientUser, ClientProgram, consumerVars
  <2>2. CASE connect_to_broker(c) \/ get_option(c) \/ cleanup(c) \/ send_command(c)
    <3>1. Same(c)
      BY <2>1, <2>2 DEF connect_to_broker, get_option, cleanup, send_command
    <3> QED BY <3>1, <1>3
  <2>3. CASE receive_answer(c)
    <3>1. PICK portion \in Portions(to_client[c], CLIENT_RECEIVE_BUFFER_SIZE) :
             /\ receive_from_broker(c, portion)
             /\ receive_buffer' \in {[receive_buffer EXCEPT ![c] = content] :
                                       content \in Over(portion, receive_buffer[c])}
             /\ shown' = [shown EXCEPT ![c] = Append(@, TakenForAnswer(c, Head(portion)))]
      BY <2>3 DEF receive_answer
    <3>2. PICK content \in Over(portion, receive_buffer[c]) :
             receive_buffer' = [receive_buffer EXCEPT ![c] = content]
      BY <3>1
    <3>3. PICK taken : taken = TakenForAnswer(c, Head(portion))
      OBVIOUS
    <3>4. PICK r : r = Remainder(to_client[c], portion)
      OBVIOUS
    <3>5. /\ shown'[c] = Append(shown[c], taken) /\ to_client'[c] = r /\ receive_buffer'[c] = content
          /\ sent_to'[c] = sent_to[c]
      BY <1>1, <2>1, <3>1, <3>2, <3>3, <3>4 DEF receive_from_broker
    <3>6. /\ content \in Seq(Piece(Sendable)) /\ content # << >>
          /\ Cardinality(Places(content, front)) \in Nat /\ Cardinality(Places(r, front)) \in Nat
          /\ Cardinality(Places(content, front)) + Cardinality(Places(r, front))
               <= Cardinality(Places(to_client[c], front))
                    + Cardinality(Places(Behind(receive_buffer[c]), front))
      BY <3>4, PortionFronts DEF front
    <3>7. /\ Cardinality(Places(Behind(content), front)) \in Nat
          /\ Cardinality(Places(content, front)) =
               IF content[1] = front THEN Cardinality(Places(Behind(content), front)) + 1
                                     ELSE Cardinality(Places(Behind(content), front))
      BY <3>6, BehindIs
    <3>8. content[1] = Head(portion)
      <4>1. content[1] = portion[1] /\ portion \in Seq(Piece(Sendable)) /\ portion # << >>
        BY PortionType
      <4> QED BY <4>1
    <3>9. taken \in Sendable \cup {Misread} /\ (taken = item => content[1] = front)
      <4>1. Head(portion) \in Piece(Sendable)
        <5>1. portion \in Seq(Piece(Sendable)) /\ portion # << >>
          BY PortionType
        <5> QED BY <5>1
      <4>2. CASE Head(portion) = FrontOf(Answer(c, command[c]))
        <5>1. taken = Head(portion).item /\ taken \in Sendable
          BY <4>1, <4>2, <3>3 DEF TakenForAnswer, Piece
        <5>2. Head(portion) = FrontOf(taken)
          BY <4>2, <5>1 DEF FrontOf
        <5> QED BY <3>8, <5>1, <5>2 DEF front
      <4>3. CASE Head(portion) # FrontOf(Answer(c, command[c]))
        <5>1. taken = Misread
          BY <3>3, <4>3 DEF TakenForAnswer
        <5> QED BY <5>1, <1>1
      <4> QED BY <4>2, <4>3
    <3>10. Cardinality(Places(Append(shown[c], taken), item)) =
             IF item = taken THEN Cardinality(Places(shown[c], item)) + 1
                             ELSE Cardinality(Places(shown[c], item))
      <4>1. shown[c] \in Seq(Sendable \cup {Misread}) /\ taken \in Sendable \cup {Misread}
        BY <1>1, <3>9
      <4> QED BY ONLY <4>1, CountsAppended
    <3>11. Cardinality(Places(Append(shown[c], taken), item)) + Cardinality(Places(r, front))
             + Cardinality(Places(Behind(content), front)) <= Cardinality(Places(sent_to[c], item))
      <4>1. CASE taken = item
        <5>1. Cardinality(Places(content, front)) = Cardinality(Places(Behind(content), front)) + 1
          BY <3>7, <3>9, <4>1
        <5>2. Cardinality(Places(Append(shown[c], taken), item)) = Cardinality(Places(shown[c], item)) + 1
          BY <3>10, <4>1
        <5> QED BY <1>2, <3>6, <3>7, <5>1, <5>2
      <4>2. CASE taken # item
        <5>1. Cardinality(Places(content, front)) >= Cardinality(Places(Behind(content), front))
          BY <3>7
        <5>2. Cardinality(Places(Append(shown[c], taken), item)) = Cardinality(Places(shown[c], item))
          BY <3>10, <4>2
        <5>3. Cardinality(Places(r, front)) + Cardinality(Places(Behind(content), front))
                <= Cardinality(Places(to_client[c], front))
                     + Cardinality(Places(Behind(receive_buffer[c]), front))
          BY <1>2, <3>6, <3>7, <5>1
        <5> QED BY <1>2, <3>6, <3>7, <5>2, <5>3
      <4> QED BY <4>1, <4>2
    <3> QED BY <3>5, <3>11 DEF front
  <2>4. CASE receive_subscription_messages(c)
    <3>1. CASE UNCHANGED <<receive_buffer, shown, to_client>>
      <4>1. Same(c)
        BY <2>1, <3>1
      <4> QED BY <4>1, <1>3
    <3>2. CASE \E portion \in Portions(to_client[c], CLIENT_RECEIVE_BUFFER_SIZE) :
                 /\ receive_from_broker(c, portion)
                 /\ \E content \in Over(portion, receive_buffer[c]) :
                       \E scanned \in Scanned(content) :
                          shown' = [shown EXCEPT ![c] = @ \o ShownIn(scanned)]
                 /\ receive_buffer' = [receive_buffer EXCEPT ![c] = << >>]
      <4>1. PICK portion \in Portions(to_client[c], CLIENT_RECEIVE_BUFFER_SIZE) :
                 /\ receive_from_broker(c, portion)
                 /\ \E content \in Over(portion, receive_buffer[c]) :
                       \E scanned \in Scanned(content) :
                          shown' = [shown EXCEPT ![c] = @ \o ShownIn(scanned)]
                 /\ receive_buffer' = [receive_buffer EXCEPT ![c] = << >>]
        BY <3>2
      <4>2. PICK content \in Over(portion, receive_buffer[c]) : \E scanned \in Scanned(content) :
                 shown' = [shown EXCEPT ![c] = shown[c] \o ShownIn(scanned)]
        BY <4>1
      <4>11. PICK scanned \in Scanned(content) :
                 shown' = [shown EXCEPT ![c] = shown[c] \o ShownIn(scanned)]
        BY <4>2
      <4>3. PICK r : r = Remainder(to_client[c], portion)
        OBVIOUS
      <4>4. PICK strings : /\ strings = ShownIn(scanned)
                           /\ shown' = [shown EXCEPT ![c] = shown[c] \o strings]
        BY <4>11
      <4>5. /\ shown'[c] = shown[c] \o strings /\ to_client'[c] = r
            /\ Behind(receive_buffer'[c]) = << >> /\ sent_to'[c] = sent_to[c]
        BY <1>1, <2>1, <4>1, <4>2, <4>3, <4>4 DEF receive_from_broker, Behind
      <4>6. /\ content \in Seq(Piece(Sendable))
            /\ Cardinality(Places(content, front)) \in Nat /\ Cardinality(Places(r, front)) \in Nat
            /\ Cardinality(Places(content, front)) + Cardinality(Places(r, front))
                 <= Cardinality(Places(to_client[c], front))
                      + Cardinality(Places(Behind(receive_buffer[c]), front))
        BY <4>3, PortionFronts DEF front
      <4>7. /\ strings \in Seq(Sendable \cup {Misread})
            /\ Cardinality(Places(strings, item)) <= Cardinality(Places(content, front))
        <5>1. Misread \notin Sendable /\ content \in Seq(Piece(Sendable)) /\ scanned \in Scanned(content)
          BY <4>6, Kinds
        <5>2. /\ ShownIn(scanned) \in Seq(Sendable \cup {Misread})
              /\ \A e \in Sendable :
                    Cardinality(Places(ShownIn(scanned), e)) <= Cardinality(Places(content, FrontOf(e)))
          BY ONLY <5>1, ShownInIs
        <5> QED BY <4>4, <5>2 DEF front
      <4>8. Cardinality(Places(shown[c] \o strings, item)) =
               Cardinality(Places(shown[c], item)) + Cardinality(Places(strings, item))
        <5>1. shown[c] \in Seq(Sendable \cup {Misread}) /\ strings \in Seq(Sendable \cup {Misread})
          BY <1>1, <4>7
        <5> QED BY ONLY <5>1, CountsConcat
      <4>9. Cardinality(Places(strings, item)) \in Nat /\ Cardinality(Places(<< >>, front)) = 0
        BY <4>7, PlacesAreFinite, NothingCounts
      <4>10. Cardinality(Places(shown[c] \o strings, item)) + Cardinality(Places(r, front))
               + Cardinality(Places(<< >>, front)) <= Cardinality(Places(sent_to[c], item))
        BY <1>2, <4>6, <4>7, <4>8, <4>9
      <4> QED BY <4>5, <4>10 DEF front
    <3> QED BY <2>4, <3>1, <3>2 DEF receive_subscription_messages
  <2> QED BY <2>1, <2>2, <2>3, <2>4
<1>6. CASE send_to_client
  <2> DEFINE d == Head(to_send)
             new == IF ClientBuffer - Len(to_client[d]) = 1 THEN <<FrontOf(element)>> ELSE Whole(element)
  <2>1. /\ UNCHANGED <<shown, receive_buffer>>
        /\ \/ UNCHANGED <<to_client, sent_to>>
           \/ /\ to_client' = [to_client EXCEPT ![d] = @ \o new]
              /\ sent_to' = [sent_to EXCEPT ![d] = Append(@, element)]
    BY <1>6 DEF send_to_client, clientVars
  <2>2. element \in Sendable /\ d \in Client
    BY <1>6 DEF send_to_client, TypeOK, QueuesTypeOK
  <2>3. /\ new \in Seq(Piece(Sendable))
        /\ Cardinality(Places(new, front)) = IF element = item THEN 1 ELSE 0
    BY <2>2, WholeCounts DEF front
  <2> HIDE DEF d, new
  <2>4. CASE UNCHANGED <<to_client, sent_to>> \/ d # c
    <3>1. Same(c)
      BY <1>1, <2>1, <2>2, <2>4
    <3> QED BY <3>1, <1>3
  <2>5. CASE /\ d = c /\ to_client' = [to_client EXCEPT ![d] = @ \o new]
             /\ sent_to' = [sent_to EXCEPT ![d] = Append(@, element)]
    <3>1. /\ shown'[c] = shown[c] /\ to_client'[c] = to_client[c] \o new
          /\ receive_buffer'[c] = receive_buffer[c] /\ sent_to'[c] = Append(sent_to[c], element)
      BY <1>1, <2>1, <2>5
    <3>2. Cardinality(Places(to_client[c] \o new, front)) =
             Cardinality(Places(to_client[c], front)) + Cardinality(Places(new, front))
      <4>1. to_client[c] \in Seq(Piece(Sendable)) /\ new \in Seq(Piece(Sendable))
        BY <1>1, <2>3
      <4> QED BY ONLY <4>1, CountsConcat
    <3>3. Cardinality(Places(Append(sent_to[c], element), item)) =
             IF item = element THEN Cardinality(Places(sent_to[c], item)) + 1
                               ELSE Cardinality(Places(sent_to[c], item))
      BY <1>1, <2>2, CountsAppended
    <3>4. Cardinality(Places(shown[c], item)) + Cardinality(Places(to_client[c] \o new, front))
           + Cardinality(Places(Behind(receive_buffer[c]), front))
             <= Cardinality(Places(Append(sent_to[c], element), item))
      <4>1. CASE item = element
        BY <1>2, <2>3, <3>2, <3>3, <4>1
      <4>2. CASE item # element
        BY <1>2, <2>3, <3>2, <3>3, <4>2
      <4> QED BY <4>1, <4>2
    <3> QED BY <3>1, <3>4 DEF front
  <2> QED BY <2>1, <2>4, <2>5
<1>7. CASE \/ MainStep \/ produce \/ consume \/ receive_notifications \/ UNCHANGED vars
  <2>1. UNCHANGED <<shown, to_client, receive_buffer, sent_to>>
    BY <1>7 DEF MainStep, produce, consume, receive_notifications, vars, clientVars, consumerVars
  <2>2. Same(c)
    BY <2>1
  <2> QED BY <2>2, <1>3
<1> QED BY <1>3, <1>4, <1>5, <1>6, <1>7 DEF Next, ConsumerStep

-----------------------------------------------------------------------------
(* Commands: a client's are numbered, and so are, from 1, the pieces they  *)
(* are sent in.                                                            *)
Place(piece) == IF piece.part = "front" THEN 2 * piece.item.number - 1 ELSE 2 * piece.item.number
Coming(s, come) ==
    \A k \in 1 .. Len(s) : Place(s[k]) = come + k /\ s[k].item.kind = "command"

LEMMA PieceIs ==
  ASSUME NEW s \in Seq(Piece(Commands)), NEW k \in 1 .. Len(s)
  PROVE  /\ s[k] \in Piece(Commands) /\ s[k].part \in {"front", "rest"}
         /\ s[k].item \in Commands /\ s[k].item.number \in Nat /\ s[k].item.hashtag = TRUE
<1>1. s[k] \in Piece(Commands)
  OBVIOUS
<1>2. s[k].part \in {"front", "rest"} /\ s[k].item \in Commands
  BY <1>1 DEF Piece
<1> QED BY <1>1, <1>2 DEF Commands

LEMMA ComingInARow ==
  ASSUME NEW s \in Seq(Piece(Commands)), NEW half \in Nat, Coming(s, 2 * half)
  PROVE  \E q \in Seq(Commands) :
            /\ InARow(s, q)
            /\ \A j \in 1 .. Len(q) : q[j].number = half + j /\ q[j].kind = "command"
<1>1. PICK m \in Nat : Len(s) = 2 * m \/ Len(s) = 2 * m + 1
  <2>1. Len(s) \in Nat
    OBVIOUS
  <2> QED BY <2>1, EvenOrOdd
<1>2. \A k \in 1 .. Len(s) :
         /\ s[k] \in Piece(Commands) /\ s[k].part \in {"front", "rest"}
         /\ s[k].item \in Commands /\ s[k].item.number \in Nat
         /\ Place(s[k]) = 2 * half + k /\ s[k].item.kind = "command"
  BY PieceIs DEF Coming
<1>3. ASSUME NEW k \in 1 .. Len(s), NEW j \in Nat, k = 2 * j - 1
      PROVE  s[k].part = "front" /\ s[k].item.number = half + j
  <2>1. PICK n \in Nat : n = s[k].item.number
    BY <1>2
  <2>2. s[k].part = "front"
    <3>1. 2 * n # 2 * half + (2 * j - 1)
      OBVIOUS
    <3> QED BY <1>2, <1>3, <2>1, <3>1 DEF Place
  <2>3. 2 * n - 1 = 2 * half + (2 * j - 1)
    BY <1>2, <1>3, <2>1, <2>2 DEF Place
  <2>4. n = half + j
    BY <2>3
  <2> QED BY <2>1, <2>2, <2>4
<1>4. ASSUME NEW k \in 1 .. Len(s), NEW j \in Nat, k = 2 * j
      PROVE  s[k].part = "rest"
  <2>1. PICK n \in Nat : n = s[k].item.number
    BY <1>2
  <2>2. 2 * n - 1 # 2 * half + 2 * j
    OBVIOUS
  <2> QED BY <1>2, <1>4, <2>1, <2>2 DEF Place
<1> DEFINE q == [j \in 1 .. m |-> s[2 * j - 1].item]
<1>5. \A j \in 1 .. m : 2 * j - 1 \in 1 .. Len(s) /\ 2 * j \in 1 .. Len(s) /\ j \in Nat
  BY <1>1
<1>6. \A j \in 1 .. m : s[2 * j - 1].item \in Commands
  BY <1>2, <1>5
<1>7. q \in Seq(Commands) /\ Len(q) = m /\ \A j \in 1 .. m : q[j] = s[2 * j - 1].item
  BY <1>6
<1> HIDE DEF q
<1>8. ASSUME NEW j \in 1 .. m
      PROVE  /\ s[2 * j - 1].part = "front" /\ s[2 * j].part = "rest"
             /\ q[j].number = half + j /\ q[j].kind = "command"
  <2>1. /\ 2 * j - 1 \in 1 .. Len(s) /\ 2 * j \in 1 .. Len(s) /\ j \in Nat
        /\ q[j] = s[2 * j - 1].item
    BY <1>5, <1>7
  <2>2. s[2 * j - 1].part = "front" /\ s[2 * j - 1].item.number = half + j
    BY <2>1, <1>3
  <2>3. s[2 * j].part = "rest"
    BY <2>1, <1>4
  <2>4. s[2 * j - 1].item.kind = "command"
    BY <2>1, <1>2
  <2> QED BY <2>1, <2>2, <2>3, <2>4
<1>9. Len(s) = 2 * m + 1 => s[Len(s)].part = "front"
  <2> SUFFICES ASSUME Len(s) = 2 * m + 1 PROVE s[Len(s)].part = "front"
    OBVIOUS
  <2>1. Len(s) \in 1 .. Len(s) /\ m + 1 \in Nat /\ Len(s) = 2 * (m + 1) - 1
    BY <1>1
  <2> QED BY <2>1, <1>3
<1>10. InARow(s, q)
  BY <1>1, <1>7, <1>8, <1>9 DEF InARow
<1> QED BY <1>7, <1>8, <1>10

(* Of the pieces a command is sent in, the first and the last that main    *)
(* executed it from; and what it makes of what it receives.                *)
Start(item) == IF item.kind = "rest" THEN 2 * item.number ELSE 2 * item.number - 1
End(item) == IF item.kind = "cut off" THEN 2 * item.number - 1 ELSE 2 * item.number
InOrder(g) == \A j, k \in 1 .. Len(g) : j < k => End(g[j]) < Start(g[k])
Clean(g) == \A k \in 1 .. Len(g) : g[k].kind = "command"

LEMMA BatchIsOrdered ==
  ASSUME NEW s \in Seq(Piece(Commands)), NEW come \in Nat, Coming(s, come),
         NEW t \in Scanned(s), NEW b, b = CommandsIn(t)
  PROVE  /\ b \in Seq(Commands) /\ InOrder(b)
         /\ \A i \in 1 .. Len(b) : come < Start(b[i]) /\ End(b[i]) <= come + Len(s)
<1>1. PICK w \in Nat : w = Len(s)
  OBVIOUS
<1>2. /\ t \in Seq(Piece(Commands)) /\ Len(t) \in 0 .. w
      /\ \A k \in 1 .. Len(t) : t[k] = s[k] /\ k \in 1 .. w
  <2>1. /\ t \in Seq(Piece(Commands)) /\ Len(t) \in 0 .. Len(s)
        /\ \A k \in 1 .. Len(t) : t[k] = s[k]
    BY ScannedIs
  <2> QED BY <1>1, <2>1
<1>3. PICK l \in 0 .. w : l = Len(t)
  BY <1>2
<1>4. ASSUME NEW k \in 1 .. l
      PROVE  /\ Start(CommandAt(t, k)) = come + k
             /\ \/ End(CommandAt(t, k)) = come + k
                \/ End(CommandAt(t, k)) = come + k + 1 /\ k < l /\ t[k].part = "front"
  <2>1. k \in 1 .. Len(s) /\ t[k] = s[k] /\ k \in 1 .. w
    BY <1>1, <1>2, <1>3
  <2>2. /\ s[k].part \in {"front", "rest"} /\ s[k].item \in Commands
        /\ Place(s[k]) = come + k /\ s[k].item.kind = "command"
    BY <2>1, PieceIs DEF Coming
  <2>3. PICK item \in Commands : item = s[k].item /\ item.kind = "command"
    BY <2>2
  <2>4. PICK n \in Nat : n = item.number
    BY DEF Commands
  <2>5. CASE s[k].part = "rest"
    <3>1. CommandAt(t, k) = [item EXCEPT !.kind = "rest"]
      BY <2>1, <2>3, <2>5 DEF CommandAt
    <3>2. CommandAt(t, k).kind = "rest" /\ CommandAt(t, k).number = n
      BY <2>4, <3>1 DEF Commands
    <3>3. 2 * n = come + k
      BY <2>2, <2>3, <2>4, <2>5 DEF Place
    <3> QED BY <3>2, <3>3 DEF Start, End
  <2>6. CASE s[k].part = "front"
    <3>1. 2 * n - 1 = come + k
      BY <2>2, <2>3, <2>4, <2>6 DEF Place
    <3>2. CASE k = Len(t)
      <4>1. CommandAt(t, k) = [item EXCEPT !.kind = "cut off"]
        BY <2>1, <2>3, <2>6, <3>2 DEF CommandAt
      <4>2. CommandAt(t, k).kind = "cut off" /\ CommandAt(t, k).number = n
        BY <2>4, <4>1 DEF Commands
      <4> QED BY <3>1, <4>2 DEF Start, End
    <3>3. CASE k # Len(t)
      <4>1. CommandAt(t, k) = item
        BY <2>1, <2>3, <2>6, <3>3 DEF CommandAt
      <4>2. Start(item) = 2 * n - 1 /\ End(item) = 2 * n
        BY <2>3, <2>4 DEF Start, End
      <4>3. k < l /\ 2 * n = come + k + 1
        BY <1>3, <3>1, <3>3
      <4> QED BY <2>1, <2>6, <3>1, <4>1, <4>2, <4>3
    <3> QED BY <3>2, <3>3
  <2> QED BY <2>2, <2>5, <2>6
<1>5. /\ CommandsIn(t) \in Seq(Commands)
      /\ \E p \in [1 .. Len(CommandsIn(t)) -> 1 .. Len(t)] :
           /\ \A i \in 1 .. Len(CommandsIn(t)) :
                 p[i] \in Starts(t) /\ CommandsIn(t)[i] = CommandAt(t, p[i])
           /\ \A i, j \in 1 .. Len(CommandsIn(t)) : i < j => p[i] < p[j]
  BY <1>2, CommandsInIs
<1>6. PICK p \in [1 .. Len(b) -> 1 .. l] :
           /\ \A i \in 1 .. Len(b) : p[i] \in Starts(t) /\ b[i] = CommandAt(t, p[i])
           /\ \A i, j \in 1 .. Len(b) : i < j => p[i] < p[j]
  BY <1>3, <1>5
<1>7. ASSUME NEW i \in 1 .. Len(b)
      PROVE  come < Start(b[i]) /\ End(b[i]) <= come + w
  <2>1. PICK k \in 1 .. l : k = p[i] /\ b[i] = CommandAt(t, k)
    BY <1>6
  <2>2. k \in Nat /\ 1 <= k /\ k <= l /\ l \in Nat /\ l <= w
    OBVIOUS
  <2>3. Start(b[i]) = come + k /\ (End(b[i]) = come + k \/ (End(b[i]) = come + k + 1 /\ k < l))
    BY <1>4, <2>1
  <2> QED BY <2>2, <2>3
<1>8. ASSUME NEW i \in 1 .. Len(b), NEW j \in 1 .. Len(b), i < j
      PROVE  End(b[i]) < Start(b[j])
  <2>1. PICK k \in 1 .. l : k = p[i] /\ b[i] = CommandAt(t, k)
    BY <1>6
  <2>2. PICK h \in 1 .. l : h = p[j] /\ h \in Starts(t) /\ b[j] = CommandAt(t, h)
    BY <1>6
  <2>3. k < h /\ k \in Nat /\ h \in Nat
    BY <1>6, <1>8, <2>1, <2>2
  <2>4. Start(b[j]) = come + h
    BY <1>4, <2>2
  <2>5. CASE End(b[i]) = come + k
    BY <2>3, <2>4, <2>5
  <2>6. CASE End(b[i]) = come + k + 1 /\ t[k].part = "front"
    <3>1. h # k + 1
      <4>1. h = 1 \/ t[h - 1].part = "rest"
        BY <2>2 DEF Starts
      <4>2. h = k + 1 => h - 1 = k /\ h # 1
        BY <2>3
      <4> QED BY <2>6, <4>1, <4>2
    <3> QED BY <2>3, <2>4, <2>6, <3>1
  <2> QED BY <1>4, <2>1, <2>5, <2>6
<1> QED BY <1>1, <1>5, <1>7, <1>8 DEF InOrder

LEMMA BatchIsWhole ==
  ASSUME NEW s \in Seq(Piece(Commands)), s # << >>, NEW half \in Nat, Coming(s, 2 * half),
         ~EndsWithin(s), NEW t \in Scanned(s), NEW b, b = CommandsIn(t)
  PROVE  /\ Len(s) = 2 * Len(b) /\ Clean(b)
         /\ \A j \in 1 .. Len(b) : b[j].number = half + j
<1>1. PICK q \in Seq(Commands) :
          /\ InARow(s, q)
          /\ \A j \in 1 .. Len(q) : q[j].number = half + j /\ q[j].kind = "command"
  BY ComingInARow
<1>2. t = s
  <2>1. \A k \in 1 .. Len(s) : s[k].item.hashtag = TRUE
    BY PieceIs
  <2> QED BY <1>1, <2>1, ScannedInARow
<1>3. PICK l \in Nat : l = Len(q)
  OBVIOUS
<1>4. PICK w \in Nat : w = Len(s)
  OBVIOUS
<1>5. w = 2 * l
  <2>1. ~(s[Len(s)].part = "front")
    BY DEF EndsWithin, Last
  <2> QED BY <1>1, <1>3, <1>4, <2>1 DEF InARow
<1>6. PICK r : r = [k \in 1 .. Len(s) |-> CommandAt(s, k)]
  OBVIOUS
<1>7. r \in Seq(Commands) /\ Len(r) = w /\ \A k \in 1 .. w : r[k] = CommandAt(s, k)
  <2>1. ASSUME NEW k \in 1 .. w
        PROVE  CommandAt(s, k) \in Commands
    <3>1. PICK item \in Commands : item = s[k].item
      BY <1>4, PieceIs
    <3>2. /\ [item EXCEPT !.kind = "rest"] \in Commands
          /\ [item EXCEPT !.kind = "cut off"] \in Commands
      BY DEF Commands
    <3>3. \/ CommandAt(s, k) = item
          \/ CommandAt(s, k) = [item EXCEPT !.kind = "rest"]
          \/ CommandAt(s, k) = [item EXCEPT !.kind = "cut off"]
      BY <3>1 DEF CommandAt
    <3> QED BY <3>1, <3>2, <3>3
  <2> QED BY <1>4, <1>6, <2>1
<1>8. ASSUME NEW j \in 1 .. l
      PROVE  r[2 * j - 1] = q[j]
  <2>1. 2 * j - 1 \in 1 .. w /\ 2 * j - 1 # w /\ j \in 1 .. Len(q)
    BY <1>3, <1>5
  <2>2. s[2 * j - 1].part = "front" /\ s[2 * j - 1].item = q[j]
    BY <1>1, <2>1 DEF InARow
  <2>3. CommandAt(s, 2 * j - 1) = s[2 * j - 1].item
    BY <1>4, <2>1, <2>2 DEF CommandAt
  <2> QED BY <1>7, <2>1, <2>2, <2>3
<1>9. PICK K : K = Starts(s)
  OBVIOUS
<1>10. ASSUME NEW k \in 1 .. Len(r)
       PROVE  k \in K <=> \E j \in 1 .. Len(q) : k = 2 * j - 1
  <2>1. k \in 1 .. Len(s) /\ k \in 1 .. w
    BY <1>4, <1>7
  <2>2. /\ k \in Starts(s) => s[k].part = "front"
        /\ k \in WholeAt(s) <=> \E j \in 1 .. Len(q) : k = 2 * j - 1
    BY <1>1, <2>1, PlacesInARow
  <2>3. k \in WholeAt(s) => k \in Starts(s)
    BY DEF WholeAt
  <2>4. ASSUME k \in Starts(s)
        PROVE  \E j \in 1 .. Len(q) : k = 2 * j - 1
    <3>1. PICK j \in Nat : k = 2 * j \/ k = 2 * j + 1
      <4>1. k \in Nat
        OBVIOUS
      <4> QED BY <4>1, EvenOrOdd
    <3>2. CASE k = 2 * j
      <4>1. j \in 1 .. Len(q)
        BY <1>3, <1>5, <2>1, <3>2
      <4>2. s[k].part = "rest"
        BY <1>1, <3>2, <4>1 DEF InARow
      <4> QED BY <2>2, <2>4, <4>2
    <3>3. CASE k = 2 * j + 1
      <4>1. j + 1 \in 1 .. Len(q) /\ k = 2 * (j + 1) - 1
        BY <1>3, <1>5, <2>1, <3>3
      <4> QED BY <4>1
    <3> QED BY <3>1, <3>2, <3>3
  <2> QED BY <1>9, <2>2, <2>3, <2>4
<1>11. Selected(r, K) = q
  <2>1. /\ r \in Seq(Commands) /\ q \in Seq(Commands)
        /\ Len(r) = 2 * Len(q) \/ Len(r) = 2 * Len(q) + 1
        /\ \A j \in 1 .. Len(q) : r[2 * j - 1] = q[j]
        /\ \A k \in 1 .. Len(r) : k \in K <=> \E j \in 1 .. Len(q) : k = 2 * j - 1
    BY <1>3, <1>5, <1>7, <1>8, <1>10
  <2> QED BY ONLY <2>1, SelectionOfOdds
<1>12. b = q
  BY <1>2, <1>6, <1>9, <1>11 DEF CommandsIn
<1> QED BY <1>1, <1>3, <1>4, <1>5, <1>12 DEF Clean

LEMMA NumbersAre ==
  ASSUME NEW b \in Seq(Commands)
  PROVE  /\ Numbers(b) \in Seq(Nat) /\ Len(Numbers(b)) = Len(b)
         /\ \A k \in 1 .. Len(b) : Numbers(b)[k] = b[k].number
<1>1. \A k \in 1 .. Len(b) : b[k] \in Commands
  OBVIOUS
<1>2. \A k \in 1 .. Len(b) : b[k].number \in Nat
  BY <1>1 DEF Commands
<1>3. Len(b) \in Nat
  OBVIOUS
<1> QED BY <1>2, <1>3 DEF Numbers

LEMMA HeadMoves ==
  ASSUME NEW S, NEW e \in Seq(S), NEW b \in Seq(S), b # << >>
  PROVE  Append(e, Head(b)) \o Tail(b) = e \o b
<1>1. PICK n \in S : n = Head(b)
  <2>1. Len(b) \in Nat /\ Len(b) # 0 /\ Head(b) = b[1]
    OBVIOUS
  <2>2. b[1] \in S
    BY <2>1
  <2> QED BY <2>1, <2>2
<1>4. PICK t : t = Tail(b)
  OBVIOUS
<1>5. t \in Seq(S) /\ Len(t) = Len(b) - 1 /\ Len(b) \in Nat /\ Len(b) # 0
      /\ \A k \in 1 .. Len(b) - 1 : t[k] = b[k + 1]
  BY <1>4
<1>2. PICK y \in Seq(S) : y = Tail(b) /\ y = t
  BY <1>4, <1>5
<1>3. PICK x \in Seq(S) : x = b
  OBVIOUS
<1>6. Len(x) = Len(b) /\ x[1] = n /\ Len(y) = Len(b) - 1 /\ Len(b) \in Nat /\ Len(b) # 0
      /\ \A k \in 1 .. Len(b) - 1 : y[k] = x[k + 1]
  BY <1>1, <1>2, <1>3, <1>5
<1>7. Append(e, n) \o y = e \o x
  <2>1. PICK f : f = Append(e, n)
    OBVIOUS
  <2>2. /\ f \in Seq(S) /\ Len(e) \in Nat /\ Len(f) = Len(e) + 1 /\ f[Len(e) + 1] = n
        /\ \A k \in 1 .. Len(e) : f[k] = e[k]
    BY <2>1, AppendProperties
  <2>3. PICK u : u = f \o y
    OBVIOUS
  <2>4. PICK v : v = e \o x
    OBVIOUS
  <2>8. /\ u \in Seq(S) /\ Len(u) = Len(f) + Len(y)
        /\ \A k \in 1 .. Len(f) + Len(y) : u[k] = IF k <= Len(f) THEN f[k] ELSE y[k - Len(f)]
    <3>1. f \in Seq(S) /\ y \in Seq(S)
      BY <2>2
    <3> QED BY ONLY <2>3, <3>1, ConcatProperties
  <2>9. /\ v \in Seq(S) /\ Len(v) = Len(e) + Len(x)
        /\ \A k \in 1 .. Len(e) + Len(x) : v[k] = IF k <= Len(e) THEN e[k] ELSE x[k - Len(e)]
    BY ONLY <2>4, ConcatProperties
  <2>5. /\ u \in Seq(S) /\ v \in Seq(S) /\ Len(u) = Len(e) + Len(b) /\ Len(v) = Len(e) + Len(b)
    BY <1>6, <2>2, <2>8, <2>9
  <2>6. ASSUME NEW k \in 1 .. Len(e) + Len(b)
        PROVE  u[k] = v[k]
    <3>4. k \in Nat /\ 1 <= k /\ k <= Len(e) + Len(b)
      BY <1>6, <2>2
    <3>5. k \in 1 .. Len(f) + Len(y) /\ k \in 1 .. Len(e) + Len(x)
      BY <1>6, <2>2, <3>4
    <3>6. u[k] = IF k <= Len(f) THEN f[k] ELSE y[k - Len(f)]
      BY <2>8, <3>5
    <3>7. v[k] = IF k <= Len(e) THEN e[k] ELSE x[k - Len(e)]
      BY <2>9, <3>5
    <3>1. CASE k <= Len(e)
      BY <2>2, <3>1, <3>4, <3>6, <3>7
    <3>2. CASE k = Len(e) + 1
      BY <1>6, <2>2, <3>2, <3>6, <3>7
    <3>3. CASE k > Len(e) + 1
      <4>1. k - (Len(e) + 1) \in 1 .. Len(b) - 1 /\ k - (Len(e) + 1) + 1 = k - Len(e)
        BY <1>6, <2>2, <3>3, <3>4
      <4>2. u[k] = y[k - (Len(e) + 1)]
        BY <2>2, <3>3, <3>4, <3>6
      <4>3. v[k] = x[k - Len(e)]
        BY <2>2, <3>3, <3>4, <3>7
      <4> QED BY <1>6, <4>1, <4>2, <4>3
    <3> QED BY <2>2, <3>1, <3>2, <3>3, <3>4
  <2>7. u = v
    BY <2>5, <2>6
  <2> QED BY <2>1, <2>3, <2>4, <2>7
<1> QED BY <1>1, <1>2, <1>3, <1>7

(* Of the commands got so far: none that has not come, and in order; or    *)
(* even all of them.                                                       *)
Ordered(g, come) == InOrder(g) /\ \A j \in 1 .. Len(g) : End(g[j]) <= come
AllOf(g, come) == 2 * Len(g) = come /\ \A j \in 1 .. Len(g) : g[j].number = j
Even(n) == \E half \in Nat : n = 2 * half

LEMMA EndIs ==
  ASSUME NEW item \in Commands
  PROVE  Start(item) \in Int /\ End(item) \in Int /\ item.number \in Nat
<1>1. PICK n \in Nat : n = item.number
  BY DEF Commands
<1>2. 2 * n \in Int /\ 2 * n - 1 \in Int
  OBVIOUS
<1> QED BY <1>1, <1>2 DEF Start, End

LEMMA JoinedIs ==
  ASSUME NEW S, NEW e \in Seq(S), NEW b \in Seq(S)
  PROVE  /\ e \o b \in Seq(S) /\ Len(e \o b) = Len(e) + Len(b)
         /\ \A j \in 1 .. Len(e) : (e \o b)[j] = e[j]
         /\ \A j \in 1 .. Len(b) : (e \o b)[Len(e) + j] = b[j]
         /\ \A j \in 1 .. Len(e) + Len(b) :
               \/ j \in 1 .. Len(e) /\ (e \o b)[j] = e[j]
               \/ /\ j > Len(e) /\ j - Len(e) \in 1 .. Len(b)
                  /\ (e \o b)[j] = b[j - Len(e)]
<1>1. PICK g : g = e \o b
  OBVIOUS
<1>2. PICK m \in Nat : m = Len(e)
  OBVIOUS
<1>3. PICK l \in Nat : l = Len(b)
  OBVIOUS
<1>4. /\ g \in Seq(S) /\ Len(g) = Len(e) + Len(b)
      /\ \A j \in 1 .. Len(e) + Len(b) : g[j] = IF j <= Len(e) THEN e[j] ELSE b[j - Len(e)]
  BY ONLY <1>1, ConcatProperties
<1>5. \A j \in 1 .. m + l : g[j] = IF j <= m THEN e[j] ELSE b[j - m]
  BY <1>2, <1>3, <1>4
<1>6. ASSUME NEW j \in 1 .. m
      PROVE  g[j] = e[j]
  <2>1. j \in 1 .. m + l /\ j <= m
    OBVIOUS
  <2> QED BY <1>5, <2>1
<1>7. ASSUME NEW j \in 1 .. l
      PROVE  g[m + j] = b[j]
  <2>1. m + j \in 1 .. m + l /\ ~(m + j <= m) /\ (m + j) - m = j
    OBVIOUS
  <2> QED BY <1>5, <2>1
<1>8. ASSUME NEW j \in 1 .. m + l
      PROVE  \/ j \in 1 .. m /\ g[j] = e[j]
             \/ j > m /\ j - m \in 1 .. l /\ g[j] = b[j - m]
  <2>1. CASE j <= m
    <3>1. j \in 1 .. m
      BY <2>1
    <3> QED BY <3>1, <1>6
  <2>2. CASE ~(j <= m)
    <3>1. j > m /\ j - m \in 1 .. l
      BY <2>2
    <3> QED BY <2>2, <3>1, <1>5
  <2> QED BY <2>1, <2>2
<1> QED BY <1>1, <1>2, <1>3, <1>4, <1>6, <1>7, <1>8

LEMMA GotMore ==
  ASSUME NEW e \in Seq(Commands), NEW s \in Seq(Piece(Commands)), s # << >>, NEW come \in Nat,
         Coming(s, come), Ordered(e, come), NEW t \in Scanned(s), NEW b, b = CommandsIn(t)
  PROVE  /\ b \in Seq(Commands) /\ Ordered(e \o b, come + Len(s))
         /\ Clean(e) /\ Even(come) /\ ~EndsWithin(s) =>
               Clean(b) /\ Clean(e \o b) /\ Even(come + Len(s))
         /\ AllOf(e, come) /\ ~EndsWithin(s) => AllOf(e \o b, come + Len(s))
<1>1. /\ b \in Seq(Commands) /\ InOrder(b)
      /\ \A i \in 1 .. Len(b) : come < Start(b[i]) /\ End(b[i]) <= come + Len(s)
  BY BatchIsOrdered
<1>2. PICK g : g = e \o b
  OBVIOUS
<1>3. PICK m \in Nat : m = Len(e)
  OBVIOUS
<1>4. PICK l \in Nat : l = Len(b)
  BY <1>1
<1>5. PICK w \in Nat : w = Len(s)
  OBVIOUS
<1>6. /\ g \in Seq(Commands) /\ Len(g) = m + l
      /\ \A j \in 1 .. m + l : \/ j \in 1 .. m /\ g[j] = e[j]
                               \/ j > m /\ j - m \in 1 .. l /\ g[j] = b[j - m]
  BY <1>1, <1>2, <1>3, <1>4, JoinedIs
<1>7. /\ \A j \in 1 .. m : e[j] \in Commands /\ End(e[j]) \in Int /\ End(e[j]) <= come
      /\ \A j \in 1 .. l : /\ b[j] \in Commands /\ End(b[j]) \in Int /\ Start(b[j]) \in Int
                           /\ come < Start(b[j]) /\ End(b[j]) <= come + w
      /\ \A j, k \in 1 .. m : j < k => End(e[j]) < Start(e[k])
      /\ \A j, k \in 1 .. l : j < k => End(b[j]) < Start(b[k])
  <2>1. /\ \A j \in 1 .. m : e[j] \in Commands
        /\ \A j \in 1 .. l : b[j] \in Commands
    BY <1>1, <1>3, <1>4
  <2> QED BY <1>1, <1>3, <1>4, <1>5, <2>1, EndIs DEF Ordered, InOrder
<1>8. ASSUME NEW j \in 1 .. m + l
      PROVE  End(g[j]) <= come + w
  <2>1. CASE j \in 1 .. m /\ g[j] = e[j]
    BY <1>7, <2>1
  <2>2. CASE j - m \in 1 .. l /\ g[j] = b[j - m]
    BY <1>7, <2>2
  <2> QED BY <1>6, <2>1, <2>2
<1>9. ASSUME NEW j \in 1 .. m + l, NEW k \in 1 .. m + l, j < k
      PROVE  End(g[j]) < Start(g[k])
  <2>1. CASE j \in 1 .. m /\ g[j] = e[j] /\ k \in 1 .. m /\ g[k] = e[k]
    BY <1>7, <1>9, <2>1
  <2>2. CASE j \in 1 .. m /\ g[j] = e[j] /\ k - m \in 1 .. l /\ g[k] = b[k - m]
    BY <1>7, <2>2
  <2>3. CASE /\ j - m \in 1 .. l /\ g[j] = b[j - m]
             /\ k - m \in 1 .. l /\ g[k] = b[k - m]
    <3>1. j - m < k - m
      BY <1>9
    <3> QED BY <1>7, <2>3, <3>1
  <2>4. ~(j > m /\ k \in 1 .. m)
    BY <1>9
  <2> QED BY <1>6, <2>1, <2>2, <2>3, <2>4
<1>10. Ordered(g, come + w)
  BY <1>6, <1>8, <1>9 DEF Ordered, InOrder
<1>11. ASSUME Even(come), ~EndsWithin(s)
       PROVE  /\ w = 2 * l /\ Clean(b)
              /\ \E half \in Nat : come = 2 * half /\ \A j \in 1 .. l : b[j].number = half + j
  <2>1. PICK half \in Nat : come = 2 * half
    BY <1>11 DEF Even
  <2>2. Coming(s, 2 * half)
    BY <2>1
  <2>3. /\ Len(s) = 2 * Len(b) /\ Clean(b)
        /\ \A j \in 1 .. Len(b) : b[j].number = half + j
    BY <1>11, <2>2, BatchIsWhole
  <2> QED BY <1>4, <1>5, <2>1, <2>3
<1>12. ASSUME Clean(e), Even(come), ~EndsWithin(s)
       PROVE  Clean(b) /\ Clean(g) /\ Even(come + w)
  <2>1. Clean(g)
    <3> SUFFICES ASSUME NEW j \in 1 .. m + l PROVE g[j].kind = "command"
      BY <1>6 DEF Clean
    <3>1. CASE j \in 1 .. m /\ g[j] = e[j]
      BY <1>3, <1>12, <3>1 DEF Clean
    <3>2. CASE j - m \in 1 .. l /\ g[j] = b[j - m]
      BY <1>4, <1>11, <1>12, <3>2 DEF Clean
    <3> QED BY <1>6, <3>1, <3>2
  <2>2. PICK half \in Nat : come = 2 * half
    BY <1>12 DEF Even
  <2>3. come + w = 2 * (half + l) /\ half + l \in Nat
    BY <1>11, <1>12, <2>2
  <2> QED BY <1>11, <1>12, <2>1, <2>3 DEF Even
<1>13. ASSUME AllOf(e, come), ~EndsWithin(s)
       PROVE  AllOf(g, come + w)
  <2>1. come = 2 * m /\ \A j \in 1 .. m : e[j].number = j
    BY <1>3, <1>13 DEF AllOf
  <2>2. Even(come)
    BY <2>1 DEF Even
  <2>3. PICK half \in Nat : come = 2 * half /\ \A j \in 1 .. l : b[j].number = half + j
    BY <1>11, <1>13, <2>2
  <2>4. w = 2 * l /\ half = m
    BY <1>11, <1>13, <2>1, <2>2, <2>3
  <2>5. ASSUME NEW j \in 1 .. m + l
        PROVE  g[j].number = j
    <3>1. CASE j \in 1 .. m /\ g[j] = e[j]
      BY <2>1, <3>1
    <3>2. CASE j - m \in 1 .. l /\ g[j] = b[j - m]
      <4>1. b[j - m].number = m + (j - m)
        BY <2>3, <2>4, <3>2
      <4> QED BY <3>2, <4>1
    <3> QED BY <1>6, <3>1, <3>2
  <2> QED BY <1>6, <2>1, <2>4, <2>5 DEF AllOf
<1> QED BY <1>1, <1>2, <1>5, <1>10, <1>12, <1>13

LEMMA SentIsComing ==
  ASSUME NEW s \in Seq(Piece(Commands)), NEW come \in Nat, Coming(s, come),
         NEW item \in Commands, item.kind = "command", 2 * item.number = come + Len(s) + 2
  PROVE  Coming(s \o Whole(item), come)
<1>1. /\ FrontOf(item) \in Piece(Commands) /\ RestOf(item) \in Piece(Commands)
      /\ FrontOf(item).item = item /\ RestOf(item).item = item
      /\ FrontOf(item).part = "front" /\ RestOf(item).part = "rest"
      /\ Whole(item) \in Seq(Piece(Commands)) /\ Len(Whole(item)) = 2
      /\ Whole(item)[1] = FrontOf(item) /\ Whole(item)[2] = RestOf(item)
  <2>1. /\ FrontOf(item).item = item /\ RestOf(item).item = item
        /\ FrontOf(item).part = "front" /\ RestOf(item).part = "rest"
    BY DEF FrontOf, RestOf
  <2> QED BY <2>1, WholeIs
<1>2. PICK w : w = Whole(item)
  OBVIOUS
<1>3. PICK l \in Nat : l = Len(s)
  OBVIOUS
<1>4. PICK n \in Nat : n = item.number
  BY DEF Commands
<1>5. Place(FrontOf(item)) = come + (l + 1) /\ Place(RestOf(item)) = come + (l + 2)
  <2>1. 2 * n - 1 = come + (l + 1) /\ 2 * n = come + (l + 2)
    BY <1>3, <1>4
  <2> QED BY <1>1, <1>4, <2>1 DEF Place
<1>6. /\ s \o w \in Seq(Piece(Commands)) /\ Len(s \o w) = Len(s) + Len(w)
      /\ \A k \in 1 .. Len(s) + Len(w) : (s \o w)[k] = IF k <= Len(s) THEN s[k] ELSE w[k - Len(s)]
  <2>1. s \in Seq(Piece(Commands)) /\ w \in Seq(Piece(Commands))
    BY <1>1, <1>2
  <2> QED BY ONLY <2>1, ConcatProperties
<1>7. ASSUME NEW k \in 1 .. l + 2
      PROVE  Place((s \o w)[k]) = come + k /\ (s \o w)[k].item.kind = "command"
  <2>1. (s \o w)[k] = IF k <= l THEN s[k] ELSE w[k - l]
    BY <1>1, <1>2, <1>3, <1>6
  <2>2. CASE k <= l
    <3>1. k \in 1 .. Len(s) /\ (s \o w)[k] = s[k]
      BY <1>3, <2>1, <2>2
    <3> QED BY <3>1 DEF Coming
  <2>3. CASE k = l + 1
    <3>1. (s \o w)[k] = FrontOf(item)
      BY <1>1, <1>2, <2>1, <2>3
    <3> QED BY <1>1, <1>5, <2>3, <3>1
  <2>4. CASE k = l + 2
    <3>1. (s \o w)[k] = RestOf(item)
      BY <1>1, <1>2, <2>1, <2>4
    <3> QED BY <1>1, <1>5, <2>4, <3>1
  <2>5. k <= l \/ k = l + 1 \/ k = l + 2
    OBVIOUS
  <2> QED BY <2>2, <2>3, <2>4, <2>5
<1> QED BY <1>1, <1>2, <1>3, <1>6, <1>7 DEF Coming

-----------------------------------------------------------------------------
(* A client's commands: those main has executed or holds in its batch, and *)
(* those still coming.                                                     *)
Got(c) == executed[c] \o Taken(c)
Come(c) == 2 * sent[c] - Len(to_broker[c])
Held(c) == Executing /\ Head(to_visit) = c
CommandsOf(c) ==
    /\ Come(c) \in Nat /\ Coming(to_broker[c], Come(c))
    /\ Ordered(Got(c), Come(c))
    /\ ~cut_in[c] => Clean(Got(c)) /\ Even(Come(c))
    /\ ~cut_in[c] /\ client[c] # "reset" => AllOf(Got(c), Come(c))
CommandsInv == \A c \in Client : CommandsOf(c)

LEMMA GotIs ==
  ASSUME TypeOK, NEW c \in Client
  PROVE  /\ Taken(c) = IF Held(c) THEN batch ELSE << >>
         /\ Taken(c) \in Seq(Commands) /\ executed[c] \in Seq(Commands)
         /\ Got(c) \in Seq(Commands)
         /\ sent[c] \in Nat /\ to_broker[c] \in Seq(Piece(Commands)) /\ cut_in[c] \in BOOLEAN
         /\ Taken(c) = << >> => Got(c) = executed[c]
<1>1. Taken(c) = IF Held(c) THEN batch ELSE << >>
  BY DEF Taken, Held, Executing
<1>2. batch \in Seq(Commands)
  BY DEF TypeOK, MainTypeOK
<1>3. Taken(c) \in Seq(Commands)
  <2>1. CASE Held(c)
    BY <1>1, <1>2, <2>1
  <2>2. CASE ~Held(c)
    BY <1>1, <2>2
  <2> QED BY <2>1, <2>2
<1>4. executed[c] \in Seq(Commands) /\ sent[c] \in Nat /\ to_broker[c] \in Seq(Piece(Commands))
      /\ cut_in[c] \in BOOLEAN
  BY DEF TypeOK, ClientTypeOK, MainTypeOK, WiresTypeOK
<1>5. executed[c] \o Taken(c) \in Seq(Commands) /\ executed[c] \o << >> = executed[c]
  BY <1>3, <1>4, ConcatProperties, ConcatEmptySeq
<1> QED BY <1>1, <1>3, <1>4, <1>5 DEF Got

(* What main holds of a client none of whose commands was cut.             *)
LEMMA HeldIsClean ==
  ASSUME TypeOK, NEW c \in Client, CommandsOf(c), ~cut_in[c]
  PROVE  /\ \A k \in 1 .. Len(executed[c]) : executed[c][k].kind = "command"
         /\ Held(c) => \A k \in 1 .. Len(batch) : batch[k].kind = "command"
<1>1. PICK e \in Seq(Commands) : e = executed[c]
  BY GotIs
<1>2. PICK b \in Seq(Commands) : b = Taken(c)
  BY GotIs
<1>3. Clean(e \o b)
  BY <1>1, <1>2 DEF CommandsOf, Got
<1>4. /\ Len(e \o b) = Len(e) + Len(b) /\ Len(e) \in Nat /\ Len(b) \in Nat
      /\ \A j \in 1 .. Len(e) : (e \o b)[j] = e[j]
      /\ \A j \in 1 .. Len(b) : (e \o b)[Len(e) + j] = b[j]
  BY JoinedIs
<1>5. \A j \in 1 .. Len(e) : e[j].kind = "command"
  <2>1. \A j \in 1 .. Len(e) : j \in 1 .. Len(e \o b)
    BY <1>4
  <2> QED BY <1>3, <1>4, <2>1 DEF Clean
<1>6. \A j \in 1 .. Len(b) : b[j].kind = "command"
  <2>1. \A j \in 1 .. Len(b) : Len(e) + j \in 1 .. Len(e \o b)
    BY <1>4
  <2> QED BY <1>3, <1>4, <2>1 DEF Clean
<1>7. Held(c) => b = batch
  BY <1>2, GotIs
<1> QED BY <1>1, <1>5, <1>6, <1>7

LEMMA CommandsInit == Init => CommandsInv
<1> SUFFICES ASSUME Init, NEW c \in Client PROVE CommandsOf(c)
  BY DEF CommandsInv
<1>1. /\ Got(c) = << >> /\ Come(c) = 0 /\ to_broker[c] = << >> /\ ~Held(c)
  BY DEF Init, Got, Taken, Come, Held, Executing
<1>2. Coming(<< >>, 0) /\ Ordered(<< >>, 0) /\ AllOf(<< >>, 0) /\ Clean(<< >>) /\ Even(0)
  <2>1. 0 = 2 * 0
    OBVIOUS
  <2> QED BY <2>1 DEF Coming, Ordered, InOrder, AllOf, Clean, Even
<1> QED BY <1>1, <1>2 DEF CommandsOf

(* Steps that are about something else.                                    *)
LEMMA CommandsKept ==
  ASSUME NEW c \in Client, CommandsOf(c),
         UNCHANGED <<sent[c], to_broker[c], cut_in[c]>>, Got(c)' = Got(c),
         client[c] = "reset" => client'[c] = "reset"
  PROVE  CommandsOf(c)'
<1>1. Come(c)' = Come(c)
  BY DEF Come
<1> QED BY <1>1 DEF CommandsOf

LEMMA CommandsSend ==
  ASSUME TypeOK, CommandsInv, NEW c \in Client, ClientUser(c) \/ ClientProgram(c),
         NEW d \in Client
  PROVE  CommandsOf(d)'
<1>1. /\ UNCHANGED <<main, to_visit, batch, executed, cut_in>>
      /\ \/ connect_to_broker(c) \/ get_option(c) \/ cleanup(c) \/ send_command(c)
         \/ receive_answer(c)
         \/ client[c] \in {"read", "prompt"} /\ receive_subscription_messages(c)
  BY DEF ClientUser, ClientProgram, mainVars
<1>2. Got(d)' = Got(d) /\ CommandsOf(d)
  BY <1>1 DEF Got, Taken, CommandsInv
<1>3. client \in [Client -> ClientState] /\ to_broker \in [Client -> Seq(Piece(Commands))]
      /\ sent \in [Client -> Nat] /\ sent[c] \in Nat
  BY DEF TypeOK, ClientTypeOK, WiresTypeOK
<1>4. CASE UNCHANGED <<sent[d], to_broker[d]>> /\ (client[d] = "reset" => client'[d] = "reset")
  BY <1>1, <1>2, <1>4, CommandsKept
<1>5. CASE d # c
  <2>1. client'[d] = client[d] /\ sent'[d] = sent[d] /\ to_broker'[d] = to_broker[d]
    BY <1>1, <1>3, <1>5 DEF connect_to_broker, get_option, cleanup, send_command,
              receive_answer, receive_subscription_messages, ClientAt
  <2> QED BY <1>4, <2>1
<1>6. CASE d = c /\ (\/ connect_to_broker(c) \/ get_option(c) \/ receive_answer(c)
                     \/ client[c] \in {"read", "prompt"} /\ receive_subscription_messages(c))
  <2>1. UNCHANGED <<sent[d], to_broker[d]>> /\ client[d] # "reset"
    BY <1>6 DEF connect_to_broker, get_option, receive_answer, receive_subscription_messages
  <2> QED BY <1>4, <2>1
<1>7. CASE d = c /\ cleanup(c)
  <2>1. CASE to_broker' = to_broker
    <3>1. UNCHANGED <<sent[d], to_broker[d]>> /\ client[d] # "reset"
      BY <1>7, <2>1 DEF cleanup
    <3> QED BY <1>4, <3>1
  <2>2. CASE to_broker' = [to_broker EXCEPT ![c] = << >>] /\ client' = [client EXCEPT ![c] = "reset"]
    <3>1. /\ to_broker'[d] = << >> /\ client'[d] = "reset" /\ sent'[d] = sent[d]
          /\ cut_in'[d] = cut_in[d]
      BY <1>1, <1>3, <1>7, <2>2 DEF cleanup
    <3>2. PICK come \in Nat : come = Come(d)
      BY <1>2 DEF CommandsOf
    <3>3. PICK more \in Nat : more = 2 * sent'[d]
      BY <1>3, <1>7, <3>1
    <3>4. Come(d)' = more /\ come <= more
      <4>1. Len(to_broker'[d]) = 0
        BY <3>1
      <4>2. come = more - Len(to_broker[d]) /\ Len(to_broker[d]) \in Nat
        BY <1>3, <3>1, <3>2, <3>3 DEF Come
      <4> QED BY <3>3, <4>1, <4>2 DEF Come
    <3>5. Ordered(Got(d), more)
      <4>1. Ordered(Got(d), come) /\ Got(d) \in Seq(Commands)
        BY <1>2, <3>2, GotIs DEF CommandsOf
      <4>2. PICK g \in Seq(Commands) : g = Got(d)
        BY <4>1
      <4>3. \A j \in 1 .. Len(g) : End(g[j]) \in Int /\ End(g[j]) <= come
        <5>1. \A j \in 1 .. Len(g) : g[j] \in Commands
          OBVIOUS
        <5> QED BY <4>1, <4>2, <5>1, EndIs DEF Ordered
      <4>4. \A j \in 1 .. Len(g) : End(g[j]) <= more
        BY <3>4, <4>3
      <4> QED BY <4>1, <4>2, <4>4 DEF Ordered
    <3>6. Coming(to_broker'[d], more)
      BY <3>1 DEF Coming
    <3>7. (~cut_in[d])' => Clean(Got(d)) /\ Even(more)
      <4>1. Even(more)
        BY <1>3, <1>7, <3>1, <3>3 DEF Even
      <4> QED BY <1>2, <3>1, <4>1 DEF CommandsOf
    <3> QED BY <1>2, <3>1, <3>4, <3>5, <3>6, <3>7 DEF CommandsOf
  <2> QED BY <1>7, <2>1, <2>2 DEF cleanup, ClientAt
<1>8. CASE d = c /\ send_command(c)
  <2>1. /\ client[c] = "send" /\ to_broker'[c] = to_broker[c] \o Whole(command[c])
        /\ sent'[c] = sent[c] + 1 /\ client'[c] # "reset"
    <3>1. client'[c] \in {"ask", "read"}
      BY <1>3, <1>8 DEF send_command, ClientAt
    <3> QED BY <1>3, <1>8, <3>1 DEF send_command
  <2>2. command[c] \in Commands /\ command[c].kind = "command" /\ command[c].number = sent[c] + 1
    BY <2>1 DEF TypeOK, ClientTypeOK
  <2>3. PICK come \in Nat : come = Come(c)
    BY <1>2, <1>8 DEF CommandsOf
  <2>4. PICK l \in Nat : l = Len(to_broker[c])
    BY <1>3
  <2>5. come = 2 * sent[c] - l
    BY <2>3, <2>4 DEF Come
  <2>6. Len(to_broker'[c]) = l + 2
    <3>1. Whole(command[c]) \in Seq(Piece(Commands)) /\ Len(Whole(command[c])) = 2
      BY <2>2, WholeIs
    <3>2. PICK w \in Seq(Piece(Commands)) : w = Whole(command[c])
      BY <3>1
    <3>3. PICK s \in Seq(Piece(Commands)) : s = to_broker[c]
      BY <1>3
    <3>4. Len(s \o w) = Len(s) + Len(w)
      BY ConcatProperties
    <3> QED BY <2>1, <2>4, <3>1, <3>2, <3>3, <3>4
  <2>7. Come(c)' = come
    <3>1. 2 * (sent[c] + 1) - (l + 2) = 2 * sent[c] - l
      BY <1>3
    <3> QED BY <2>1, <2>5, <2>6, <3>1 DEF Come
  <2>8. Coming(to_broker'[c], come)
    <3>1. 2 * command[c].number = come + Len(to_broker[c]) + 2
      <4>1. PICK m \in Nat : m = sent[c]
        BY <1>3
      <4>2. 2 * (m + 1) = (2 * m - l) + l + 2
        OBVIOUS
      <4> QED BY <2>2, <2>4, <2>5, <4>1, <4>2
    <3>2. Coming(to_broker[c], come)
      BY <1>2, <1>8, <2>3 DEF CommandsOf
    <3> QED BY <1>3, <2>1, <2>2, <3>1, <3>2, SentIsComing
  <2>9. /\ Ordered(Got(c), come) /\ (~cut_in[c] => AllOf(Got(c), come))
        /\ ~cut_in[c] => Clean(Got(c)) /\ Even(come)
    BY <1>2, <1>8, <2>1, <2>3 DEF CommandsOf
  <2>10. cut_in'[c] = cut_in[c]
    BY <1>1
  <2> QED BY <1>2, <1>8, <2>7, <2>8, <2>9, <2>10 DEF CommandsOf
<1> QED BY <1>1, <1>5, <1>6, <1>7, <1>8

LEMMA CommandsReceived ==
  ASSUME TypeOK, CommandsInv, main = "receive", to_visit # << >>,
         NEW c \in Client, c = Head(to_visit), Received(c),
         UNCHANGED <<executed, sent>>, NEW d \in Client
  PROVE  CommandsOf(d)'
<1>1. /\ main' = "execute" /\ UNCHANGED <<client, connections, to_visit, subscribers>>
      /\ \E portion \in Portions(to_broker[c], BROKER_RECEIVE_BUFFER_SIZE) :
            /\ portion \in Seq(Piece(Commands)) /\ Len(portion) \in 1 .. Len(to_broker[c])
            /\ to_broker' = [to_broker EXCEPT ![c] = Remainder(@, portion)]
            /\ cut_in' = [cut_in EXCEPT ![c] = @ \/ EndsWithin(portion)]
            /\ \E scanned \in Scanned(portion) : batch' = CommandsIn(scanned)
            /\ batch' \in Seq(Commands)
  BY ReceivedIs
<1>2. PICK portion \in Portions(to_broker[c], BROKER_RECEIVE_BUFFER_SIZE) :
            /\ portion \in Seq(Piece(Commands)) /\ Len(portion) \in 1 .. Len(to_broker[c])
            /\ to_broker' = [to_broker EXCEPT ![c] = Remainder(@, portion)]
            /\ cut_in' = [cut_in EXCEPT ![c] = @ \/ EndsWithin(portion)]
            /\ \E scanned \in Scanned(portion) : batch' = CommandsIn(scanned)
            /\ batch' \in Seq(Commands)
  BY <1>1
<1>3. /\ to_broker \in [Client -> Seq(Piece(Commands))] /\ cut_in \in [Client -> BOOLEAN]
      /\ sent[c] \in Nat /\ to_broker[c] \in Seq(Piece(Commands))
  BY DEF TypeOK, MainTypeOK, WiresTypeOK, ClientTypeOK
<1>4. ~Held(d) /\ (Held(d)' <=> d = c)
  BY <1>1 DEF Held, Executing
<1>5. Got(d) = executed[d] /\ CommandsOf(d) /\ executed[d] \in Seq(Commands)
  BY <1>4, GotIs DEF CommandsInv
<1>6. CASE d # c
  <2>1. UNCHANGED <<sent[d], to_broker[d], cut_in[d], client[d]>>
    BY <1>1, <1>2, <1>3, <1>6
  <2>2. Got(d)' = Got(d)
    <3>1. Taken(d)' = << >>
      BY <1>4, <1>6 DEF Taken, Held, Executing
    <3>2. executed[d] \o << >> = executed[d]
      BY <1>5, ConcatEmptySeq
    <3> QED BY <1>5, <3>1, <3>2 DEF Got
  <2> QED BY <1>4, <1>5, <1>6, <2>1, <2>2, CommandsKept
<1>7. CASE d = c
  <2>1. PICK come \in Nat : come = Come(c)
    BY <1>5, <1>7 DEF CommandsOf
  <2>2. PICK l \in Nat : l = Len(to_broker[c])
    BY <1>3
  <2>3. PICK n \in 1 .. l : n = Len(portion)
    BY <1>2, <2>2
  <2>4. come = 2 * sent[c] - l
    BY <2>1, <2>2 DEF Come
  <2>5. PICK r \in Seq(Piece(Commands)) :
           /\ r = Remainder(to_broker[c], portion) /\ Len(r) = l - n
           /\ \A k \in 1 .. n : portion[k] = to_broker[c][k]
           /\ \A k \in 1 .. l - n : r[k] = to_broker[c][k + n]
    <3>1. PICK p : p = portion
      OBVIOUS
    <3>2. PICK s : s = to_broker[c]
      OBVIOUS
    <3>3. s \in Seq(Piece(Commands)) /\ BROKER_RECEIVE_BUFFER_SIZE \in Nat
          /\ p \in Portions(s, BROKER_RECEIVE_BUFFER_SIZE)
      BY <1>3, <3>1, <3>2, SizesArePositive
    <3>4. /\ Remainder(s, p) \in Seq(Piece(Commands)) /\ Len(Remainder(s, p)) = Len(s) - Len(p)
          /\ \A k \in 1 .. Len(p) : p[k] = s[k]
          /\ \A k \in 1 .. Len(s) - Len(p) : Remainder(s, p)[k] = s[k + Len(p)]
      BY ONLY <3>3, PortionIs
    <3> QED BY <2>2, <2>3, <3>1, <3>2, <3>4
  <2>6. to_broker'[c] = r /\ cut_in'[c] = (cut_in[c] \/ EndsWithin(portion))
    BY <1>2, <1>3, <2>5
  <2>7. Come(c)' = come + n
    <3>1. 2 * sent[c] - (l - n) = come + n
      <4>1. PICK m \in Nat : m = sent[c]
        BY <1>3
      <4>2. 2 * m - (l - n) = (2 * m - l) + n
        OBVIOUS
      <4> QED BY <2>4, <4>1, <4>2
    <3> QED BY <2>5, <2>6, <3>1 DEF Come
  <2>8. Coming(to_broker[c], come)
    BY <1>5, <1>7, <2>1 DEF CommandsOf
  <2>9. Coming(portion, come)
    <3>1. \A k \in 1 .. n : k \in 1 .. l
      OBVIOUS
    <3> QED BY <2>2, <2>3, <2>5, <2>8, <3>1 DEF Coming
  <2>10. Coming(r, come + n)
    <3> SUFFICES ASSUME NEW k \in 1 .. l - n
                 PROVE  Place(r[k]) = (come + n) + k /\ r[k].item.kind = "command"
      BY <2>5 DEF Coming
    <3>1. k + n \in 1 .. l /\ come + (k + n) = (come + n) + k
      OBVIOUS
    <3> QED BY <2>2, <2>5, <2>8, <3>1 DEF Coming
  <2>11. Got(c)' = executed[c] \o batch'
    <3>1. Taken(c)' = batch'
      BY <1>4, <1>7 DEF Taken, Held, Executing
    <3> QED BY <3>1 DEF Got
  <2>12. PICK b : b = batch'
    OBVIOUS
  <2>13. PICK e \in Seq(Commands) : e = executed[c]
    BY <1>5, <1>7
  <2>14. /\ Ordered(e, come) /\ (~cut_in[c] /\ client[c] # "reset" => AllOf(e, come))
         /\ ~cut_in[c] => Clean(e) /\ Even(come)
    BY <1>5, <1>7, <2>1, <2>13 DEF CommandsOf
  <2>15. portion # << >>
    BY <1>2
  <2>16. /\ Ordered(e \o b, come + n)
         /\ Clean(e) /\ Even(come) /\ ~EndsWithin(portion) => Clean(e \o b) /\ Even(come + n)
         /\ AllOf(e, come) /\ ~EndsWithin(portion) => AllOf(e \o b, come + n)
    <3>1. PICK p : p = portion
      OBVIOUS
    <3>2. PICK t : t \in Scanned(p) /\ b = CommandsIn(t)
      BY <1>2, <2>12, <3>1
    <3>3. /\ p \in Seq(Piece(Commands)) /\ p # << >> /\ Coming(p, come)
          /\ e \in Seq(Commands) /\ come \in Nat /\ Ordered(e, come)
          /\ t \in Scanned(p) /\ b = CommandsIn(t)
      BY <1>2, <2>9, <2>14, <2>15, <3>1, <3>2
    <3>4. /\ Ordered(e \o b, come + Len(p))
          /\ Clean(e) /\ Even(come) /\ ~EndsWithin(p) =>
               Clean(b) /\ Clean(e \o b) /\ Even(come + Len(p))
          /\ AllOf(e, come) /\ ~EndsWithin(p) => AllOf(e \o b, come + Len(p))
      BY ONLY <3>3, GotMore
    <3> QED BY <2>3, <3>1, <3>4
  <2>17. PICK g : g = e \o b
    OBVIOUS
  <2>18. Got(c)' = g /\ client' = client
    BY <1>1, <2>11, <2>12, <2>13, <2>17
  <2>19. Ordered(g, come + n) /\ come + n \in Nat
    BY <2>16, <2>17
  <2>20. (~cut_in[c] /\ client[c] # "reset")' => AllOf(g, come + n)
    BY <1>3, <2>6, <2>14, <2>16, <2>17, <2>18
  <2>21. (~cut_in[c])' => Clean(g) /\ Even(come + n)
    BY <1>3, <2>6, <2>14, <2>16, <2>17
  <2> QED BY <1>7, <2>6, <2>7, <2>10, <2>18, <2>19, <2>20, <2>21 DEF CommandsOf
<1> QED BY <1>6, <1>7

LEMMA CommandsMain ==
  ASSUME TypeOK, CommandsInv, MainStep, NEW d \in Client
  PROVE  CommandsOf(d)'
<1>1. /\ UNCHANGED sent /\ CommandsOf(d)
      /\ client \in [Client -> ClientState] /\ executed \in [Client -> Seq(Commands)]
      /\ batch \in Seq(Commands)
  BY DEF MainStep, CommandsInv, TypeOK, ClientTypeOK, MainTypeOK
<1> DEFINE Kept == /\ UNCHANGED <<to_broker, cut_in>> /\ Got(d)' = Got(d)
                   /\ client[d] = "reset" => client'[d] = "reset"
<1>2. CASE Kept
  BY <1>1, <1>2, CommandsKept
<1> DEFINE Idle == UNCHANGED executed /\ main = "receive" /\ main' = "receive"
<1>3. Idle => Got(d)' = Got(d)
  BY DEF Got, Taken
<1>4. CASE accept_connection
  <2>1. Idle /\ UNCHANGED <<to_broker, cut_in, client>>
    BY <1>4 DEF accept_connection, accept_nobody, accept, ServeFrom
  <2> QED BY <1>2, <1>3, <2>1
<1>5. CASE receive_commands
  <2> DEFINE c == Head(to_visit)
  <2>1. /\ main = "receive" /\ to_visit # << >> /\ c \in Client
        /\ Received(c) \/ NothingReceived(c) \/ ConnectionClosed(c)
        /\ UNCHANGED executed
    BY <1>5 DEF receive_commands, TypeOK, MainTypeOK
  <2> HIDE DEF c
  <2>2. CASE Received(c)
    BY <1>1, <2>1, <2>2, CommandsReceived DEF c
  <2>3. CASE NothingReceived(c)
    <3>1. Idle /\ UNCHANGED <<to_broker, cut_in, client>>
      BY <2>1, <2>3 DEF NothingReceived
    <3> QED BY <1>2, <1>3, <3>1
  <2>4. CASE ConnectionClosed(c)
    <3>1. Idle /\ UNCHANGED <<to_broker, cut_in>>
      BY <2>1, <2>4 DEF ConnectionClosed
    <3>2. client[d] = "reset" => client'[d] = "reset"
      BY <1>1, <2>1, <2>4 DEF ConnectionClosed, ClientAt
    <3> QED BY <1>2, <1>3, <3>1, <3>2
  <2> QED BY <2>1, <2>2, <2>3, <2>4
<1>6. CASE execute_command
  <2> DEFINE c == Head(to_visit)
  <2>1. /\ main = "execute" /\ batch # << >> /\ batch' = Tail(batch)
        /\ executed' = [executed EXCEPT ![c] = Append(@, Head(batch))]
        /\ UNCHANGED <<client, to_broker, to_visit, cut_in>>
    BY <1>6 DEF execute_command
  <2>2. Executing /\ Executing' /\ c \in Client
    <3>1. main' \in {"execute", "notify", "produce"}
      <4>1. PICK meant \in TakenFor(Head(batch)) :
                main' = CASE meant.known -> "notify"
                          [] response' # NULL -> "produce"
                          [] OTHER -> "execute"
        BY <1>6 DEF execute_command
      <4>2. CASE meant.known
        BY <4>1, <4>2
      <4>3. CASE ~meant.known /\ response' # NULL
        BY <4>1, <4>3
      <4>4. CASE ~meant.known /\ response' = NULL
        BY <4>1, <4>4
      <4> QED BY <4>2, <4>3, <4>4
    <3> QED BY <2>1, <3>1 DEF Executing, TypeOK, MainTypeOK
  <2> HIDE DEF c
  <2>3. Held(d)' <=> Held(d)
    BY <2>1, <2>2 DEF Held
  <2>5. Got(d)' = Got(d)
    <3>1. CASE d = c
      <4>1. Taken(d) = batch /\ Taken(d)' = Tail(batch)
        <5>1. Held(d) /\ Held(d)'
          BY <2>2, <2>3, <3>1 DEF Held, c
        <5> QED BY <2>1, <5>1 DEF Held, Taken, Executing
      <4>2. executed'[d] = Append(executed[d], Head(batch))
        BY <1>1, <2>1, <3>1
      <4>3. executed[d] \in Seq(Commands)
        BY <1>1
      <4>4. Append(executed[d], Head(batch)) \o Tail(batch) = executed[d] \o batch
        BY <1>1, <2>1, <4>3, HeadMoves
      <4> QED BY <4>1, <4>2, <4>4 DEF Got
    <3>2. CASE d # c
      <4>1. Taken(d) = << >> /\ Taken(d)' = << >>
        BY <2>1, <3>2 DEF Taken, c
      <4>2. executed'[d] = executed[d]
        BY <1>1, <2>1, <3>2
      <4> QED BY <4>1, <4>2 DEF Got
    <3> QED BY <3>1, <3>2
  <2>6. UNCHANGED <<to_broker, cut_in, client>>
    BY <2>1
  <2> QED BY <1>2, <2>5, <2>6
<1>7. CASE batch_ends
  <2>1. /\ main = "execute" /\ main' = "receive" /\ batch = << >>
        /\ UNCHANGED <<client, to_broker, executed, cut_in>>
    BY <1>7 DEF batch_ends
  <2>2. Taken(d)' = << >>
    BY <2>1 DEF Taken
  <2>3. Taken(d) = << >>
    BY <2>1 DEF Taken
  <2>4. Got(d)' = Got(d)
    BY <2>1, <2>2, <2>3 DEF Got
  <2> QED BY <1>2, <2>1, <2>2, <2>4
<1>8. CASE /\ send_to_stats_manager \/ produce_new_message
           /\ UNCHANGED <<client, to_broker, connections, to_visit, batch, subscribers, queue,
                          left_in_buffer, broken, executed, published, cut_in, lost>>
  <2>1. Executing /\ Executing'
    <3>1. CASE send_to_stats_manager
      <4>1. main = "notify" /\ main' = IF response # NULL THEN "produce" ELSE "execute"
        BY <3>1 DEF send_to_stats_manager
      <4> QED BY <4>1 DEF Executing
    <3>2. CASE produce_new_message
      BY <3>2 DEF produce_new_message, Executing
    <3> QED BY <1>8, <3>1, <3>2
  <2>2. Got(d)' = Got(d)
    BY <1>8, <2>1 DEF Got, Taken, Executing
  <2> QED BY <1>2, <1>8, <2>2
<1> QED BY <1>4, <1>5, <1>6, <1>7, <1>8 DEF MainStep

LEMMA CommandsStep ==
  ASSUME TypeOK, CommandsInv, [Next]_vars
  PROVE  CommandsInv'
<1> SUFFICES ASSUME NEW d \in Client PROVE CommandsOf(d)'
  BY DEF CommandsInv
<1>1. CASE \E c \in Client : ClientUser(c) \/ ClientProgram(c)
  BY <1>1, CommandsSend
<1>2. CASE MainStep
  BY <1>2, CommandsMain
<1>3. CASE produce \/ ConsumerStep \/ receive_notifications \/ UNCHANGED vars
  <2>1. UNCHANGED <<client, sent, to_broker, main, to_visit, batch, executed, cut_in>>
    BY <1>3 DEF produce, ConsumerStep, consume, send_to_client, receive_notifications, vars,
                clientVars, mainVars
  <2>2. Got(d)' = Got(d) /\ CommandsOf(d)
    BY <2>1 DEF Got, Taken, CommandsInv
  <2> QED BY <2>1, <2>2, CommandsKept
<1> QED BY <1>1, <1>2, <1>3 DEF Next

(* What the broker has of a client's commands, with what is on its way.    *)
LEMMA WithWhatIsComing ==
  ASSUME NEW g \in Seq(Commands), NEW s \in Seq(Piece(Commands)), NEW come \in Nat, NEW n \in Nat,
         come = 2 * n - Len(s), Coming(s, come), AllOf(g, come)
  PROVE  Numbers(g \o Strings(s)) = [k \in 1 .. n |-> k]
<1>1. PICK half \in Nat : half = Len(g)
  OBVIOUS
<1>2. come = 2 * half /\ \A j \in 1 .. half : g[j].number = j
  BY <1>1 DEF AllOf
<1>3. PICK q \in Seq(Commands) :
            /\ InARow(s, q)
            /\ \A j \in 1 .. Len(q) : q[j].number = half + j /\ q[j].kind = "command"
  BY <1>2, ComingInARow
<1>4. Strings(s) = q
  BY <1>3, StringsInARow
<1>5. PICK l \in Nat : l = Len(q)
  OBVIOUS
<1>6. n = half + l
  <2>1. PICK m \in Nat : m = Len(s)
    OBVIOUS
  <2>2. m = 2 * l \/ m = 2 * l + 1
    BY <1>3, <1>5, <2>1 DEF InARow
  <2>3. 2 * half = 2 * n - m
    BY <1>2, <2>1
  <2> QED BY <2>2, <2>3
<1>7. PICK u : u = g \o q
  OBVIOUS
<1>8. /\ u \in Seq(Commands) /\ Len(u) = n
      /\ \A k \in 1 .. n : \/ k \in 1 .. half /\ u[k] = g[k]
                           \/ k > half /\ k - half \in 1 .. l /\ u[k] = q[k - half]
  BY <1>1, <1>5, <1>6, <1>7, JoinedIs
<1>9. ASSUME NEW k \in 1 .. n
      PROVE  u[k].number = k
  <2>1. CASE k \in 1 .. half /\ u[k] = g[k]
    BY <1>2, <2>1
  <2>2. CASE k - half \in 1 .. l /\ u[k] = q[k - half]
    <3>1. half + (k - half) = k
      OBVIOUS
    <3> QED BY <1>3, <1>5, <2>2, <3>1
  <2> QED BY <1>8, <2>1, <2>2
<1>10. Numbers(u) = [k \in 1 .. n |-> k]
  BY <1>8, <1>9 DEF Numbers
<1> QED BY <1>4, <1>7, <1>10

LEMMA InOrderIsBefore ==
  ASSUME NEW one \in Commands, NEW other \in Commands, End(one) < Start(other)
  PROVE  Before(one, other)
<1>1. PICK a \in Nat : a = one.number
  BY DEF Commands
<1>2. PICK b \in Nat : b = other.number
  BY DEF Commands
<1>3. End(one) = 2 * a \/ (End(one) = 2 * a - 1 /\ one.kind = "cut off")
  BY <1>1 DEF End
<1>4. Start(other) = 2 * b - 1 \/ (Start(other) = 2 * b /\ other.kind = "rest")
  BY <1>2 DEF Start
<1>5. a < b \/ (a = b /\ End(one) = 2 * a - 1 /\ Start(other) = 2 * b)
  <2>1. PICK x \in Int : x = End(one)
    BY EndIs
  <2>2. PICK y \in Int : y = Start(other)
    BY EndIs
  <2>3. (x = 2 * a \/ x = 2 * a - 1) /\ (y = 2 * b - 1 \/ y = 2 * b) /\ x < y
    BY <1>3, <1>4, <2>1, <2>2
  <2>4. a < b \/ (a = b /\ x = 2 * a - 1 /\ y = 2 * b)
    BY <2>3
  <2> QED BY <2>1, <2>2, <2>4
<1>6. CASE a = b /\ End(one) = 2 * a - 1 /\ Start(other) = 2 * b
  <2>1. 2 * a # 2 * a - 1 /\ 2 * b # 2 * b - 1
    OBVIOUS
  <2> QED BY <1>1, <1>2, <1>3, <1>4, <1>6, <2>1 DEF Before
<1> QED BY <1>1, <1>2, <1>5, <1>6 DEF Before

LEMMA CommandsImply == TypeOK /\ CommandsInv => ExecutedAsSent
<1> SUFFICES ASSUME TypeOK, CommandsInv, NEW c \in Client
             PROVE  /\ \A j, k \in 1 .. Len(executed[c]) :
                          j < k => Before(executed[c][j], executed[c][k])
                    /\ ~cut_in[c] => \A k \in 1 .. Len(executed[c]) : executed[c][k].kind = "command"
                    /\ ~cut_in[c] /\ client[c] # "reset" =>
                         Numbers(executed[c] \o Taken(c) \o Strings(to_broker[c]))
                           = [n \in 1 .. sent[c] |-> n]
  BY DEF ExecutedAsSent
<1>1. CommandsOf(c)
  BY DEF CommandsInv
<1>2. PICK e \in Seq(Commands) : e = executed[c]
  BY GotIs
<1>3. PICK t \in Seq(Commands) : t = Taken(c)
  BY GotIs
<1>4. PICK g : g = e \o t
  OBVIOUS
<1>5. g = Got(c)
  BY <1>2, <1>3, <1>4 DEF Got
<1>6. /\ g \in Seq(Commands) /\ Len(g) = Len(e) + Len(t) /\ Len(e) \in Nat /\ Len(t) \in Nat
      /\ \A k \in 1 .. Len(e) : g[k] = e[k]
  BY <1>4, JoinedIs
<1>7. ASSUME NEW j \in 1 .. Len(e), NEW k \in 1 .. Len(e), j < k
      PROVE  Before(e[j], e[k])
  <2>1. j \in 1 .. Len(g) /\ k \in 1 .. Len(g) /\ g[j] = e[j] /\ g[k] = e[k]
    BY <1>6
  <2>2. End(e[j]) < Start(e[k])
    BY <1>1, <1>5, <1>7, <2>1 DEF CommandsOf, Ordered, InOrder
  <2>3. e[j] \in Commands /\ e[k] \in Commands
    OBVIOUS
  <2> QED BY <2>2, <2>3, InOrderIsBefore
<1>8. ASSUME ~cut_in[c], client[c] # "reset"
      PROVE  Numbers(g \o Strings(to_broker[c])) = [n \in 1 .. sent[c] |-> n]
  <2>1. PICK s \in Seq(Piece(Commands)) : s = to_broker[c]
    BY GotIs
  <2>2. PICK come \in Nat : come = Come(c)
    BY <1>1 DEF CommandsOf
  <2>3. PICK n \in Nat : n = sent[c]
    BY GotIs
  <2>4. come = 2 * n - Len(s) /\ Coming(s, come) /\ AllOf(g, come)
    BY <1>1, <1>5, <1>8, <2>1, <2>2, <2>3 DEF CommandsOf, Come
  <2>5. Numbers(g \o Strings(s)) = [k \in 1 .. n |-> k]
    BY <1>6, <2>4, WithWhatIsComing
  <2> QED BY <2>1, <2>3, <2>5
<1>9. ~cut_in[c] => \A k \in 1 .. Len(executed[c]) : executed[c][k].kind = "command"
  BY <1>1, HeldIsClean
<1> QED BY <1>2, <1>3, <1>4, <1>7, <1>8, <1>9

(* main executes every client's commands in the order he sent them and     *)
(* none of them twice, except that of one received in two calls it may     *)
(* execute the first part and then the rest; and while none of his was, it *)
(* executes them as they were sent, and leaves none out unless the         *)
(* connection was reset.                                                   *)
THEOREM CommandsAreExecutedAsSent == Spec => []ExecutedAsSent
<1>1. Init => TypeOK /\ CommandsInv
  BY TypesInit, CommandsInit
<1>2. TypeOK /\ CommandsInv /\ [Next]_vars => (TypeOK /\ CommandsInv)'
  BY TypesStep, CommandsStep
<1>3. TypeOK /\ CommandsInv => ExecutedAsSent
  BY CommandsImply
<1> QED BY <1>1, <1>2, <1>3, PTL DEF Spec

-----------------------------------------------------------------------------
(* Answers: where one may be on its way from main to the consumer thread's *)
(* send(): the thread's element, the outgoing buffer, main's response.     *)
Carried(k) == IF k = 0 THEN element
              ELSE IF k \in 1 .. Len(outgoing_buffer) THEN outgoing_buffer[k] ELSE response
Carriers == 0 .. Len(outgoing_buffer) + 1
AnswerAt(c, k) == Carried(k) # NULL /\ Carried(k).kind = "answer" /\ Carried(k).to = c
Questions(c) == {to_broker[c][k].item : k \in 1 .. Len(to_broker[c])}
                  \cup (IF Held(c) THEN ToSet(batch) ELSE {})
Answered(c) == client[c] = "ask" /\ \E item \in ToSet(executed[c]) : item.number = sent[c]

(* Whole strings, and nothing else.                                        *)
Pairs(s, q) ==
    /\ Len(s) = 2 * Len(q)
    /\ \A j \in 1 .. Len(q) : s[2 * j - 1] = FrontOf(q[j]) /\ s[2 * j] = RestOf(q[j])

(* Of a client who is to be shown what he was sent: unless a command of    *)
(* his was cut, there is one question of his at most, the one whose answer *)
(* he waits for, or one answer to it, and then nothing else is on its way  *)
(* to him.                                                                 *)
Clear(c) ==
    /\ ~cut_out[c]
    /\ asked[c] => ~cut_in[c] /\ OnlySent(c, "answer")
    /\ cut_in[c] => OnlySent(c, "message")
QuestionsOf(c) == ~cut_in[c] => \A item \in Questions(c) :
    item.operation \in Queries => client[c] = "ask" /\ item = command[c]
AnswersOf(c) == ~cut_in[c] => \A k \in Carriers : AnswerAt(c, k) =>
    /\ Answered(c) /\ Carried(k) = Answer(c, command[c]) /\ to_client[c] = << >>
    /\ \A j \in Carriers : AnswerAt(c, j) => j = k
ArrivesOf(c) ==
    /\ ~asked[c] => /\ receive_buffer[c] = << >>
                    /\ \A item \in ToSet(sent_to[c]) : item.kind = "message"
    /\ asked[c] /\ to_client[c] # << >> =>
         Answered(c) /\ to_client[c] = Whole(Answer(c, command[c]))
ShownOf(c) == \E q \in Seq(Sendable) : Pairs(to_client[c], q) /\ sent_to[c] = shown[c] \o q
ClearOf(c) == Clear(c) => QuestionsOf(c) /\ AnswersOf(c) /\ ArrivesOf(c) /\ ShownOf(c)
AnswersInv == \A c \in Client : ClearOf(c)

LEMMA AnswersInit == Init => AnswersInv
<1> SUFFICES ASSUME Init, NEW c \in Client
             PROVE  QuestionsOf(c) /\ AnswersOf(c) /\ ArrivesOf(c) /\ ShownOf(c)
  BY DEF AnswersInv, ClearOf
<1>1. QuestionsOf(c)
  BY DEF Init, QuestionsOf, Questions, Held, Executing
<1>2. AnswersOf(c)
  BY DEF Init, AnswersOf, AnswerAt, Carriers, Carried
<1>3. ArrivesOf(c)
  BY DEF Init, ArrivesOf, ToSet
<1>4. ShownOf(c)
  <2>1. << >> \in Seq(Sendable) /\ Pairs(<< >>, << >>) /\ << >> = << >> \o << >>
    BY DEF Pairs
  <2> QED BY <2>1 DEF Init, ShownOf
<1> QED BY <1>1, <1>2, <1>3, <1>4

(* What was cut stays cut, and what was sent stays sent.                   *)
LEMMA AppendedElements ==
  ASSUME NEW S, NEW s \in Seq(S), NEW e \in S
  PROVE  ToSet(Append(s, e)) = ToSet(s) \cup {e}
<1>1. /\ Len(Append(s, e)) = Len(s) + 1 /\ Append(s, e)[Len(s) + 1] = e /\ Len(s) \in Nat
      /\ \A k \in 1 .. Len(s) : Append(s, e)[k] = s[k]
  BY AppendProperties
<1> QED BY <1>1 DEF ToSet

LEMMA HistoryGrows ==
  ASSUME TypeOK, [Next]_vars, NEW c \in Client
  PROVE  /\ cut_out[c] => cut_out'[c]
         /\ asked[c] => asked'[c]
         /\ cut_in[c] => cut_in'[c]
         /\ ToSet(sent_to[c]) \subseteq ToSet(sent_to'[c])
         /\ ToSet(executed[c]) \subseteq ToSet(executed'[c])
<1>1. /\ cut_out \in [Client -> BOOLEAN] /\ cut_in \in [Client -> BOOLEAN]
      /\ asked \in [Client -> BOOLEAN] /\ sent_to \in [Client -> Seq(Sendable)]
      /\ executed \in [Client -> Seq(Commands)]
  BY DEF TypeOK, ClientTypeOK, MainTypeOK, WiresTypeOK
<1>2. CASE \E d \in Client : ClientUser(d) \/ ClientProgram(d)
  <2>1. PICK d \in Client :
           /\ UNCHANGED <<cut_in, sent_to, executed>>
           /\ \/ connect_to_broker(d) \/ get_option(d) \/ cleanup(d) \/ send_command(d)
              \/ receive_answer(d) \/ receive_subscription_messages(d)
    BY <1>2 DEF ClientUser, ClientProgram, mainVars, consumerVars
  <2>2. cut_out[c] => cut_out'[c]
    <3>1. CASE connect_to_broker(d) \/ get_option(d) \/ cleanup(d) \/ send_command(d)
      BY <3>1 DEF connect_to_broker, get_option, cleanup, send_command
    <3>2. CASE receive_answer(d)
      BY <1>1, <3>2 DEF receive_answer, receive_from_broker
    <3>3. CASE receive_subscription_messages(d)
      BY <1>1, <3>3 DEF receive_subscription_messages, receive_from_broker
    <3> QED BY <2>1, <3>1, <3>2, <3>3
  <2>3. asked[c] => asked'[c]
    BY <1>1, <2>1 DEF connect_to_broker, get_option, cleanup, send_command, receive_answer,
                      receive_subscription_messages
  <2> QED BY <2>1, <2>2, <2>3
<1>3. CASE MainStep
  <2>1. UNCHANGED <<cut_out, asked, sent_to>>
    BY <1>3 DEF MainStep, consumerVars
  <2>2. cut_in[c] => cut_in'[c]
    <3>1. cut_in' = cut_in \/ \E x : cut_in' = [cut_in EXCEPT ![Head(to_visit)] = @ \/ x]
      BY <1>3 DEF MainStep, accept_connection, accept_nobody, accept, ServeFrom, receive_commands,
                  Received, NothingReceived, ConnectionClosed, execute_command, batch_ends
    <3> QED BY <1>1, <3>1
  <2>3. ToSet(executed[c]) \subseteq ToSet(executed'[c])
    <3>1. CASE execute_command
      <4>1. Head(to_visit) \in Client /\ Head(batch) \in Commands
        BY <3>1 DEF execute_command, TypeOK, MainTypeOK, Executing
      <4>2. executed' = [executed EXCEPT ![Head(to_visit)] = Append(@, Head(batch))]
        BY <3>1 DEF execute_command
      <4>3. PICK n \in Commands : n = Head(batch)
        BY <4>1
      <4>4. executed'[c] = executed[c] \/ executed'[c] = Append(executed[c], n)
        BY <1>1, <4>1, <4>2, <4>3
      <4>5. ToSet(Append(executed[c], n)) = ToSet(executed[c]) \cup {n}
        BY <1>1, AppendedElements
      <4> QED BY <4>4, <4>5
    <3>2. CASE ~execute_command
      <4>1. executed' = executed
        BY <1>3, <3>2 DEF MainStep, accept_connection, accept_nobody, accept, ServeFrom,
                          receive_commands, batch_ends
      <4> QED BY <4>1
    <3> QED BY <3>1, <3>2
  <2> QED BY <2>1, <2>2, <2>3
<1>4. CASE send_to_client
  <2>1. UNCHANGED <<asked, cut_in, executed>>
    BY <1>4 DEF send_to_client, clientVars, mainVars
  <2>2. element \in Sendable /\ Head(to_send) \in Client
    BY <1>4 DEF send_to_client, TypeOK, QueuesTypeOK
  <2>3. \/ UNCHANGED <<cut_out, sent_to>>
        \/ /\ \E x : cut_out' = [cut_out EXCEPT ![Head(to_send)] = @ \/ x]
           /\ sent_to' = [sent_to EXCEPT ![Head(to_send)] = Append(@, element)]
    BY <1>4 DEF send_to_client
  <2>4. ToSet(Append(sent_to[c], element)) = ToSet(sent_to[c]) \cup {element}
    BY <1>1, <2>2, AppendedElements
  <2>5. sent_to'[c] = sent_to[c] \/ sent_to'[c] = Append(sent_to[c], element)
    BY <1>1, <2>2, <2>3
  <2>6. cut_out[c] => cut_out'[c]
    BY <1>1, <2>2, <2>3
  <2> QED BY <2>1, <2>4, <2>5, <2>6
<1>5. CASE produce \/ consume \/ receive_notifications \/ UNCHANGED vars
  <2>1. UNCHANGED <<cut_out, asked, cut_in, sent_to, executed>>
    BY <1>5 DEF produce, consume, receive_notifications, vars, clientVars, mainVars, consumerVars
  <2> QED BY <2>1
<1> QED BY <1>2, <1>3, <1>4, <1>5 DEF Next, ConsumerStep

LEMMA ClearBefore ==
  ASSUME TypeOK, [Next]_vars, NEW c \in Client, Clear(c)'
  PROVE  Clear(c)
<1>1. /\ cut_out[c] => cut_out'[c]
      /\ asked[c] => asked'[c]
      /\ cut_in[c] => cut_in'[c]
      /\ ToSet(sent_to[c]) \subseteq ToSet(sent_to'[c])
  BY HistoryGrows
<1>2. /\ ~cut_out'[c]
      /\ asked'[c] => ~cut_in'[c] /\ \A item \in ToSet(sent_to'[c]) : item.kind = "answer"
      /\ cut_in'[c] => \A item \in ToSet(sent_to'[c]) : item.kind = "message"
  BY DEF Clear, OnlySent
<1> QED BY <1>1, <1>2 DEF Clear, OnlySent

(* Once a question is executed, nothing is left of what its client sent.   *)
LEMMA AnsweredIsDone ==
  ASSUME TypeOK, NEW c \in Client, CommandsOf(c), ~cut_in[c], Answered(c)
  PROVE  to_broker[c] = << >> /\ (Held(c) => batch = << >>)
<1>1. PICK e \in Seq(Commands) : e = executed[c]
  BY GotIs
<1>2. PICK t \in Seq(Commands) : t = Taken(c)
  BY GotIs
<1>3. PICK g : g = e \o t
  OBVIOUS
<1>4. g = Got(c)
  BY <1>1, <1>2, <1>3 DEF Got
<1>5. /\ g \in Seq(Commands) /\ Len(g) = Len(e) + Len(t)
      /\ \A k \in 1 .. Len(e) + Len(t) : g[k] = IF k <= Len(e) THEN e[k] ELSE t[k - Len(e)]
  BY ONLY <1>3, ConcatProperties
<1>6. PICK i \in 1 .. Len(e) : e[i].number = sent[c]
  <2>1. \E item \in ToSet(e) : item.number = sent[c]
    BY <1>1 DEF Answered
  <2>2. \E i \in DOMAIN e : e[i].number = sent[c]
    BY <2>1 DEF ToSet
  <2>3. DOMAIN e = 1 .. Len(e)
    OBVIOUS
  <2> QED BY <2>2, <2>3
<1>7. PICK come \in Nat : come = Come(c)
  BY DEF CommandsOf
<1>8. PICK n \in Nat : n = sent[c]
  BY GotIs
<1>9. PICK l \in Nat : l = Len(to_broker[c])
  <2>1. PICK s \in Seq(Piece(Commands)) : s = to_broker[c]
    BY GotIs
  <2> QED BY <2>1
<1>10. PICK x \in Nat : x = Len(e)
  OBVIOUS
<1>11. PICK y \in Nat : y = Len(t)
  OBVIOUS
<1>12. AllOf(g, come) /\ come = 2 * n - l
  BY <1>4, <1>7, <1>8, <1>9 DEF CommandsOf, Answered, Come
<1>13. i \in 1 .. x /\ i \in 1 .. x + y /\ i <= x
  BY <1>6, <1>10
<1>14. g[i] = e[i]
  BY <1>5, <1>10, <1>11, <1>13
<1>15. g[i].number = i
  BY <1>5, <1>10, <1>11, <1>12, <1>13 DEF AllOf
<1>16. 2 * (x + y) = 2 * n - l /\ n <= x
  BY <1>5, <1>6, <1>8, <1>10, <1>11, <1>12, <1>13, <1>14, <1>15 DEF AllOf
<1>17. l = 0 /\ y = 0
  BY <1>16
<1>18. to_broker[c] = << >>
  <2>1. PICK s \in Seq(Piece(Commands)) : s = to_broker[c]
    BY GotIs
  <2>2. Len(s) = 0
    BY <1>9, <1>17, <2>1
  <2>3. s = << >>
    BY <2>2
  <2> QED BY <2>1, <2>3
<1>19. ASSUME Held(c) PROVE batch = << >>
  <2>1. t = batch /\ batch \in Seq(Commands)
    BY <1>2, <1>19, GotIs DEF TypeOK, MainTypeOK
  <2>2. Len(batch) = 0
    BY <1>11, <1>17, <2>1
  <2>3. batch = << >>
    BY <2>1, <2>2
  <2> QED BY <2>3
<1> QED BY <1>18, <1>19

(* Steps that are about something else, or only carry answers on.          *)
LEMMA AnswersKept ==
  ASSUME NEW d \in Client, cut_in[d] => cut_in'[d], AnswersOf(d),
         UNCHANGED <<client[d], command[d], sent[d], to_client[d]>>,
         ToSet(executed[d]) \subseteq ToSet(executed'[d]),
         NEW F, \A k \in Carriers' : AnswerAt(d, k)' =>
            F[k] \in Carriers /\ AnswerAt(d, F[k]) /\ Carried(k)' = Carried(F[k]),
         \A j, k \in Carriers' : AnswerAt(d, j)' /\ AnswerAt(d, k)' /\ F[j] = F[k] => j = k
  PROVE  AnswersOf(d)'
<1> SUFFICES ASSUME ~cut_in'[d], NEW k \in Carriers', AnswerAt(d, k)'
             PROVE  /\ Answered(d)' /\ Carried(k)' = Answer(d, command[d])' /\ to_client'[d] = << >>
                    /\ \A j \in Carriers' : AnswerAt(d, j)' => j = k
  BY DEF AnswersOf
<1>1. F[k] \in Carriers /\ AnswerAt(d, F[k]) /\ Carried(k)' = Carried(F[k])
  OBVIOUS
<1>2. /\ Answered(d) /\ Carried(F[k]) = Answer(d, command[d]) /\ to_client[d] = << >>
      /\ \A j \in Carriers : AnswerAt(d, j) => j = F[k]
  BY <1>1 DEF AnswersOf
<1>3. Answered(d)'
  BY <1>2 DEF Answered
<1>4. Answer(d, command[d])' = Answer(d, command[d])
  BY DEF Answer
<1>5. \A j \in Carriers' : AnswerAt(d, j)' => j = k
  BY <1>1, <1>2
<1> QED BY <1>1, <1>2, <1>3, <1>4, <1>5

LEMMA CarriersStay ==
  ASSUME NEW d \in Client, UNCHANGED <<element, outgoing_buffer, response>>
  PROVE  \E F : /\ \A k \in Carriers' : AnswerAt(d, k)' =>
                      F[k] \in Carriers /\ AnswerAt(d, F[k]) /\ Carried(k)' = Carried(F[k])
                /\ \A j, k \in Carriers' : AnswerAt(d, j)' /\ AnswerAt(d, k)' /\ F[j] = F[k] => j = k
<1>1. Carriers' = Carriers /\ \A k : Carried(k)' = Carried(k)
  BY DEF Carriers, Carried
<1>2. \A k : AnswerAt(d, k)' <=> AnswerAt(d, k)
  BY <1>1 DEF AnswerAt
<1>3. PICK F : F = [i \in Carriers |-> i]
  OBVIOUS
<1>4. \A k \in Carriers : F[k] = k
  BY <1>3
<1>5. \A k \in Carriers' : AnswerAt(d, k)' =>
         F[k] \in Carriers /\ AnswerAt(d, F[k]) /\ Carried(k)' = Carried(F[k])
  BY <1>1, <1>2, <1>4
<1>6. \A j, k \in Carriers' : AnswerAt(d, j)' /\ AnswerAt(d, k)' /\ F[j] = F[k] => j = k
  BY <1>1, <1>4
<1> QED BY <1>5, <1>6

LEMMA ClearKept ==
  ASSUME NEW d \in Client, cut_in[d] => cut_in'[d],
         QuestionsOf(d), AnswersOf(d), ArrivesOf(d), ShownOf(d),
         UNCHANGED <<client[d], command[d], sent[d], asked[d], to_client[d], receive_buffer[d],
                     shown[d], sent_to[d]>>,
         ToSet(executed[d]) \subseteq ToSet(executed'[d]),
         Questions(d)' \subseteq Questions(d)
  PROVE  QuestionsOf(d)' /\ ArrivesOf(d)' /\ ShownOf(d)'
<1>1. QuestionsOf(d)'
  BY DEF QuestionsOf
<1>2. ArrivesOf(d)'
  <2>1. Answer(d, command[d])' = Answer(d, command[d]) /\ (Answered(d) => Answered(d)')
    BY DEF Answer, Answered
  <2>2. Whole(Answer(d, command[d]))' = Whole(Answer(d, command[d]))
    BY <2>1 DEF Whole, FrontOf, RestOf
  <2> QED BY <2>1, <2>2 DEF ArrivesOf
<1>3. ShownOf(d)'
  BY DEF ShownOf, Pairs
<1> QED BY <1>1, <1>2, <1>3

(* What recv() hands out of whole strings, unless it ends within one.      *)
LEMMA WholePortion ==
  ASSUME NEW S, NEW s \in Seq(Piece(S)), NEW q \in Seq(S), Pairs(s, q), NEW size \in Nat,
         NEW portion \in Portions(s, size), ~EndsWithin(portion)
  PROVE  \E a, b \in Seq(S) : /\ q = a \o b /\ Pairs(portion, a) /\ Pairs(Remainder(s, portion), b)
                              /\ a # << >>
<1>1. PICK p : p = portion
  OBVIOUS
<1>2. PICK r : r = Remainder(s, portion)
  OBVIOUS
<1>3. /\ p \in Seq(Piece(S)) /\ Len(p) \in 1 .. Len(s) /\ \A k \in 1 .. Len(p) : p[k] = s[k]
      /\ r \in Seq(Piece(S)) /\ Len(r) = Len(s) - Len(p)
      /\ \A k \in 1 .. Len(s) - Len(p) : r[k] = s[k + Len(p)]
  <2>1. s \in Seq(Piece(S)) /\ size \in Nat /\ p \in Portions(s, size)
    BY <1>1
  <2>2. /\ p \in Seq(Piece(S)) /\ Len(p) \in 1 .. Len(s) /\ \A k \in 1 .. Len(p) : p[k] = s[k]
        /\ Remainder(s, p) \in Seq(Piece(S)) /\ Len(Remainder(s, p)) = Len(s) - Len(p)
        /\ \A k \in 1 .. Len(s) - Len(p) : Remainder(s, p)[k] = s[k + Len(p)]
    BY ONLY <2>1, PortionIs
  <2> QED BY <1>1, <1>2, <2>2
<1>4. PICK l \in Nat : l = Len(q)
  OBVIOUS
<1>5. Len(s) = 2 * l /\ \A j \in 1 .. l : s[2 * j - 1] = FrontOf(q[j]) /\ s[2 * j] = RestOf(q[j])
  BY <1>4 DEF Pairs
<1>6. PICK n \in Nat : n = Len(p)
  BY <1>3
<1>7. n \in 1 .. 2 * l /\ p[n] = s[n] /\ p[n].part # "front"
  <2>1. n \in 1 .. 2 * l /\ n \in 1 .. Len(p)
    BY <1>3, <1>5, <1>6
  <2>2. Last(p) = p[n]
    BY <1>6 DEF Last
  <2> QED BY <1>1, <1>3, <2>1, <2>2 DEF EndsWithin
<1>8. PICK m \in Nat : n = 2 * m
  <2>1. PICK m \in Nat : n = 2 * m \/ n = 2 * m + 1
    BY EvenOrOdd
  <2>2. n # 2 * m + 1
    <3> SUFFICES ASSUME n = 2 * m + 1 PROVE FALSE
      OBVIOUS
    <3>1. m + 1 \in 1 .. l /\ 2 * (m + 1) - 1 = n
      BY <1>7
    <3>2. s[n] = FrontOf(q[m + 1])
      BY <1>5, <3>1
    <3> QED BY <1>7, <3>2 DEF FrontOf
  <2> QED BY <2>1, <2>2
<1>9. m \in 1 .. l
  BY <1>7, <1>8
<1>10. PICK a : a = SubSeq(q, 1, m)
  OBVIOUS
<1>11. PICK b : b = SubSeq(q, m + 1, l)
  OBVIOUS
<1>12. a \in Seq(S) /\ Len(a) = m /\ \A j \in 1 .. m : a[j] = q[j]
  BY <1>4, <1>9, <1>10
<1>13. b \in Seq(S) /\ Len(b) = l - m /\ \A j \in 1 .. l - m : b[j] = q[j + m]
  <2>1. m + 1 \in 1 .. l + 1 /\ (\A j \in 1 .. l - m : m + 1 + j - 1 = j + m) /\ l - (m + 1) + 1 = l - m
    BY <1>9
  <2> QED BY <1>4, <1>9, <1>11, <2>1
<1>14. q = a \o b
  <2>1. PICK u : u = a \o b
    OBVIOUS
  <2>2. a \in Seq(S) /\ b \in Seq(S)
    BY <1>12, <1>13
  <2>3. /\ u \in Seq(S) /\ Len(u) = Len(a) + Len(b)
        /\ \A k \in 1 .. Len(a) + Len(b) : u[k] = IF k <= Len(a) THEN a[k] ELSE b[k - Len(a)]
    BY ONLY <2>1, <2>2, ConcatProperties
  <2>4. Len(u) = l /\ \A k \in 1 .. l : u[k] = IF k <= m THEN a[k] ELSE b[k - m]
    BY <1>9, <1>12, <1>13, <2>3
  <2>5. ASSUME NEW k \in 1 .. l
        PROVE  u[k] = q[k]
    <3>1. CASE k <= m
      <4>1. k \in 1 .. m
        BY <3>1
      <4> QED BY <1>12, <2>4, <3>1, <4>1
    <3>2. CASE k > m
      <4>1. k - m \in 1 .. l - m /\ (k - m) + m = k /\ ~(k <= m)
        BY <1>9, <3>2
      <4>2. u[k] = b[k - m]
        BY <2>4, <4>1
      <4> QED BY <1>13, <4>1, <4>2
    <3> QED BY <3>1, <3>2
  <2>6. u = q
    BY <1>4, <2>3, <2>4, <2>5
  <2> QED BY <2>1, <2>6
<1>15. Pairs(p, a)
  <2>1. \A j \in 1 .. m : /\ j \in 1 .. l /\ 2 * j - 1 \in 1 .. Len(p) /\ 2 * j \in 1 .. Len(p)
                          /\ p[2 * j - 1] = s[2 * j - 1] /\ p[2 * j] = s[2 * j]
    <3>1. \A j \in 1 .. m : j \in 1 .. l /\ 2 * j - 1 \in 1 .. n /\ 2 * j \in 1 .. n
      BY <1>8, <1>9
    <3> QED BY <1>3, <1>6, <3>1
  <2> QED BY <1>5, <1>6, <1>8, <1>12, <2>1 DEF Pairs
<1>16. Pairs(r, b)
  <2>1. Len(r) = 2 * (l - m)
    BY <1>3, <1>5, <1>6, <1>8, <1>9
  <2>2. ASSUME NEW j \in 1 .. l - m
        PROVE  r[2 * j - 1] = FrontOf(b[j]) /\ r[2 * j] = RestOf(b[j])
    <3>1. /\ 2 * j - 1 \in 1 .. 2 * l - n /\ 2 * j \in 1 .. 2 * l - n
          /\ (2 * j - 1) + n = 2 * (j + m) - 1 /\ 2 * j + n = 2 * (j + m) /\ j + m \in 1 .. l
      BY <1>8, <1>9
    <3>2. \A k \in 1 .. 2 * l - n : r[k] = s[k + n]
      BY <1>3, <1>5, <1>6
    <3>3. r[2 * j - 1] = s[2 * (j + m) - 1] /\ r[2 * j] = s[2 * (j + m)]
      BY <3>1, <3>2
    <3>4. b[j] = q[j + m]
      BY <1>13
    <3> QED BY <1>5, <3>1, <3>3, <3>4
  <2> QED BY <1>13, <2>1, <2>2 DEF Pairs
<1>17. a # << >>
  BY <1>9, <1>12
<1> QED BY <1>1, <1>2, <1>12, <1>13, <1>14, <1>15, <1>16, <1>17

LEMMA PairsInARow ==
  ASSUME NEW S, NEW s \in Seq(Piece(S)), NEW q \in Seq(S), Pairs(s, q)
  PROVE  /\ Strings(s) = q
         /\ (\A j \in 1 .. Len(q) : q[j].hashtag = TRUE) => Scanned(s) = {s}
         /\ ShownIn(s) = q
<1>0. /\ Len(s) = 2 * Len(q)
      /\ \A j \in 1 .. Len(q) : s[2 * j - 1] = FrontOf(q[j]) /\ s[2 * j] = RestOf(q[j])
  BY DEF Pairs
<1>1. InARow(s, q)
  <2>1. \A d : /\ FrontOf(d).item = d /\ FrontOf(d).part = "front"
               /\ RestOf(d).item = d /\ RestOf(d).part = "rest"
    BY DEF FrontOf, RestOf
  <2>2. \A j \in 1 .. Len(q) : /\ s[2 * j - 1].part = "front" /\ s[2 * j].part = "rest"
                                /\ s[2 * j - 1].item = q[j]
    BY <1>0, <2>1
  <2> QED BY <1>0, <2>2 DEF InARow
<1>2. ASSUME \A j \in 1 .. Len(q) : q[j].hashtag = TRUE, NEW k \in 1 .. Len(s)
      PROVE  s[k].item.hashtag = TRUE
  <2>1. PICK l \in Nat : l = Len(q)
    OBVIOUS
  <2>2. Len(s) = 2 * l /\ k \in Nat
    BY <1>0, <2>1
  <2>3. PICK j \in Nat : k = 2 * j \/ k = 2 * j + 1
    BY <2>2, EvenOrOdd
  <2>4. CASE k = 2 * j
    <3>1. j \in 1 .. l
      BY <2>2, <2>4
    <3>2. s[k].item = q[j]
      <4>1. j \in 1 .. Len(q)
        BY <2>1, <3>1
      <4>2. s[2 * j] = RestOf(q[j])
        BY <1>0, <4>1
      <4>3. RestOf(q[j]).item = q[j]
        BY DEF RestOf
      <4> QED BY <2>4, <4>2, <4>3
    <3> QED BY <1>2, <2>1, <3>1, <3>2
  <2>5. CASE k = 2 * j + 1
    <3>1. j + 1 \in 1 .. l /\ k = 2 * (j + 1) - 1
      BY <2>2, <2>5
    <3>2. s[k].item = q[j + 1]
      <4>1. j + 1 \in 1 .. Len(q)
        BY <2>1, <3>1
      <4>2. s[2 * (j + 1) - 1] = FrontOf(q[j + 1])
        BY <1>0, <4>1
      <4>3. FrontOf(q[j + 1]).item = q[j + 1]
        BY DEF FrontOf
      <4> QED BY <3>1, <4>2, <4>3
    <3> QED BY <1>2, <2>1, <3>1, <3>2
  <2> QED BY <2>3, <2>4, <2>5
<1>3. Strings(s) = q
  BY <1>1, StringsInARow
<1>4. ASSUME \A j \in 1 .. Len(q) : q[j].hashtag = TRUE
      PROVE  Scanned(s) = {s}
  <2>1. \A k \in 1 .. Len(s) : s[k].item.hashtag = TRUE
    BY <1>2, <1>4
  <2> QED BY <1>1, <2>1, ScannedInARow
<1>5. PICK r : r = [k \in 1 .. Len(s) |-> ShownAt(s, k)]
  OBVIOUS
<1>6. PICK T : T = S \cup {Misread}
  OBVIOUS
<1>7. r \in Seq(T) /\ Len(r) = Len(s)
  <2>1. ASSUME NEW k \in 1 .. Len(s) PROVE ShownAt(s, k) \in T
    <3>1. s[k] \in Piece(S)
      OBVIOUS
    <3>2. s[k].item \in S
      BY <3>1 DEF Piece
    <3> QED BY <1>6, <3>2 DEF ShownAt
  <2>2. Len(s) \in Nat
    OBVIOUS
  <2> QED BY <1>5, <2>1, <2>2
<1>8. \A j \in 1 .. Len(q) : r[2 * j - 1] = q[j]
  <2> SUFFICES ASSUME NEW j \in 1 .. Len(q) PROVE r[2 * j - 1] = q[j]
    OBVIOUS
  <2>1. PICK k \in Nat : k = 2 * j - 1
    <3>1. 2 * j - 1 \in Nat
      OBVIOUS
    <3> QED BY <3>1
  <2>2. PICK l \in Nat : l = Len(q)
    OBVIOUS
  <2>3. k \in 1 .. 2 * l /\ k < 2 * l /\ k + 1 = 2 * j
    BY <2>1, <2>2
  <2>4. k \in 1 .. Len(s) /\ k < Len(s) /\ s[k] = FrontOf(q[j]) /\ s[k + 1] = RestOf(q[j])
    BY <1>0, <2>1, <2>2, <2>3
  <2>5. FrontOf(q[j]).item = q[j] /\ FrontOf(q[j]).part = "front"
    BY DEF FrontOf
  <2>6. ShownAt(s, k) = q[j]
    BY <2>4, <2>5 DEF ShownAt
  <2> QED BY <1>5, <2>1, <2>4, <2>6
<1>9. q \in Seq(T)
  BY <1>6
<1>10. \A k \in 1 .. Len(r) : k \in Starts(s) <=> \E j \in 1 .. Len(q) : k = 2 * j - 1
  <2> SUFFICES ASSUME NEW k \in 1 .. Len(s)
               PROVE  k \in Starts(s) <=> \E j \in 1 .. Len(q) : k = 2 * j - 1
    BY <1>7
  <2>1. k \in Starts(s) => \E j \in 1 .. Len(q) : k = 2 * j - 1
    <3>1. PICK l \in Nat : l = Len(q)
      OBVIOUS
    <3>2. k \in 1 .. 2 * l /\ k \in Nat
      BY <1>0, <3>1
    <3>3. PICK j \in Nat : k = 2 * j \/ k = 2 * j + 1
      BY <3>2, EvenOrOdd
    <3>4. CASE k = 2 * j
      <4>1. j \in 1 .. l
        BY <3>2, <3>4
      <4>2. s[k].part = "rest"
        <5>1. s[2 * j] = RestOf(q[j])
          BY <1>0, <3>1, <4>1
        <5>2. RestOf(q[j]).part = "rest"
          BY DEF RestOf
        <5> QED BY <3>4, <5>1, <5>2
      <4> QED BY <1>1, <4>2, PlacesInARow
    <3>5. CASE k = 2 * j + 1
      <4>1. j + 1 \in 1 .. l /\ k = 2 * (j + 1) - 1
        BY <3>2, <3>5
      <4> QED BY <3>1, <4>1
    <3> QED BY <3>3, <3>4, <3>5
  <2>2. (\E j \in 1 .. Len(q) : k = 2 * j - 1) => k \in Starts(s)
    <3>1. (\E j \in 1 .. Len(q) : k = 2 * j - 1) => k \in WholeAt(s)
      BY <1>1, PlacesInARow
    <3> QED BY <3>1 DEF WholeAt
  <2> QED BY <2>1, <2>2
<1>11. PICK K : K = Starts(s)
  OBVIOUS
<1>12. Selected(r, K) = q
  <2>1. \A k \in 1 .. Len(r) : k \in K <=> \E j \in 1 .. Len(q) : k = 2 * j - 1
    BY <1>10, <1>11
  <2>2. Len(r) = 2 * Len(q) \/ Len(r) = 2 * Len(q) + 1
    BY <1>0, <1>7
  <2>3. r \in Seq(T) /\ q \in Seq(T)
    BY <1>7, <1>9
  <2> QED BY <1>8, <2>1, <2>2, <2>3, SelectionOfOdds
<1>13. ShownIn(s) = q
  BY <1>5, <1>11, <1>12 DEF ShownIn
<1> QED BY <1>3, <1>4, <1>13

(* For one who is not waiting for an answer, nothing of the kind is there. *)
FineOf(d) == QuestionsOf(d) /\ AnswersOf(d) /\ ArrivesOf(d) /\ ShownOf(d)

LEMMA QuietIs ==
  ASSUME NEW d \in Client, FineOf(d), client[d] # "ask"
  PROVE  /\ ~cut_in[d] => /\ \A item \in Questions(d) : item.operation \notin Queries
                          /\ \A k \in Carriers : ~AnswerAt(d, k)
         /\ asked[d] => to_client[d] = << >>
  BY DEF FineOf, QuestionsOf, AnswersOf, ArrivesOf, Answered

LEMMA QuietStays ==
  ASSUME NEW d \in Client, cut_in[d] => cut_in'[d], FineOf(d), client[d] # "ask",
         UNCHANGED <<asked[d], to_client[d], receive_buffer[d], shown[d], sent_to[d],
                     element, outgoing_buffer, response>>,
         \A item \in Questions(d)' : item.operation \in Queries => item \in Questions(d)
  PROVE  FineOf(d)'
<1>1. /\ ~cut_in[d] => /\ \A item \in Questions(d) : item.operation \notin Queries
                       /\ \A k \in Carriers : ~AnswerAt(d, k)
      /\ asked[d] => to_client[d] = << >>
  BY QuietIs
<1>2. QuestionsOf(d)'
  BY <1>1 DEF QuestionsOf
<1>3. AnswersOf(d)'
  <2>1. PICK F : \A k \in Carriers' : AnswerAt(d, k)' => F[k] \in Carriers /\ AnswerAt(d, F[k])
    BY CarriersStay
  <2>2. ~cut_in'[d] => \A k \in Carriers' : ~AnswerAt(d, k)'
    BY <1>1, <2>1
  <2> QED BY <2>2 DEF AnswersOf
<1>4. ArrivesOf(d)'
  BY <1>1 DEF FineOf, ArrivesOf
<1>5. ShownOf(d)'
  BY DEF FineOf, ShownOf, Pairs
<1> QED BY <1>2, <1>3, <1>4, <1>5 DEF FineOf

LEMMA FineStays ==
  ASSUME NEW d \in Client, cut_in[d] => cut_in'[d], FineOf(d),
         UNCHANGED <<client[d], command[d], sent[d], asked[d], to_client[d], receive_buffer[d],
                     shown[d], sent_to[d], element, outgoing_buffer, response>>,
         ToSet(executed[d]) \subseteq ToSet(executed'[d]),
         Questions(d)' \subseteq Questions(d)
  PROVE  FineOf(d)'
<1>1. QuestionsOf(d) /\ AnswersOf(d) /\ ArrivesOf(d) /\ ShownOf(d)
  BY DEF FineOf
<1>2. QuestionsOf(d)' /\ ArrivesOf(d)' /\ ShownOf(d)'
  BY <1>1, ClearKept
<1>3. PICK F : /\ \A k \in Carriers' : AnswerAt(d, k)' =>
                     F[k] \in Carriers /\ AnswerAt(d, F[k]) /\ Carried(k)' = Carried(F[k])
               /\ \A j, k \in Carriers' : AnswerAt(d, j)' /\ AnswerAt(d, k)' /\ F[j] = F[k] => j = k
  BY CarriersStay
<1>4. AnswersOf(d)'
  BY <1>1, <1>3, AnswersKept
<1> QED BY <1>2, <1>4 DEF FineOf

LEMMA SentQuestions ==
  ASSUME NEW s \in Seq(Piece(Commands)), NEW item \in Commands, NEW k \in 1 .. Len(s \o Whole(item))
  PROVE  (s \o Whole(item))[k].item = item \/ \E j \in 1 .. Len(s) : (s \o Whole(item))[k] = s[j]
<1>1. PICK w : w = Whole(item)
  OBVIOUS
<1>2. w \in Seq(Piece(Commands)) /\ Len(w) = 2 /\ w[1].item = item /\ w[2].item = item
  <2>1. FrontOf(item).item = item /\ RestOf(item).item = item
    BY DEF FrontOf, RestOf
  <2> QED BY <1>1, <2>1, WholeIs
<1>3. PICK u : u = s \o w
  OBVIOUS
<1>4. /\ u \in Seq(Piece(Commands)) /\ Len(u) = Len(s) + Len(w)
      /\ \A i \in 1 .. Len(s) + Len(w) : u[i] = IF i <= Len(s) THEN s[i] ELSE w[i - Len(s)]
  BY ONLY <1>2, <1>3, ConcatProperties
<1>5. PICK l \in Nat : l = Len(s)
  OBVIOUS
<1>6. k \in 1 .. l + 2 /\ u[k] = IF k <= l THEN s[k] ELSE w[k - l]
  BY <1>1, <1>2, <1>3, <1>4, <1>5
<1>7. CASE k <= l
  <2>1. k \in 1 .. Len(s) /\ u[k] = s[k]
    BY <1>5, <1>6, <1>7
  <2> QED BY <1>1, <1>3, <2>1
<1>8. CASE k > l
  <2>1. (k - l = 1 \/ k - l = 2) /\ u[k] = w[k - l]
    BY <1>6, <1>8
  <2>2. u[k].item = item
    BY <1>2, <2>1
  <2> QED BY <1>1, <1>3, <2>2
<1> QED BY <1>6, <1>7, <1>8

LEMMA AnswersSend ==
  ASSUME TypeOK, NEW c \in Client, FineOf(c), Clear(c)', send_command(c),
         UNCHANGED <<mainVars, queue, outgoing_buffer, consumerVars>>
  PROVE  FineOf(c)'
<1>1. /\ client[c] = "send" /\ to_broker'[c] = to_broker[c] \o Whole(command[c])
      /\ UNCHANGED <<receive_buffer, shown, to_client, cut_out>>
      /\ \/ command[c].operation \notin Queries /\ asked'[c] = asked[c]
         \/ /\ command[c].operation \in Queries /\ asked'[c] = TRUE
            /\ client'[c] = "ask" /\ command' = command
  <2>1. /\ client[c] = "send"
        /\ to_broker' = [to_broker EXCEPT ![c] = @ \o Whole(command[c])]
        /\ asked' = [asked EXCEPT ![c] = @ \/ command[c].operation \in Queries]
        /\ UNCHANGED <<receive_buffer, shown, to_client, cut_out>>
    BY DEF send_command
  <2>2. to_broker'[c] = to_broker[c] \o Whole(command[c])
    BY <2>1 DEF TypeOK, WiresTypeOK
  <2>3. CASE command[c].operation \in Queries
    <3>1. client' = [client EXCEPT ![c] = "ask"] /\ command' = command
      BY <2>3 DEF send_command, ClientAt
    <3>2. client'[c] = "ask" /\ asked'[c] = TRUE
      BY <2>1, <2>3, <3>1 DEF TypeOK, ClientTypeOK
    <3> QED BY <2>1, <2>2, <2>3, <3>1, <3>2
  <2>4. CASE command[c].operation \notin Queries
    <3>1. asked'[c] = asked[c]
      BY <2>1, <2>4 DEF TypeOK, ClientTypeOK
    <3> QED BY <2>1, <2>2, <2>4, <3>1
  <2> QED BY <2>3, <2>4
<1>2. /\ UNCHANGED <<main, to_visit, batch, element, outgoing_buffer, response, executed, sent_to, cut_in>>
      /\ command[c] \in Commands /\ to_broker[c] \in Seq(Piece(Commands))
  BY <1>1 DEF mainVars, consumerVars, TypeOK, ClientTypeOK, WiresTypeOK
<1>3. ASSUME NEW item \in Questions(c)'
      PROVE  item = command[c] \/ item \in Questions(c)
  <2>1. Held(c)' = Held(c) /\ batch' = batch
    BY <1>2 DEF Held, Executing
  <2>2. CASE \E k \in 1 .. Len(to_broker'[c]) : item = to_broker'[c][k].item
    <3>1. PICK k \in 1 .. Len(to_broker'[c]) : item = to_broker'[c][k].item
      BY <2>2
    <3>2. to_broker'[c][k].item = command[c] \/ \E j \in 1 .. Len(to_broker[c]) : to_broker'[c][k] = to_broker[c][j]
      BY <1>1, <1>2, SentQuestions
    <3> QED BY <3>1, <3>2 DEF Questions
  <2>3. CASE Held(c)' /\ item \in ToSet(batch')
    BY <2>1, <2>3 DEF Questions
  <2> QED BY <2>2, <2>3 DEF Questions
<1>4. CASE command[c].operation \notin Queries /\ asked'[c] = asked[c]
  <2>1. \A item \in Questions(c)' : item.operation \in Queries => item \in Questions(c)
    BY <1>3, <1>4
  <2> QED BY <1>1, <1>2, <1>4, <2>1, QuietStays
<1>5. CASE /\ command[c].operation \in Queries /\ asked'[c] = TRUE
           /\ client'[c] = "ask" /\ command' = command
  <2>1. /\ ~cut_in[c]
        /\ \A item \in Questions(c) : item.operation \notin Queries
        /\ \A k \in Carriers : ~AnswerAt(c, k)
        /\ asked[c] => to_client[c] = << >>
    BY <1>1, <1>2, <1>5, QuietIs DEF Clear
  <2>2. QuestionsOf(c)'
    BY <1>3, <1>5, <2>1 DEF QuestionsOf
  <2>3. AnswersOf(c)'
    <3>1. PICK F : \A k \in Carriers' : AnswerAt(c, k)' => F[k] \in Carriers /\ AnswerAt(c, F[k])
      BY <1>2, CarriersStay
    <3>2. \A k \in Carriers' : ~AnswerAt(c, k)'
      BY <2>1, <3>1
    <3> QED BY <3>2 DEF AnswersOf
  <2>4. PICK q \in Seq(Sendable) : Pairs(to_client[c], q) /\ sent_to[c] = shown[c] \o q
    BY DEF FineOf, ShownOf
  <2>5. to_client[c] = << >>
    <3>1. CASE asked[c]
      BY <2>1, <3>1
    <3>2. CASE ~asked[c]
      <4>1. \A item \in ToSet(sent_to[c]) : item.kind = "message" /\ item.kind = "answer"
        BY <1>2, <1>5, <3>2 DEF FineOf, ArrivesOf, Clear, OnlySent
      <4>2. PICK s \in Seq(Sendable) : s = sent_to[c]
        BY DEF TypeOK, WiresTypeOK
      <4>3. Len(s) = 0
        <5>1. \A k \in 1 .. Len(s) : s[k] \in ToSet(s)
          BY DEF ToSet
        <5>2. \A k \in 1 .. Len(s) : FALSE
          BY <4>1, <4>2, <5>1
        <5>3. PICK l \in Nat : l = Len(s)
          OBVIOUS
        <5>4. l # 0 => 1 \in 1 .. l
          OBVIOUS
        <5> QED BY <5>2, <5>3, <5>4
      <4>4. PICK h \in Seq(Sendable \cup {Misread}) : h = shown[c]
        BY DEF TypeOK, ClientTypeOK
      <4>5. Len(h \o q) = Len(h) + Len(q)
        BY ConcatProperties
      <4>6. Len(h) \in Nat /\ Len(q) \in Nat
        OBVIOUS
      <4>7. Len(q) = 0
        BY <2>4, <4>2, <4>3, <4>4, <4>5, <4>6
      <4>8. PICK t \in Seq(Piece(Sendable)) : t = to_client[c]
        BY DEF TypeOK, WiresTypeOK
      <4>9. Len(t) = 0
        BY <2>4, <4>7, <4>8 DEF Pairs
      <4>10. t = << >>
        BY <4>9
      <4> QED BY <4>8, <4>10
    <3> QED BY <3>1, <3>2
  <2>6. ArrivesOf(c)'
    BY <1>1, <1>5, <2>5 DEF ArrivesOf
  <2>7. ShownOf(c)'
    BY <1>1, <1>2 DEF FineOf, ShownOf, Pairs
  <2> QED BY <2>2, <2>3, <2>6, <2>7 DEF FineOf
<1> QED BY <1>1, <1>4, <1>5

LEMMA AnswerArrives ==
  ASSUME TypeOK, NEW c \in Client, CommandsOf(c), FineOf(c), Clear(c), Clear(c)', receive_answer(c),
         UNCHANGED <<mainVars, queue, outgoing_buffer, consumerVars>>
  PROVE  FineOf(c)'
<1>1. PICK portion \in Portions(to_client[c], CLIENT_RECEIVE_BUFFER_SIZE) :
          /\ receive_from_broker(c, portion)
          /\ shown' = [shown EXCEPT ![c] = Append(@, TakenForAnswer(c, Head(portion)))]
  BY DEF receive_answer
<1>2. /\ client[c] = "ask" /\ client'[c] = "read" /\ asked'[c] = asked[c] /\ asked[c]
      /\ UNCHANGED <<sent, to_broker>>
      /\ UNCHANGED <<main, to_visit, batch, element, outgoing_buffer, response, executed, sent_to, cut_in>>
  BY DEF receive_answer, ClientAt, mainVars, consumerVars, TypeOK, ClientTypeOK
<1>3. PICK s \in Seq(Piece(Sendable)) : s = to_client[c]
  BY DEF TypeOK, WiresTypeOK
<1>4. PICK r : r = Remainder(s, portion)
  OBVIOUS
<1>5. to_client'[c] = r /\ ~EndsWithin(portion)
  <2>1. to_client' = [to_client EXCEPT ![c] = r] /\ cut_out' = [cut_out EXCEPT ![c] = @ \/ EndsWithin(portion)]
    BY <1>1, <1>3, <1>4 DEF receive_from_broker
  <2>2. to_client'[c] = r /\ (cut_out'[c] <=> cut_out[c] \/ EndsWithin(portion))
    BY <2>1 DEF TypeOK, WiresTypeOK
  <2> QED BY <2>2 DEF Clear
<1>6. PICK q \in Seq(Sendable) : Pairs(s, q) /\ sent_to[c] = shown[c] \o q
  BY <1>3 DEF FineOf, ShownOf
<1>7. PICK a, b \in Seq(Sendable) : q = a \o b /\ Pairs(portion, a) /\ Pairs(r, b) /\ a # << >>
  <2>1. PICK p : p = portion
    OBVIOUS
  <2>2. s \in Seq(Piece(Sendable)) /\ q \in Seq(Sendable) /\ Pairs(s, q)
        /\ CLIENT_RECEIVE_BUFFER_SIZE \in Nat /\ p \in Portions(s, CLIENT_RECEIVE_BUFFER_SIZE)
        /\ ~EndsWithin(p)
    BY <1>3, <1>5, <1>6, <2>1, SizesArePositive
  <2>3. \E a, b \in Seq(Sendable) : /\ q = a \o b /\ Pairs(p, a) /\ Pairs(Remainder(s, p), b)
                                    /\ a # << >>
    BY ONLY <2>2, WholePortion
  <2> QED BY <1>4, <2>1, <2>3
<1>8. PICK answer : answer = Answer(c, command[c])
  OBVIOUS
<1>9. /\ Answered(c) /\ s = Whole(answer) /\ answer \in Sendable
  <2>1. s # << >>
    <3>1. Len(s) = 2 * Len(q) /\ Len(q) = Len(a) + Len(b) /\ Len(a) # 0 /\ Len(a) \in Nat /\ Len(b) \in Nat
      <4>1. Len(a \o b) = Len(a) + Len(b)
        BY ConcatProperties
      <4> QED BY <1>6, <1>7, <4>1 DEF Pairs
    <3>2. Len(s) # 0
      BY <3>1
    <3> QED BY <3>2
  <2>2. command[c].number \in Nat
    BY <1>2 DEF TypeOK, ClientTypeOK
  <2> QED BY <1>2, <1>3, <1>8, <2>1, <2>2, AnswerIs DEF FineOf, ArrivesOf, Sendable
<1>10. /\ Len(q) = 1 /\ Len(a) = 1 /\ Len(b) = 0 /\ q[1] = answer
  <2>1. Len(s) = 2 /\ s[1] = FrontOf(answer)
    BY <1>9, WholeIs
  <2>2. PICK l \in Nat : l = Len(q)
    OBVIOUS
  <2>3. 2 * l = 2
    BY <1>6, <2>1, <2>2 DEF Pairs
  <2>4. l = 1
    BY <2>3
  <2>5. Len(q) = Len(a) + Len(b) /\ Len(a) # 0 /\ Len(a) \in Nat /\ Len(b) \in Nat
    <3>1. Len(a \o b) = Len(a) + Len(b)
      BY ConcatProperties
    <3> QED BY <1>7, <3>1
  <2>6. s[2 * 1 - 1] = FrontOf(q[1])
    BY <1>6, <2>2, <2>4 DEF Pairs
  <2>7. q[1] = answer
    <3>1. FrontOf(q[1]) = FrontOf(answer)
      BY <2>1, <2>6
    <3>2. FrontOf(q[1]).item = q[1] /\ FrontOf(answer).item = answer
      BY DEF FrontOf
    <3> QED BY <3>1, <3>2
  <2>8. PICK x \in Nat : x = Len(a)
    OBVIOUS
  <2>9. PICK y \in Nat : y = Len(b)
    OBVIOUS
  <2>10. x + y = 1 /\ x # 0
    BY <2>2, <2>4, <2>5, <2>8, <2>9
  <2>11. x = 1 /\ y = 0
    BY <2>10
  <2> QED BY <2>2, <2>4, <2>7, <2>8, <2>9, <2>11
<1>11. b = << >> /\ a = q
  <2>1. b = << >>
    BY <1>10
  <2>2. a \o << >> = a
    BY ConcatEmptySeq
  <2> QED BY <1>7, <2>1, <2>2
<1>12. r = << >> /\ Head(portion) = FrontOf(answer)
  <2>1. r \in Seq(Piece(Sendable)) /\ Len(r) = 0
    <3>1. Len(r) = 2 * 0
      BY <1>7, <1>10 DEF Pairs
    <3>2. r \in Seq(Piece(Sendable))
      <4>1. CLIENT_RECEIVE_BUFFER_SIZE \in Nat
        BY SizesArePositive
      <4> QED BY <1>3, <1>4, <4>1, PortionIs
    <3> QED BY <3>1, <3>2
  <2>2. r = << >>
    BY <2>1
  <2>3. portion[2 * 1 - 1] = FrontOf(q[1])
    BY <1>7, <1>10, <1>11 DEF Pairs
  <2>4. Head(portion) = portion[1]
    <3>1. portion \in Seq(Piece(Sendable)) /\ portion # << >>
      BY PortionType
    <3> QED BY <3>1
  <2> QED BY <1>10, <2>2, <2>3, <2>4
<1>13. shown'[c] = Append(shown[c], answer)
  <2>1. TakenForAnswer(c, Head(portion)) = answer
    BY <1>8, <1>12 DEF TakenForAnswer, FrontOf
  <2> QED BY <1>1, <2>1 DEF TypeOK, ClientTypeOK
<1>14. ShownOf(c)'
  <2>1. PICK h \in Seq(Sendable \cup {Misread}) : h = shown[c]
    BY DEF TypeOK, ClientTypeOK
  <2>2. q = <<answer>>
    BY <1>10
  <2>3. h \o <<answer>> = Append(h, answer) \o << >>
    <3>1. answer \in Sendable \cup {Misread}
      BY <1>9
    <3>2. Append(h, answer) \in Seq(Sendable \cup {Misread})
      BY <3>1
    <3>3. Append(h, answer) \o << >> = Append(h, answer)
      BY <3>2, ConcatEmptySeq
    <3>4. Append(h, answer) = h \o <<answer>>
      BY <3>1, AppendIsConcat
    <3> QED BY <3>3, <3>4
  <2>4. sent_to'[c] = shown'[c] \o << >>
    BY <1>2, <1>6, <1>13, <2>1, <2>2, <2>3
  <2>5. << >> \in Seq(Sendable) /\ Pairs(<< >>, << >>)
    BY DEF Pairs
  <2>6. to_client'[c] = << >>
    BY <1>5, <1>12
  <2> QED BY <2>4, <2>5, <2>6 DEF ShownOf
<1>15. QuestionsOf(c)'
  <2>1. to_broker[c] = << >> /\ (Held(c) => batch = << >>)
    BY <1>2, <1>9, AnsweredIsDone DEF Clear
  <2>2. Questions(c)' = {}
    BY <1>2, <2>1 DEF Questions, Held, Executing, ToSet
  <2> QED BY <2>2 DEF QuestionsOf
<1>16. AnswersOf(c)'
  <2>1. to_client[c] # << >>
    <3>1. Len(s) # 0
      BY <1>9, WholeIs
    <3> QED BY <1>3, <3>1
  <2>2. \A k \in Carriers : ~AnswerAt(c, k)
    BY <1>2, <2>1 DEF FineOf, AnswersOf, Clear
  <2>3. PICK F : \A k \in Carriers' : AnswerAt(c, k)' => F[k] \in Carriers /\ AnswerAt(c, F[k])
    BY <1>2, CarriersStay
  <2> QED BY <2>2, <2>3 DEF AnswersOf
<1>17. ArrivesOf(c)'
  BY <1>2, <1>5, <1>12 DEF ArrivesOf
<1> QED BY <1>14, <1>15, <1>16, <1>17 DEF FineOf

LEMMA Regrouped ==
  ASSUME NEW S, NEW s \in Seq(S), NEW t \in Seq(S), NEW u \in Seq(S)
  PROVE  s \o (t \o u) = (s \o t) \o u
<1>1. s \in Seq(S) /\ t \in Seq(S) /\ u \in Seq(S)
  OBVIOUS
<1>2. (s \o t) \o u = s \o (t \o u)
  BY ONLY <1>1, ConcatAssociative
<1> QED BY <1>2

LEMMA MessagesArrive ==
  ASSUME TypeOK, NEW c \in Client, FineOf(c), Clear(c), Clear(c)',
         client[c] \in {"read", "prompt"}, receive_subscription_messages(c),
         UNCHANGED <<mainVars, queue, outgoing_buffer, consumerVars>>
  PROVE  FineOf(c)'
<1>1. /\ UNCHANGED <<command, sent, asked, to_broker>> /\ client[c] # "ask"
      /\ UNCHANGED <<main, to_visit, batch, element, outgoing_buffer, response, executed, sent_to, cut_in>>
  BY DEF receive_subscription_messages, mainVars, consumerVars
<1>2. Questions(c)' \subseteq Questions(c)
  BY <1>1 DEF Questions, Held, Executing, ToSet
<1>3. CASE UNCHANGED <<receive_buffer, shown, to_client>>
  BY <1>1, <1>2, <1>3, QuietStays
<1>4. CASE \E portion \in Portions(to_client[c], CLIENT_RECEIVE_BUFFER_SIZE) :
             /\ receive_from_broker(c, portion)
             /\ \E content \in Over(portion, receive_buffer[c]) :
                   \E scanned \in Scanned(content) :
                      shown' = [shown EXCEPT ![c] = @ \o ShownIn(scanned)]
             /\ receive_buffer' = [receive_buffer EXCEPT ![c] = << >>]
  <2>1. PICK portion \in Portions(to_client[c], CLIENT_RECEIVE_BUFFER_SIZE) :
             /\ receive_from_broker(c, portion)
             /\ \E content \in Over(portion, receive_buffer[c]) :
                   \E scanned \in Scanned(content) :
                      shown' = [shown EXCEPT ![c] = @ \o ShownIn(scanned)]
             /\ receive_buffer' = [receive_buffer EXCEPT ![c] = << >>]
    BY <1>4
  <2>2. PICK s \in Seq(Piece(Sendable)) : s = to_client[c]
    BY DEF TypeOK, WiresTypeOK
  <2>3. PICK p : p = portion
    OBVIOUS
  <2>4. CLIENT_RECEIVE_BUFFER_SIZE \in Nat /\ p \in Portions(s, CLIENT_RECEIVE_BUFFER_SIZE)
    BY <2>2, <2>3, SizesArePositive
  <2>5. PICK r : r = Remainder(s, p)
    OBVIOUS
  <2>6. p \in Seq(Piece(Sendable)) /\ Len(p) \in 1 .. Len(s) /\ r \in Seq(Piece(Sendable))
    <3>1. s \in Seq(Piece(Sendable)) /\ CLIENT_RECEIVE_BUFFER_SIZE \in Nat
          /\ p \in Portions(s, CLIENT_RECEIVE_BUFFER_SIZE)
      BY <2>4
    <3>2. p \in Seq(Piece(Sendable)) /\ Len(p) \in 1 .. Len(s) /\ Remainder(s, p) \in Seq(Piece(Sendable))
      BY ONLY <3>1, PortionIs
    <3> QED BY <2>5, <3>2
  <2>7. ~asked[c]
    <3>1. s # << >>
      BY <2>6
    <3> QED BY <1>1, <2>2, <3>1, QuietIs
  <2>8. /\ receive_buffer[c] = << >>
        /\ \A item \in ToSet(sent_to[c]) : item.kind = "message"
    BY <2>7 DEF FineOf, ArrivesOf
  <2>9. /\ \E scanned \in Scanned(p) : shown'[c] = shown[c] \o ShownIn(scanned)
        /\ receive_buffer'[c] = << >>
    <3>1. Over(portion, receive_buffer[c]) = {p}
      BY <2>3, <2>8 DEF Over
    <3>2. PICK scanned \in Scanned(p) : shown' = [shown EXCEPT ![c] = @ \o ShownIn(scanned)]
      BY <2>1, <3>1
    <3>3. shown'[c] = shown[c] \o ShownIn(scanned)
      BY <3>2 DEF TypeOK, ClientTypeOK
    <3>4. receive_buffer'[c] = << >>
      BY <2>1 DEF TypeOK, ClientTypeOK
    <3> QED BY <3>3, <3>4
  <2>10. to_client'[c] = r /\ ~EndsWithin(p)
    <3>1. to_client' = [to_client EXCEPT ![c] = r] /\ cut_out' = [cut_out EXCEPT ![c] = @ \/ EndsWithin(p)]
      BY <2>1, <2>2, <2>3, <2>5 DEF receive_from_broker
    <3>2. to_client'[c] = r /\ (cut_out'[c] <=> cut_out[c] \/ EndsWithin(p))
      BY <3>1 DEF TypeOK, WiresTypeOK
    <3> QED BY <3>2 DEF Clear
  <2>11. PICK q \in Seq(Sendable) : Pairs(s, q) /\ sent_to[c] = shown[c] \o q
    BY <2>2 DEF FineOf, ShownOf
  <2>12. PICK a, b \in Seq(Sendable) : q = a \o b /\ Pairs(p, a) /\ Pairs(r, b) /\ a # << >>
    <3>1. s \in Seq(Piece(Sendable)) /\ q \in Seq(Sendable) /\ Pairs(s, q)
          /\ CLIENT_RECEIVE_BUFFER_SIZE \in Nat /\ p \in Portions(s, CLIENT_RECEIVE_BUFFER_SIZE)
          /\ ~EndsWithin(p)
      BY <2>4, <2>10, <2>11
    <3>2. \E a, b \in Seq(Sendable) : /\ q = a \o b /\ Pairs(p, a) /\ Pairs(Remainder(s, p), b)
                                      /\ a # << >>
      BY ONLY <3>1, WholePortion
    <3> QED BY <2>5, <3>2
  <2>13. PICK h \in Seq(Sendable \cup {Misread}) : h = shown[c]
    BY DEF TypeOK, ClientTypeOK
  <2>14. /\ h \in Seq(Sendable \cup {Misread}) /\ a \in Seq(Sendable \cup {Misread})
         /\ b \in Seq(Sendable \cup {Misread})
    OBVIOUS
  <2>15. h \o (a \o b) = (h \o a) \o b
    <3>1. PICK T : T = Sendable \cup {Misread}
      OBVIOUS
    <3>2. h \in Seq(T) /\ a \in Seq(T) /\ b \in Seq(T)
      BY <2>14, <3>1
    <3> QED BY ONLY <3>2, Regrouped
  <2>16. \A j \in 1 .. Len(a) : a[j].hashtag = TRUE
    <3> SUFFICES ASSUME NEW j \in 1 .. Len(a) PROVE a[j].hashtag = TRUE
      OBVIOUS
    <3>1. a[j] \in Sendable
      OBVIOUS
    <3>2. a[j] \in ToSet(sent_to[c])
      <4>1. PICK x : x = h \o a
        OBVIOUS
      <4>2. PICK y : y = x \o b
        OBVIOUS
      <4>3. /\ x \in Seq(Sendable \cup {Misread}) /\ Len(x) = Len(h) + Len(a)
            /\ \A k \in 1 .. Len(h) + Len(a) : x[k] = IF k <= Len(h) THEN h[k] ELSE a[k - Len(h)]
        BY ONLY <2>14, <4>1, ConcatProperties
      <4>4. /\ y \in Seq(Sendable \cup {Misread}) /\ Len(y) = Len(x) + Len(b)
            /\ \A k \in 1 .. Len(x) + Len(b) : y[k] = IF k <= Len(x) THEN x[k] ELSE b[k - Len(x)]
        <5>1. x \in Seq(Sendable \cup {Misread})
          BY <4>3
        <5> QED BY ONLY <5>1, <2>14, <4>2, ConcatProperties
      <4>5. PICK i \in Nat : i = Len(h) + j /\ i - Len(h) = j /\ ~(i <= Len(h))
        <5>1. Len(h) \in Nat /\ j \in Nat /\ j # 0
          OBVIOUS
        <5> QED BY <5>1
      <4>6. /\ i \in 1 .. Len(h) + Len(a) /\ i <= Len(x) /\ i \in 1 .. Len(x) + Len(b)
            /\ i \in 1 .. Len(y)
        <5>1. Len(h) \in Nat /\ Len(a) \in Nat /\ Len(b) \in Nat /\ j \in 1 .. Len(a)
          OBVIOUS
        <5> QED BY <5>1, <4>3, <4>4, <4>5
      <4>7. y[i] = a[j]
        BY <4>3, <4>4, <4>5, <4>6
      <4>8. sent_to[c] = y
        BY <2>11, <2>12, <2>13, <2>15, <4>1, <4>2
      <4>9. DOMAIN y = 1 .. Len(y)
        BY <4>4
      <4>10. y[i] \in ToSet(y)
        BY <4>6, <4>9 DEF ToSet
      <4> QED BY <4>7, <4>8, <4>10
    <3>3. a[j].kind = "message"
      BY <2>8, <3>2
    <3>4. a[j] \notin Answers
      BY <3>3, Kinds
    <3> QED BY <3>1, <3>4 DEF Sendable, Messages
  <2>17. Scanned(p) = {p} /\ ShownIn(p) = a
    BY <2>6, <2>12, <2>16, PairsInARow
  <2>18. ShownOf(c)'
    BY <1>1, <2>9, <2>10, <2>11, <2>12, <2>13, <2>15, <2>17 DEF ShownOf
  <2>19. ArrivesOf(c)'
    BY <1>1, <2>7, <2>8, <2>9 DEF ArrivesOf
  <2>20. QuestionsOf(c)'
    BY <1>1, <1>2, QuietIs DEF QuestionsOf
  <2>21. AnswersOf(c)'
    <3>1. ~cut_in[c] => \A k \in Carriers : ~AnswerAt(c, k)
      BY <1>1, QuietIs
    <3>2. PICK F : \A k \in Carriers' : AnswerAt(c, k)' => F[k] \in Carriers /\ AnswerAt(c, F[k])
      BY <1>1, CarriersStay
    <3> QED BY <1>1, <3>1, <3>2 DEF AnswersOf
  <2> QED BY <2>18, <2>19, <2>20, <2>21 DEF FineOf
<1> QED BY <1>3, <1>4 DEF receive_subscription_messages

LEMMA ClientAnswers ==
  ASSUME TypeOK, CommandsInv, NEW c \in Client, ClientUser(c) \/ ClientProgram(c),
         NEW d \in Client, FineOf(d), Clear(d), Clear(d)'
  PROVE  FineOf(d)'
<1>1. /\ UNCHANGED <<mainVars, queue, outgoing_buffer, consumerVars>>
      /\ \/ connect_to_broker(c) \/ get_option(c) \/ cleanup(c) \/ send_command(c)
         \/ receive_answer(c)
         \/ client[c] \in {"read", "prompt"} /\ receive_subscription_messages(c)
  BY DEF ClientUser, ClientProgram
<1>2. UNCHANGED <<main, to_visit, batch, element, outgoing_buffer, response, executed, sent_to,
                 cut_in>>
  BY <1>1 DEF mainVars, consumerVars
<1>3. /\ client \in [Client -> ClientState] /\ command \in [Client -> Commands \cup {NULL}]
      /\ to_broker \in [Client -> Seq(Piece(Commands))]
      /\ to_client \in [Client -> Seq(Piece(Sendable))]
      /\ receive_buffer \in [Client -> Seq(Piece(Sendable))]
      /\ shown \in [Client -> Seq(Sendable \cup {Misread})]
      /\ sent \in [Client -> Nat] /\ asked \in [Client -> BOOLEAN]
  BY DEF TypeOK, ClientTypeOK, WiresTypeOK
<1>4. to_broker'[d] = to_broker[d] \/ to_broker'[d] = << >> => Questions(d)' \subseteq Questions(d)
  BY <1>2 DEF Questions, Held, Executing, ToSet
<1>5. CASE d # c
  <2>1. UNCHANGED <<client[d], command[d], sent[d], asked[d], to_broker[d], to_client[d],
                    receive_buffer[d], shown[d]>>
    <3>1. CASE connect_to_broker(c)
      BY <1>3, <1>5, <3>1 DEF connect_to_broker, ClientAt
    <3>2. CASE get_option(c)
      BY <1>3, <1>5, <3>2 DEF get_option, ClientAt
    <3>3. CASE cleanup(c)
      BY <1>3, <1>5, <3>3 DEF cleanup, ClientAt
    <3>4. CASE send_command(c)
      BY <1>3, <1>5, <3>4 DEF send_command, ClientAt
    <3>5. CASE receive_answer(c)
      BY <1>3, <1>5, <3>5 DEF receive_answer, receive_from_broker, ClientAt
    <3>6. CASE receive_subscription_messages(c)
      BY <1>3, <1>5, <3>6 DEF receive_subscription_messages, receive_from_broker, ClientAt
    <3> QED BY <1>1, <3>1, <3>2, <3>3, <3>4, <3>5, <3>6
  <2>2. sent_to'[d] = sent_to[d] /\ ToSet(executed[d]) \subseteq ToSet(executed'[d])
    BY <1>2
  <2> QED BY <1>2, <1>4, <2>1, <2>2, FineStays
<1>6. CASE d = c /\ (connect_to_broker(c) \/ get_option(c) \/ cleanup(c))
  <2>1. /\ client[c] # "ask" /\ UNCHANGED <<asked, to_client, receive_buffer, shown>>
        /\ to_broker'[c] = to_broker[c] \/ to_broker'[c] = << >>
    BY <1>3, <1>6 DEF connect_to_broker, get_option, cleanup
  <2> QED BY <1>2, <1>4, <1>6, <2>1, QuietStays
<1>7. CASE d = c /\ send_command(c)
  BY <1>1, <1>7, AnswersSend
<1>8. CASE d = c /\ receive_answer(c)
  BY <1>1, <1>8, AnswerArrives DEF CommandsInv
<1>9. CASE d = c /\ client[c] \in {"read", "prompt"} /\ receive_subscription_messages(c)
  BY <1>1, <1>9, MessagesArrive
<1> QED BY <1>1, <1>5, <1>6, <1>7, <1>8, <1>9

(* Answers are carried on, and nothing else happens to a client.           *)
LEMMA FineCarried ==
  ASSUME NEW d \in Client, cut_in[d] => cut_in'[d], FineOf(d),
         UNCHANGED <<client[d], command[d], sent[d], asked[d], to_client[d], receive_buffer[d],
                     shown[d], sent_to[d]>>,
         ToSet(executed[d]) \subseteq ToSet(executed'[d]),
         Questions(d)' \subseteq Questions(d),
         NEW F, \A k \in Carriers' : AnswerAt(d, k)' =>
            F[k] \in Carriers /\ AnswerAt(d, F[k]) /\ Carried(k)' = Carried(F[k]),
         \A j, k \in Carriers' : AnswerAt(d, j)' /\ AnswerAt(d, k)' /\ F[j] = F[k] => j = k
  PROVE  FineOf(d)'
<1>1. QuestionsOf(d) /\ AnswersOf(d) /\ ArrivesOf(d) /\ ShownOf(d)
  BY DEF FineOf
<1>2. QuestionsOf(d)' /\ ArrivesOf(d)' /\ ShownOf(d)'
  BY <1>1, ClearKept
<1>3. AnswersOf(d)'
  BY <1>1, AnswersKept
<1> QED BY <1>2, <1>3 DEF FineOf

LEMMA ProducedCarriers ==
  ASSUME TypeOK, produce, NEW d \in Client
  PROVE  \E F : /\ \A k \in Carriers' : AnswerAt(d, k)' =>
                      F[k] \in Carriers /\ AnswerAt(d, F[k]) /\ Carried(k)' = Carried(F[k])
                /\ \A j, k \in Carriers' : AnswerAt(d, j)' /\ AnswerAt(d, k)' /\ F[j] = F[k] => j = k
<1>1. /\ queue # << >> /\ outgoing_buffer' = Append(outgoing_buffer, Head(queue))
      /\ UNCHANGED <<element, response>>
      /\ queue \in Seq(Messages) /\ outgoing_buffer \in Seq(Sendable)
  BY DEF produce, mainVars, consumerVars, TypeOK, QueuesTypeOK
<1>2. PICK l \in Nat : l = Len(outgoing_buffer)
  BY <1>1
<1>3. PICK first \in Messages : first = Head(queue)
  BY <1>1
<1>4. PICK b : b = outgoing_buffer'
  OBVIOUS
<1>5. /\ Len(b) = l + 1 /\ b[l + 1] = first
      /\ \A k \in 1 .. l : b[k] = outgoing_buffer[k]
  <2>1. outgoing_buffer \in Seq(Sendable) /\ first \in Sendable /\ b = Append(outgoing_buffer, first)
    BY <1>1, <1>3, <1>4 DEF Sendable
  <2> QED BY ONLY <1>2, <2>1, AppendProperties
<1>6. PICK F : F = [k \in 0 .. l + 2 |-> IF k <= l THEN k ELSE l + 1]
  OBVIOUS
<1>7. /\ Carriers = 0 .. l + 1 /\ Carriers' = 0 .. l + 2
  <2>1. (l + 1) + 1 = l + 2
    OBVIOUS
  <2> QED BY <1>2, <1>4, <1>5, <2>1 DEF Carriers
<1>8. \A k \in 0 .. l : F[k] = k /\ Carried(k)' = Carried(k)
  <2> SUFFICES ASSUME NEW k \in 0 .. l PROVE F[k] = k /\ Carried(k)' = Carried(k)
    OBVIOUS
  <2>1. k \in 0 .. l + 2 /\ k <= l /\ (k # 0 => k \in 1 .. l /\ k \in 1 .. l + 1)
    OBVIOUS
  <2>2. CASE k = 0
    BY <1>1, <1>6, <2>1, <2>2 DEF Carried
  <2>3. CASE k # 0
    <3>1. Carried(k)' = b[k] /\ Carried(k) = outgoing_buffer[k]
      BY <1>2, <1>4, <1>5, <2>1, <2>3 DEF Carried
    <3> QED BY <1>5, <1>6, <2>1, <2>3, <3>1
  <2> QED BY <2>2, <2>3
<1>9. ~AnswerAt(d, l + 1)'
  <2>1. l + 1 # 0 /\ l + 1 \in 1 .. l + 1
    OBVIOUS
  <2>2. Carried(l + 1)' = first
    BY <1>4, <1>5, <2>1 DEF Carried
  <2> QED BY <2>2, Kinds DEF AnswerAt
<1>10. F[l + 2] = l + 1 /\ Carried(l + 2)' = Carried(l + 1)
  <2>1. l + 2 # 0 /\ l + 1 # 0 /\ l + 2 \notin 1 .. l + 1 /\ l + 1 \notin 1 .. l /\ ~(l + 2 <= l)
        /\ l + 2 \in 0 .. l + 2
    OBVIOUS
  <2>2. Carried(l + 2)' = response' /\ Carried(l + 1) = response
    BY <1>2, <1>4, <1>5, <2>1 DEF Carried
  <2> QED BY <1>1, <1>6, <2>1, <2>2
<1>11. \A k \in 0 .. l + 2 : AnswerAt(d, k)' => (k \in 0 .. l \/ k = l + 2)
  <2>1. \A k \in 0 .. l + 2 : k \in 0 .. l \/ k = l + 1 \/ k = l + 2
    OBVIOUS
  <2> QED BY <1>9, <2>1
<1>12. \A k \in Carriers' : AnswerAt(d, k)' =>
          F[k] \in Carriers /\ AnswerAt(d, F[k]) /\ Carried(k)' = Carried(F[k])
  <2> SUFFICES ASSUME NEW k \in 0 .. l + 2, AnswerAt(d, k)'
               PROVE  F[k] \in Carriers /\ AnswerAt(d, F[k]) /\ Carried(k)' = Carried(F[k])
    BY <1>7
  <2>1. F[k] \in 0 .. l + 1 /\ Carried(k)' = Carried(F[k])
    <3>1. CASE k \in 0 .. l
      <4>1. k \in 0 .. l + 1
        BY <3>1
      <4> QED BY <1>8, <3>1, <4>1
    <3>2. CASE k = l + 2
      <4>1. l + 1 \in 0 .. l + 1
        OBVIOUS
      <4> QED BY <1>10, <3>2, <4>1
    <3> QED BY <1>11, <3>1, <3>2
  <2> QED BY <1>7, <2>1 DEF AnswerAt
<1>13. \A j, k \in Carriers' : AnswerAt(d, j)' /\ AnswerAt(d, k)' /\ F[j] = F[k] => j = k
  <2> SUFFICES ASSUME NEW j \in 0 .. l + 2, NEW k \in 0 .. l + 2, AnswerAt(d, j)', AnswerAt(d, k)',
                      F[j] = F[k]
               PROVE  j = k
    BY <1>7
  <2>1. \/ j \in 0 .. l /\ F[j] = j
        \/ j = l + 2 /\ F[j] = l + 1
    BY <1>8, <1>10, <1>11
  <2>2. \/ k \in 0 .. l /\ F[k] = k
        \/ k = l + 2 /\ F[k] = l + 1
    BY <1>8, <1>10, <1>11
  <2> QED BY <2>1, <2>2
<1> QED BY <1>12, <1>13

LEMMA ConsumedCarriers ==
  ASSUME TypeOK, consume, NEW d \in Client
  PROVE  \E F : /\ \A k \in Carriers' : AnswerAt(d, k)' =>
                      F[k] \in Carriers /\ AnswerAt(d, F[k]) /\ Carried(k)' = Carried(F[k])
                /\ \A j, k \in Carriers' : AnswerAt(d, j)' /\ AnswerAt(d, k)' /\ F[j] = F[k] => j = k
<1>1. /\ outgoing_buffer # << >> /\ outgoing_buffer' = Tail(outgoing_buffer)
      /\ element' \in {NULL, Head(outgoing_buffer)} /\ response' = response
      /\ outgoing_buffer \in Seq(Sendable)
  BY DEF consume, mainVars, TypeOK, QueuesTypeOK
<1>2. PICK b : b = outgoing_buffer'
  OBVIOUS
<1>3. PICK l \in Nat : l = Len(b)
  BY <1>1, <1>2
<1>4. /\ Len(outgoing_buffer) = l + 1 /\ Head(outgoing_buffer) = outgoing_buffer[1]
      /\ \A k \in 1 .. l : b[k] = outgoing_buffer[k + 1]
  BY <1>1, <1>2, <1>3
<1>5. PICK F : F = [k \in 0 .. l + 1 |-> k + 1]
  OBVIOUS
<1>6. Carriers = 0 .. l + 2 /\ Carriers' = 0 .. l + 1
  <2>1. (l + 1) + 1 = l + 2
    OBVIOUS
  <2> QED BY <1>2, <1>3, <1>4, <2>1 DEF Carriers
<1>7. ASSUME NEW k \in 0 .. l + 1, AnswerAt(d, k)'
      PROVE  F[k] \in Carriers /\ AnswerAt(d, F[k]) /\ Carried(k)' = Carried(F[k])
  <2>1. F[k] = k + 1 /\ k + 1 \in 0 .. l + 2 /\ k + 1 # 0
    BY <1>5
  <2>2. Carried(k)' = Carried(k + 1)
    <3>1. CASE k = 0
      <4>1. Carried(k)' = element' /\ element' # NULL
        BY <1>7, <3>1 DEF Carried, AnswerAt
      <4>2. k + 1 = 1 /\ 1 \in 1 .. l + 1 /\ 1 # 0
        BY <3>1
      <4>3. Carried(1) = outgoing_buffer[1]
        BY <1>4, <4>2 DEF Carried
      <4> QED BY <1>1, <1>4, <4>1, <4>2, <4>3
    <3>2. CASE k \in 1 .. l
      <4>1. k # 0 /\ k + 1 \in 1 .. l + 1
        BY <3>2
      <4> QED BY <1>2, <1>3, <1>4, <2>1, <3>2, <4>1 DEF Carried
    <3>3. CASE k = l + 1
      <4>1. k # 0 /\ k \notin 1 .. l /\ k + 1 \notin 1 .. l + 1
        BY <3>3
      <4> QED BY <1>1, <1>2, <1>3, <1>4, <2>1, <4>1 DEF Carried
    <3> QED BY <3>1, <3>2, <3>3
  <2> QED BY <1>6, <1>7, <2>1, <2>2 DEF AnswerAt
<1>8. \A j, k \in 0 .. l + 1 : F[j] = F[k] => j = k
  BY <1>5
<1> QED BY <1>6, <1>7, <1>8

LEMMA PairsAppended ==
  ASSUME NEW S, NEW s \in Seq(Piece(S)), NEW q \in Seq(S), NEW item \in S, Pairs(s, q)
  PROVE  Pairs(s \o Whole(item), Append(q, item)) /\ Append(q, item) \in Seq(S)
<1>1. PICK w : w = Whole(item)
  OBVIOUS
<1>2. w \in Seq(Piece(S)) /\ Len(w) = 2 /\ w[1] = FrontOf(item) /\ w[2] = RestOf(item)
  BY <1>1, WholeIs
<1>3. PICK u : u = s \o w
  OBVIOUS
<1>4. /\ u \in Seq(Piece(S)) /\ Len(u) = Len(s) + Len(w)
      /\ \A i \in 1 .. Len(s) + Len(w) : u[i] = IF i <= Len(s) THEN s[i] ELSE w[i - Len(s)]
  BY ONLY <1>2, <1>3, ConcatProperties
<1>5. PICK l \in Nat : l = Len(q)
  OBVIOUS
<1>6. Len(s) = 2 * l /\ \A j \in 1 .. l : s[2 * j - 1] = FrontOf(q[j]) /\ s[2 * j] = RestOf(q[j])
  BY <1>5 DEF Pairs
<1>7. PICK r : r = Append(q, item)
  OBVIOUS
<1>8. /\ r \in Seq(S) /\ Len(r) = l + 1 /\ r[l + 1] = item
      /\ \A j \in 1 .. l : r[j] = q[j]
  BY <1>5, <1>7, AppendProperties
<1>9. Len(u) = 2 * (l + 1) /\ \A i \in 1 .. 2 * l + 2 : u[i] = IF i <= 2 * l THEN s[i] ELSE w[i - 2 * l]
  <2>1. 2 * l + 2 = 2 * (l + 1)
    OBVIOUS
  <2> QED BY <1>2, <1>4, <1>6, <2>1
<1>10. ASSUME NEW j \in 1 .. l + 1
       PROVE  u[2 * j - 1] = FrontOf(r[j]) /\ u[2 * j] = RestOf(r[j])
  <2>1. CASE j <= l
    <3>1. /\ j \in 1 .. l /\ 2 * j - 1 \in 1 .. 2 * l + 2 /\ 2 * j \in 1 .. 2 * l + 2
          /\ 2 * j - 1 <= 2 * l /\ 2 * j <= 2 * l
      BY <2>1
    <3>2. u[2 * j - 1] = s[2 * j - 1] /\ u[2 * j] = s[2 * j]
      BY <1>9, <3>1
    <3> QED BY <1>6, <1>8, <3>1, <3>2
  <2>2. CASE j = l + 1
    <3>1. /\ 2 * j - 1 \in 1 .. 2 * l + 2 /\ 2 * j \in 1 .. 2 * l + 2
          /\ ~(2 * j - 1 <= 2 * l) /\ ~(2 * j <= 2 * l)
          /\ 2 * j - 1 - 2 * l = 1 /\ 2 * j - 2 * l = 2
      BY <2>2
    <3>2. u[2 * j - 1] = w[1] /\ u[2 * j] = w[2]
      BY <1>9, <3>1
    <3> QED BY <1>2, <1>8, <2>2, <3>2
  <2>3. j <= l \/ j = l + 1
    OBVIOUS
  <2> QED BY <2>1, <2>2, <2>3
<1>11. Pairs(u, r)
  BY <1>8, <1>9, <1>10 DEF Pairs
<1> QED BY <1>1, <1>3, <1>7, <1>8, <1>11

LEMMA SentTo ==
  ASSUME TypeOK, send_to_client, NEW d \in Client, d = Head(to_send), FineOf(d), Clear(d), Clear(d)',
         sent_to' # sent_to
  PROVE  FineOf(d)'
<1>1. /\ element # NULL /\ element \in Sendable
      /\ UNCHANGED <<client, command, receive_buffer, shown, sent, asked, to_broker, main, to_visit,
                     batch, executed, response, outgoing_buffer, cut_in>>
      /\ element.kind = "answer" => to_send = <<element.to>>
      /\ element' = IF to_send' = << >> THEN NULL ELSE element
      /\ to_send' = Tail(to_send)
  BY DEF send_to_client, clientVars, mainVars, TypeOK, QueuesTypeOK
<1>2. PICK room : room = ClientBuffer - Len(to_client[d])
  OBVIOUS
<1>3. /\ to_client' = [to_client EXCEPT ![d] =
                          @ \o (IF room = 1 THEN <<FrontOf(element)>> ELSE Whole(element))]
      /\ cut_out' = [cut_out EXCEPT ![d] = @ \/ room = 1]
      /\ sent_to' = [sent_to EXCEPT ![d] = Append(@, element)]
  BY <1>2 DEF send_to_client
<1>4. room # 1
  <2>1. cut_out'[d] <=> cut_out[d] \/ room = 1
    BY <1>3 DEF TypeOK, WiresTypeOK
  <2> QED BY <2>1 DEF Clear
<1>5. PICK s \in Seq(Piece(Sendable)) : s = to_client[d]
  BY DEF TypeOK, WiresTypeOK
<1>6. to_client'[d] = s \o Whole(element)
  <2>1. to_client' = [to_client EXCEPT ![d] = s \o Whole(element)]
    BY <1>3, <1>4, <1>5
  <2> QED BY <2>1 DEF TypeOK, WiresTypeOK
<1>7. PICK z \in Seq(Sendable) : z = sent_to[d]
  BY DEF TypeOK, WiresTypeOK
<1>8. sent_to'[d] = Append(z, element) /\ ToSet(Append(z, element)) = ToSet(z) \cup {element}
  <2>1. sent_to' = [sent_to EXCEPT ![d] = Append(z, element)]
    BY <1>3, <1>7
  <2>2. sent_to'[d] = Append(z, element)
    BY <2>1 DEF TypeOK, WiresTypeOK
  <2> QED BY <1>1, <2>2, AppendedElements
<1>9. PICK q \in Seq(Sendable) : Pairs(s, q) /\ z = shown[d] \o q
  BY <1>5, <1>7 DEF FineOf, ShownOf
<1>10. ShownOf(d)'
  <2>1. PICK more \in Seq(Sendable) : more = Append(q, element)
    <3>1. element \in Sendable
      BY <1>1
    <3>2. Append(q, element) \in Seq(Sendable)
      BY <3>1, AppendProperties
    <3> QED BY <3>2
  <2>2. Pairs(s \o Whole(element), more)
    BY <1>1, <1>5, <1>9, <2>1, PairsAppended
  <2>3. PICK h \in Seq(Sendable \cup {Misread}) : h = shown[d]
    BY DEF TypeOK, ClientTypeOK
  <2>4. Append(h \o q, element) = h \o more
    <3>1. /\ h \in Seq(Sendable \cup {Misread}) /\ q \in Seq(Sendable \cup {Misread})
          /\ <<element>> \in Seq(Sendable \cup {Misread})
      BY <1>1
    <3>2. h \o (q \o <<element>>) = (h \o q) \o <<element>>
      BY ONLY <3>1, Regrouped
    <3>3. Append(q, element) = q \o <<element>>
      BY <1>1, AppendIsConcat
    <3>4. Append(h \o q, element) = (h \o q) \o <<element>>
      <4>1. PICK x : x = h \o q
        OBVIOUS
      <4>2. x \in Seq(Sendable \cup {Misread}) /\ element \in Sendable \cup {Misread}
        BY <1>1, <3>1, <4>1, ConcatProperties
      <4>3. Append(x, element) = x \o <<element>>
        BY ONLY <4>2, AppendIsConcat
      <4> QED BY <4>1, <4>3
    <3> QED BY <2>1, <3>2, <3>3, <3>4
  <2>5. sent_to'[d] = shown'[d] \o more /\ Pairs(to_client'[d], more)
    BY <1>1, <1>6, <1>8, <1>9, <2>2, <2>3, <2>4
  <2> QED BY <2>5 DEF ShownOf
<1>11. Questions(d)' = Questions(d)
  BY <1>1 DEF Questions, Held, Executing
<1>12. QuestionsOf(d)'
  BY <1>1, <1>11 DEF FineOf, QuestionsOf
<1>13. \A k \in Carriers' : AnswerAt(d, k)' => k \in Carriers /\ AnswerAt(d, k)
  <2> SUFFICES ASSUME NEW k \in Carriers', AnswerAt(d, k)' PROVE k \in Carriers /\ AnswerAt(d, k)
    OBVIOUS
  <2>1. k \in Carriers
    BY <1>1 DEF Carriers
  <2>2. Carried(k)' = Carried(k)
    BY <1>1 DEF Carried, AnswerAt
  <2> QED BY <2>1, <2>2 DEF AnswerAt
<1>14. CASE element.kind = "answer"
  <2>1. d = element.to /\ element' = NULL
    <3>1. to_send = <<element.to>>
      BY <1>1, <1>14
    <3>2. \A x : Head(<<x>>) = x /\ Tail(<<x>>) = << >>
      OBVIOUS
    <3> QED BY <1>1, <3>1, <3>2
  <2>2. 0 \in Carriers /\ AnswerAt(d, 0) /\ Carried(0) = element
    <3>1. 0 \in Carriers
      <4>1. PICK l \in Nat : l = Len(outgoing_buffer)
        BY DEF TypeOK, QueuesTypeOK
      <4>2. 0 \in 0 .. l + 1
        OBVIOUS
      <4> QED BY <4>1, <4>2 DEF Carriers
    <3> QED BY <1>1, <1>14, <2>1, <3>1 DEF AnswerAt, Carried
  <2>3. /\ Answered(d) /\ element = Answer(d, command[d]) /\ s = << >>
        /\ \A j \in Carriers : AnswerAt(d, j) => j = 0
    <3>1. element \in ToSet(sent_to'[d])
      BY <1>8
    <3>2. ~cut_in[d]
      BY <1>1, <1>14, <3>1 DEF Clear, OnlySent
    <3> QED BY <1>5, <2>2, <3>2 DEF FineOf, AnswersOf
  <2>4. AnswersOf(d)'
    <3>1. ~AnswerAt(d, 0)'
      BY <2>1 DEF AnswerAt, Carried
    <3>2. \A k \in Carriers' : ~AnswerAt(d, k)'
      BY <1>13, <2>3, <3>1
    <3> QED BY <3>2 DEF AnswersOf
  <2>5. asked'[d] /\ Answered(d)'
    BY <1>1, <2>3 DEF Answered, TypeOK, ClientTypeOK
  <2>6. to_client'[d] = Whole(Answer(d, command[d]))
    <3>1. << >> \o Whole(element) = Whole(element)
      <4>1. Whole(element) \in Seq(Piece(Sendable))
        BY <1>1, WholeIs
      <4> QED BY <4>1, ConcatEmptySeq
    <3> QED BY <1>6, <2>3, <3>1
  <2>7. ArrivesOf(d)'
    <3>1. Whole(Answer(d, command[d]))' = Whole(Answer(d, command[d]))
      BY <1>1 DEF Whole, FrontOf, RestOf, Answer
    <3> QED BY <2>5, <2>6, <3>1 DEF ArrivesOf
  <2> QED BY <1>10, <1>12, <2>4, <2>7 DEF FineOf
<1>15. CASE element.kind # "answer"
  <2>1. element.kind = "message"
    BY <1>1, <1>15, Kinds DEF Sendable
  <2>2. ~asked'[d] /\ ~asked[d]
    <3>1. element \in ToSet(sent_to'[d])
      BY <1>8
    <3> QED BY <1>1, <2>1, <3>1 DEF Clear, OnlySent
  <2>3. client[d] # "ask"
    BY <2>2 DEF TypeOK, ClientTypeOK
  <2>4. AnswersOf(d)'
    BY <1>1, <1>13, <2>3, QuietIs DEF AnswersOf
  <2>5. ArrivesOf(d)'
    <3>1. receive_buffer'[d] = << >> /\ \A item \in ToSet(z) : item.kind = "message"
      BY <1>1, <1>7, <2>2 DEF FineOf, ArrivesOf
    <3> QED BY <1>8, <2>1, <2>2, <3>1 DEF ArrivesOf
  <2> QED BY <1>10, <1>12, <2>4, <2>5 DEF FineOf
<1> QED BY <1>14, <1>15

LEMMA ThreadAnswers ==
  ASSUME TypeOK, produce \/ ConsumerStep \/ receive_notifications,
         NEW d \in Client, FineOf(d), Clear(d), Clear(d)'
  PROVE  FineOf(d)'
<1>1. /\ UNCHANGED <<client, command, receive_buffer, shown, sent, asked, to_broker, main, to_visit,
                     batch, executed, response, cut_in>>
  BY DEF produce, ConsumerStep, consume, send_to_client, receive_notifications, clientVars, mainVars
<1>2. Questions(d)' \subseteq Questions(d) /\ ToSet(executed[d]) \subseteq ToSet(executed'[d])
  BY <1>1 DEF Questions, Held, Executing
<1>3. CASE produce
  <2>1. UNCHANGED <<to_client[d], sent_to[d]>>
    BY <1>3 DEF produce, consumerVars
  <2>2. PICK F : /\ \A k \in Carriers' : AnswerAt(d, k)' =>
                      F[k] \in Carriers /\ AnswerAt(d, F[k]) /\ Carried(k)' = Carried(F[k])
                 /\ \A j, k \in Carriers' : AnswerAt(d, j)' /\ AnswerAt(d, k)' /\ F[j] = F[k] => j = k
    BY <1>3, ProducedCarriers
  <2> QED BY <1>1, <1>2, <2>1, <2>2, FineCarried
<1>4. CASE consume
  <2>1. UNCHANGED <<to_client[d], sent_to[d]>>
    BY <1>4 DEF consume
  <2>2. PICK F : /\ \A k \in Carriers' : AnswerAt(d, k)' =>
                      F[k] \in Carriers /\ AnswerAt(d, F[k]) /\ Carried(k)' = Carried(F[k])
                 /\ \A j, k \in Carriers' : AnswerAt(d, j)' /\ AnswerAt(d, k)' /\ F[j] = F[k] => j = k
    BY <1>4, ConsumedCarriers
  <2> QED BY <1>1, <1>2, <2>1, <2>2, FineCarried
<1>5. CASE send_to_client /\ d = Head(to_send) /\ sent_to' # sent_to
  BY <1>5, SentTo
<1>6. CASE send_to_client /\ (d # Head(to_send) \/ sent_to' = sent_to)
  <2>1. element' \in {NULL, element} /\ outgoing_buffer' = outgoing_buffer /\ Head(to_send) \in Client
    BY <1>6 DEF send_to_client, TypeOK, QueuesTypeOK
  <2>2. UNCHANGED <<to_client[d], sent_to[d]>>
    <3>1. CASE d # Head(to_send)
      BY <1>6, <2>1, <3>1 DEF send_to_client, TypeOK, WiresTypeOK
    <3>2. CASE d = Head(to_send)
      <4>1. sent_to' = sent_to
        BY <1>6, <3>2
      <4>2. Append(sent_to[d], element) # sent_to[d]
        <5>1. PICK z \in Seq(Sendable) : z = sent_to[d]
          BY DEF TypeOK, WiresTypeOK
        <5>2. element \in Sendable
          BY <1>6 DEF send_to_client, TypeOK, QueuesTypeOK
        <5>3. Len(Append(z, element)) = Len(z) + 1 /\ Len(z) \in Nat
          BY <5>2, AppendProperties
        <5>4. Len(z) + 1 # Len(z)
          BY <5>3
        <5> QED BY <5>1, <5>3, <5>4
      <4>3. sent_to' # [sent_to EXCEPT ![d] = Append(@, element)]
        BY <4>1, <4>2 DEF TypeOK, WiresTypeOK
      <4> QED BY <1>6, <3>2, <4>1, <4>3 DEF send_to_client
    <3> QED BY <3>1, <3>2
  <2>3. PICK F : F = [k \in Carriers |-> k]
    OBVIOUS
  <2>4. \A k \in Carriers : F[k] = k
    BY <2>3
  <2>5. Carriers' = Carriers /\ \A k \in Carriers : AnswerAt(d, k)' => Carried(k)' = Carried(k)
    BY <1>1, <2>1 DEF Carriers, Carried, AnswerAt
  <2>6. \A k \in Carriers' : AnswerAt(d, k)' =>
           F[k] \in Carriers /\ AnswerAt(d, F[k]) /\ Carried(k)' = Carried(F[k])
    BY <2>4, <2>5 DEF AnswerAt
  <2>7. \A j, k \in Carriers' : AnswerAt(d, j)' /\ AnswerAt(d, k)' /\ F[j] = F[k] => j = k
    BY <2>4, <2>5
  <2> QED BY <1>1, <1>2, <2>2, <2>6, <2>7, FineCarried
<1>7. CASE receive_notifications
  <2>1. UNCHANGED <<to_client[d], sent_to[d], element, outgoing_buffer, response>>
    BY <1>7 DEF receive_notifications, consumerVars
  <2> QED BY <1>1, <1>2, <2>1, FineStays
<1> QED BY <1>3, <1>4, <1>5, <1>6, <1>7 DEF ConsumerStep

(* What main takes for a whole command is one that it has received.        *)
LEMMA BatchItems ==
  ASSUME NEW s \in Seq(Piece(Commands)), NEW t \in Scanned(s), NEW b, b = CommandsIn(t),
         NEW j \in 1 .. Len(b), b[j].kind = "command"
  PROVE  \E k \in 1 .. Len(s) : b[j] = s[k].item
<1>1. /\ t \in Seq(Piece(Commands)) /\ Len(t) \in 0 .. Len(s)
      /\ \A k \in 1 .. Len(t) : t[k] = s[k]
  BY ScannedIs
<1>2. PICK k \in 1 .. Len(t) : b[j] = CommandAt(t, k)
  <2>1. PICK p \in [1 .. Len(b) -> 1 .. Len(t)] :
           \A i \in 1 .. Len(b) : p[i] \in Starts(t) /\ b[i] = CommandAt(t, p[i])
    BY <1>1, CommandsInIs
  <2> QED BY <2>1
<1>3. PICK item \in Commands : item = t[k].item
  <2>1. t[k] \in Piece(Commands)
    BY <1>1
  <2> QED BY <2>1 DEF Piece
<1>4. /\ [item EXCEPT !.kind = "rest"].kind = "rest"
      /\ [item EXCEPT !.kind = "cut off"].kind = "cut off"
  BY DEF Commands
<1>5. \/ CommandAt(t, k) = item
      \/ CommandAt(t, k) = [item EXCEPT !.kind = "rest"]
      \/ CommandAt(t, k) = [item EXCEPT !.kind = "cut off"]
  BY <1>3 DEF CommandAt
<1>6. b[j] = item
  BY <1>2, <1>4, <1>5
<1>7. k \in 1 .. Len(s)
  <2>1. Len(s) \in Nat /\ Len(t) \in Nat
    BY <1>1
  <2> QED BY <1>1, <2>1
<1> QED BY <1>1, <1>3, <1>6, <1>7

LEMMA QuestionsReceived ==
  ASSUME TypeOK, main = "receive", to_visit # << >>, NEW c \in Client, c = Head(to_visit),
         Received(c), UNCHANGED <<command, asked, executed>>, CommandsOf(c)', FineOf(c), Clear(c)'
  PROVE  QuestionsOf(c)'
<1>1. /\ main' = "execute" /\ UNCHANGED <<client, connections, to_visit, subscribers>>
      /\ \E portion \in Portions(to_broker[c], BROKER_RECEIVE_BUFFER_SIZE) :
            /\ portion \in Seq(Piece(Commands)) /\ Len(portion) \in 1 .. Len(to_broker[c])
            /\ to_broker' = [to_broker EXCEPT ![c] = Remainder(@, portion)]
            /\ \E scanned \in Scanned(portion) : batch' = CommandsIn(scanned)
            /\ cut_in' = [cut_in EXCEPT ![c] = @ \/ EndsWithin(portion)]
            /\ batch' \in Seq(Commands)
  BY ReceivedIs
<1>2. PICK portion \in Portions(to_broker[c], BROKER_RECEIVE_BUFFER_SIZE) :
            /\ portion \in Seq(Piece(Commands)) /\ Len(portion) \in 1 .. Len(to_broker[c])
            /\ to_broker' = [to_broker EXCEPT ![c] = Remainder(@, portion)]
            /\ \E scanned \in Scanned(portion) : batch' = CommandsIn(scanned)
            /\ cut_in' = [cut_in EXCEPT ![c] = @ \/ EndsWithin(portion)]
            /\ batch' \in Seq(Commands)
  BY <1>1
<1>3. PICK s \in Seq(Piece(Commands)) : s = to_broker[c]
  BY DEF TypeOK, WiresTypeOK
<1>4. PICK p : p = portion
  OBVIOUS
<1>5. PICK r : r = Remainder(s, p)
  OBVIOUS
<1>6. /\ p \in Seq(Piece(Commands)) /\ Len(p) \in 1 .. Len(s) /\ Len(r) = Len(s) - Len(p)
      /\ r \in Seq(Piece(Commands))
      /\ \A k \in 1 .. Len(p) : p[k] = s[k]
      /\ \A k \in 1 .. Len(s) - Len(p) : r[k] = s[k + Len(p)]
  <2>1. s \in Seq(Piece(Commands)) /\ BROKER_RECEIVE_BUFFER_SIZE \in Nat
        /\ p \in Portions(s, BROKER_RECEIVE_BUFFER_SIZE)
    BY <1>3, <1>4, SizesArePositive
  <2>2. /\ Remainder(s, p) \in Seq(Piece(Commands)) /\ Len(Remainder(s, p)) = Len(s) - Len(p)
        /\ \A k \in 1 .. Len(p) : p[k] = s[k]
        /\ \A k \in 1 .. Len(s) - Len(p) : Remainder(s, p)[k] = s[k + Len(p)]
    BY ONLY <2>1, PortionIs
  <2> QED BY <1>2, <1>3, <1>4, <1>5, <2>2
<1>7. to_broker'[c] = r
  <2>1. to_broker' = [to_broker EXCEPT ![c] = r]
    BY <1>2, <1>3, <1>4, <1>5
  <2> QED BY <2>1 DEF TypeOK, WiresTypeOK
<1>8. PICK n \in Nat : n = Len(p)
  <2>1. p \in Seq(Piece(Commands))
    BY <1>6
  <2>2. Len(p) \in Nat
    BY ONLY <2>1
  <2> QED BY <2>2
<1>9. PICK w \in Nat : w = Len(s)
  OBVIOUS
<1>10. \A k \in 1 .. w : s[k].item \in Questions(c)
  BY <1>3, <1>9 DEF Questions
<1>11. n \in 1 .. w
  BY <1>6, <1>8, <1>9
<1>12. ASSUME NEW item \in Questions(c)', ~cut_in'[c]
       PROVE  item \in Questions(c)
  <2>1. CASE \E k \in 1 .. Len(r) : item = r[k].item
    <3>1. PICK k \in 1 .. w - n : item = r[k].item
      BY <1>6, <1>8, <1>9, <2>1
    <3>2. k + n \in 1 .. w /\ r[k] = s[k + n]
      BY <1>6, <1>8, <1>9, <3>1
    <3> QED BY <1>10, <3>1, <3>2
  <2>2. CASE item \in ToSet(batch')
    <3>1. PICK b \in Seq(Commands) : b = batch'
      BY <1>2
    <3>2. PICK j \in 1 .. Len(b) : item = b[j]
      BY <2>2, <3>1 DEF ToSet
    <3>3. PICK scanned \in Scanned(p) : b = CommandsIn(scanned)
      BY <1>2, <1>4, <3>1
    <3>4. b[j].kind = "command"
      <4>1. Held(c)'
        BY <1>1 DEF Held, Executing
      <4>2. PICK e \in Seq(Commands) : e = executed'[c]
        BY DEF TypeOK, MainTypeOK
      <4>3. Clean(e \o b)
        <5>1. Taken(c)' = b
          BY <3>1, <4>1 DEF Taken, Held, Executing
        <5>2. Got(c)' = e \o b
          BY <4>2, <5>1 DEF Got
        <5> QED BY <1>12, <5>2 DEF CommandsOf
      <4>4. /\ Len(e \o b) = Len(e) + Len(b) /\ Len(e) \in Nat /\ Len(b) \in Nat
            /\ (e \o b)[Len(e) + j] = b[j]
        BY <3>2, JoinedIs
      <4>5. Len(e) + j \in 1 .. Len(e \o b)
        BY <3>2, <4>4
      <4> QED BY <4>3, <4>4, <4>5 DEF Clean
    <3>5. PICK k \in 1 .. Len(p) : b[j] = p[k].item
      BY <1>6, <3>2, <3>3, <3>4, BatchItems
    <3>6. k \in 1 .. w /\ p[k] = s[k]
      BY <1>6, <1>8, <1>11
    <3> QED BY <1>10, <3>2, <3>5, <3>6
  <2> QED BY <1>7, <2>1, <2>2 DEF Questions
<1>13. cut_in[c] => cut_in'[c]
  BY <1>2 DEF TypeOK, WiresTypeOK, MainTypeOK
<1> QED BY <1>1, <1>12, <1>13 DEF FineOf, QuestionsOf

LEMMA QuestionExecuted ==
  ASSUME TypeOK, NEW c \in Client, c = Head(to_visit), CommandsOf(c), FineOf(c), Clear(c),
         execute_command,
         UNCHANGED <<command, receive_buffer, shown, sent, asked, to_client, element, sent_to>>
  PROVE  FineOf(c)'
<1>1. /\ main = "execute" /\ batch # << >> /\ batch' = Tail(batch)
      /\ executed' = [executed EXCEPT ![c] = Append(@, Head(batch))]
      /\ UNCHANGED <<client, to_broker, to_visit, outgoing_buffer, cut_in>>
      /\ batch \in Seq(Commands)
  BY DEF execute_command, TypeOK, MainTypeOK
<1>2. Held(c)
  BY <1>1 DEF Held, Executing
<1>3. PICK item \in Commands : item = Head(batch)
  BY <1>1
<1>4. PICK n \in Nat : n = item.number
  BY DEF Commands
<1>5. executed'[c] = Append(executed[c], item) /\ ToSet(executed'[c]) = ToSet(executed[c]) \cup {item}
  <2>1. executed[c] \in Seq(Commands)
    BY DEF TypeOK, MainTypeOK
  <2>2. executed' = [executed EXCEPT ![c] = Append(executed[c], item)]
    BY <1>1, <1>3, <1>4
  <2>3. executed'[c] = Append(executed[c], item)
    BY <2>2 DEF TypeOK, MainTypeOK
  <2> QED BY <2>1, <2>3, AppendedElements
<1>6. item \in ToSet(batch) /\ ToSet(Tail(batch)) \subseteq ToSet(batch)
  <2>1. PICK l \in Nat : l = Len(batch)
    BY <1>1
  <2>2. l # 0
    BY <1>1, <2>1
  <2>3. 1 \in 1 .. l /\ \A k \in 1 .. l - 1 : k + 1 \in 1 .. l
    BY <2>2
  <2>4. PICK t : t = Tail(batch)
    OBVIOUS
  <2>5. t \in Seq(Commands) /\ Len(t) = l - 1 /\ \A k \in 1 .. l - 1 : t[k] = batch[k + 1]
    BY <1>1, <2>1, <2>4
  <2>6. item = batch[1]
    BY <1>1, <1>3
  <2>7. \A k \in 1 .. l : batch[k] \in ToSet(batch)
    BY <1>1, <2>1 DEF ToSet
  <2>8. \A x \in ToSet(t) : \E k \in 1 .. l - 1 : x = t[k]
    BY <2>5 DEF ToSet
  <2>9. ToSet(t) \subseteq ToSet(batch)
    BY <2>3, <2>5, <2>7, <2>8
  <2> QED BY <2>3, <2>4, <2>6, <2>7, <2>9
<1>7. item \in Questions(c)
  BY <1>2, <1>6 DEF Questions
<1>8. Questions(c)' \subseteq Questions(c)
  <2>1. \A x \in Questions(c)' : \/ \E k \in 1 .. Len(to_broker[c]) : x = to_broker[c][k].item
                                 \/ x \in ToSet(Tail(batch))
    BY <1>1 DEF Questions
  <2> QED BY <1>2, <1>6, <2>1 DEF Questions
<1>9. PICK F : F = [k \in Carriers |-> k]
  OBVIOUS
<1>10. Carriers' = Carriers /\ \A k \in Carriers : F[k] = k
  BY <1>1, <1>9 DEF Carriers
<1>11. response = NULL
  BY <1>1 DEF TypeOK, MainTypeOK
<1>12. ASSUME NEW k \in Carriers, Carried(k)' # response' \/ response' = NULL, AnswerAt(c, k)'
       PROVE  Carried(k)' = Carried(k) /\ AnswerAt(c, k)
  <2>1. Carried(k)' = Carried(k)
    BY <1>1, <1>11, <1>12 DEF Carried, AnswerAt
  <2> QED BY <1>12, <2>1 DEF AnswerAt
<1>13. CASE response' = NULL
  <2>1. \A k \in Carriers' : AnswerAt(c, k)' =>
           F[k] \in Carriers /\ AnswerAt(c, F[k]) /\ Carried(k)' = Carried(F[k])
    BY <1>10, <1>12, <1>13
  <2>2. \A j, k \in Carriers' : AnswerAt(c, j)' /\ AnswerAt(c, k)' /\ F[j] = F[k] => j = k
    BY <1>10
  <2>3. ToSet(executed[c]) \subseteq ToSet(executed'[c])
    BY <1>5
  <2> QED BY <1>1, <1>8, <2>1, <2>2, <2>3, FineCarried
<1>14. CASE response' # NULL /\ ~cut_in[c]
  <2>1. PICK meant \in TakenFor(item) : response' = response_to(c, meant)
    BY <1>3 DEF execute_command
  <2>2. meant.operation \in Queries /\ response' = Answer(c, meant)
    BY <1>14, <2>1 DEF response_to
  <2>3. meant = item /\ item.operation \in Queries
    <3>1. item.kind = "command"
      <4>1. 1 \in 1 .. Len(batch) /\ item = batch[1]
        <5>1. Len(batch) \in Nat /\ Len(batch) # 0
          BY <1>1
        <5> QED BY <1>1, <1>3, <5>1
      <4> QED BY <1>2, <1>14, <4>1, HeldIsClean
    <3>2. TakenFor(item) = {item}
      BY <3>1 DEF TakenFor
    <3> QED BY <2>1, <2>2, <3>2
  <2>4. client[c] = "ask" /\ item = command[c]
    BY <1>7, <1>14, <2>3 DEF FineOf, QuestionsOf
  <2>5. asked[c] /\ n = sent[c]
    BY <1>4, <2>4 DEF TypeOK, ClientTypeOK
  <2>6. response' = Answer(c, command[c])
    BY <2>2, <2>3, <2>4
  <2>7. ~Answered(c)
    BY <1>1, <1>2, <1>14, AnsweredIsDone
  <2>8. /\ \A k \in Carriers : ~AnswerAt(c, k)
        /\ to_client[c] = << >>
    BY <1>14, <2>5, <2>7 DEF FineOf, AnswersOf, ArrivesOf
  <2>9. Answered(c)'
    BY <1>1, <1>4, <1>5, <2>4, <2>5 DEF Answered
  <2>10. PICK l \in Nat : l = Len(outgoing_buffer)
    BY DEF TypeOK, QueuesTypeOK
  <2>11. ASSUME NEW k \in Carriers, AnswerAt(c, k)'
         PROVE  k = l + 1 /\ Carried(k)' = Answer(c, command[c])
    <3>1. Carried(k)' = response'
      BY <1>12, <2>8, <2>11
    <3>2. k \in 0 .. l + 1 /\ (k = 0 \/ k \in 1 .. l \/ k = l + 1)
      <4>1. k \in 0 .. l + 1
        BY <2>10 DEF Carriers
      <4> QED BY <4>1
    <3>3. k # 0 /\ k \notin 1 .. l
      <4> SUFFICES ASSUME k = 0 \/ k \in 1 .. l PROVE FALSE
        OBVIOUS
      <4>1. Carried(k)' = Carried(k)
        BY <1>1, <2>10 DEF Carried
      <4> QED BY <2>8, <2>11, <4>1 DEF AnswerAt
    <3> QED BY <2>6, <3>1, <3>2, <3>3
  <2>12. AnswersOf(c)'
    <3>1. Answer(c, command[c])' = Answer(c, command[c])
      BY DEF Answer
    <3> QED BY <1>10, <2>8, <2>9, <2>11, <3>1 DEF AnswersOf
  <2>13. QuestionsOf(c)'
    BY <1>1, <1>8 DEF FineOf, QuestionsOf
  <2>14. ArrivesOf(c)'
    BY <2>5, <2>8 DEF ArrivesOf
  <2>15. ShownOf(c)'
    BY DEF FineOf, ShownOf, Pairs
  <2> QED BY <2>12, <2>13, <2>14, <2>15 DEF FineOf
<1>15. CASE cut_in[c]
  <2>1. QuestionsOf(c)' /\ AnswersOf(c)'
    BY <1>1, <1>15 DEF QuestionsOf, AnswersOf
  <2>2. ~asked[c]
    BY <1>15 DEF Clear
  <2>3. ArrivesOf(c)' /\ ShownOf(c)'
    BY <2>2 DEF FineOf, ArrivesOf, ShownOf, Pairs
  <2> QED BY <2>1, <2>3 DEF FineOf
<1> QED BY <1>13, <1>14, <1>15

LEMMA ProducedAnswer ==
  ASSUME TypeOK, produce_new_message, UNCHANGED element, NEW d \in Client
  PROVE  \E F : /\ \A k \in Carriers' : AnswerAt(d, k)' =>
                      F[k] \in Carriers /\ AnswerAt(d, F[k]) /\ Carried(k)' = Carried(F[k])
                /\ \A j, k \in Carriers' : AnswerAt(d, j)' /\ AnswerAt(d, k)' /\ F[j] = F[k] => j = k
<1>1. /\ outgoing_buffer' = Append(outgoing_buffer, response) /\ response' = NULL
      /\ response \in Sendable /\ outgoing_buffer \in Seq(Sendable)
  BY DEF produce_new_message, TypeOK, MainTypeOK, QueuesTypeOK, Sendable
<1>2. PICK l \in Nat : l = Len(outgoing_buffer)
  BY <1>1
<1>3. PICK b : b = outgoing_buffer'
  OBVIOUS
<1>4. Len(b) = l + 1 /\ b[l + 1] = response /\ \A k \in 1 .. l : b[k] = outgoing_buffer[k]
  <2>1. outgoing_buffer \in Seq(Sendable) /\ response \in Sendable /\ b = Append(outgoing_buffer, response)
    BY <1>1, <1>3
  <2> QED BY ONLY <1>2, <2>1, AppendProperties
<1>5. PICK F : F = [k \in 0 .. l + 2 |-> k]
  OBVIOUS
<1>6. Carriers = 0 .. l + 1 /\ Carriers' = 0 .. l + 2
  <2>1. (l + 1) + 1 = l + 2
    OBVIOUS
  <2> QED BY <1>2, <1>3, <1>4, <2>1 DEF Carriers
<1>7. ASSUME NEW k \in 0 .. l + 2, AnswerAt(d, k)'
      PROVE  k \in 0 .. l + 1 /\ Carried(k)' = Carried(k)
  <2>1. k = 0 \/ k \in 1 .. l \/ k = l + 1 \/ k = l + 2
    OBVIOUS
  <2>2. CASE k = 0
    <3>1. 0 \in 0 .. l + 1
      OBVIOUS
    <3> QED BY <2>2, <3>1 DEF Carried
  <2>3. CASE k \in 1 .. l
    <3>1. k # 0 /\ k \in 1 .. l + 1 /\ k \in 0 .. l + 1
      BY <2>3
    <3> QED BY <1>2, <1>3, <1>4, <2>3, <3>1 DEF Carried
  <2>4. CASE k = l + 1
    <3>1. k # 0 /\ k \in 1 .. l + 1 /\ k \notin 1 .. l /\ k \in 0 .. l + 1
      BY <2>4
    <3>2. Carried(k)' = b[k] /\ Carried(k) = response
      BY <1>2, <1>3, <1>4, <3>1 DEF Carried
    <3> QED BY <1>4, <2>4, <3>1, <3>2
  <2>5. CASE k = l + 2
    <3>1. k # 0 /\ k \notin 1 .. l + 1
      BY <2>5
    <3>2. Carried(k)' = NULL
      BY <1>1, <1>3, <1>4, <3>1 DEF Carried
    <3> QED BY <1>7, <3>2 DEF AnswerAt
  <2> QED BY <2>1, <2>2, <2>3, <2>4, <2>5
<1>8. \A k \in 0 .. l + 2 : F[k] = k
  BY <1>5
<1>9. \A k \in Carriers' : AnswerAt(d, k)' =>
         F[k] \in Carriers /\ AnswerAt(d, F[k]) /\ Carried(k)' = Carried(F[k])
  BY <1>6, <1>7, <1>8 DEF AnswerAt
<1>10. \A j, k \in Carriers' : AnswerAt(d, j)' /\ AnswerAt(d, k)' /\ F[j] = F[k] => j = k
  BY <1>6, <1>8
<1> QED BY <1>9, <1>10

LEMMA MainAnswers ==
  ASSUME TypeOK, CommandsInv, CommandsInv', MainStep, NEW d \in Client,
         ToSet(executed[d]) \subseteq ToSet(executed'[d]), cut_in[d] => cut_in'[d], FineOf(d), Clear(d), Clear(d)'
  PROVE  FineOf(d)'
<1>1. UNCHANGED <<command, receive_buffer, shown, sent, asked, to_client, element, to_send, sent_to>>
  BY DEF MainStep, consumerVars
<1>2. client \in [Client -> ClientState] /\ to_broker \in [Client -> Seq(Piece(Commands))]
  BY DEF TypeOK, ClientTypeOK, WiresTypeOK
<1>3. CASE accept_connection
  <2>1. /\ UNCHANGED <<client, to_broker, main, response, outgoing_buffer>>
        /\ main = "receive"
    BY <1>3 DEF accept_connection, accept_nobody, accept, ServeFrom
  <2>2. Questions(d)' \subseteq Questions(d)
    BY <2>1 DEF Questions, Held, Executing
  <2> QED BY <1>1, <2>1, <2>2, FineStays
<1>4. CASE receive_commands
  <2> DEFINE c == Head(to_visit)
  <2>1. /\ main = "receive" /\ to_visit # << >> /\ c \in Client
        /\ Received(c) \/ NothingReceived(c) \/ ConnectionClosed(c)
        /\ UNCHANGED <<response, outgoing_buffer, executed>>
    BY <1>4 DEF receive_commands, TypeOK, MainTypeOK
  <2> HIDE DEF c
  <2>2. CASE Received(c) /\ d = c
    <3>1. QuestionsOf(d)'
      BY <1>1, <2>1, <2>2, QuestionsReceived DEF c, CommandsInv
    <3>2. client' = client
      BY <2>2 DEF Received
    <3>3. ArrivesOf(d)' /\ ShownOf(d)'
      <4>1. Whole(Answer(d, command[d]))' = Whole(Answer(d, command[d])) /\ (Answered(d) => Answered(d)')
        BY <1>1, <2>1, <3>2 DEF Whole, FrontOf, RestOf, Answer, Answered
      <4> QED BY <1>1, <4>1 DEF FineOf, ArrivesOf, ShownOf, Pairs
    <3>4. AnswersOf(d)'
      <4>1. PICK F : /\ \A k \in Carriers' : AnswerAt(d, k)' =>
                           F[k] \in Carriers /\ AnswerAt(d, F[k]) /\ Carried(k)' = Carried(F[k])
                     /\ \A j, k \in Carriers' : AnswerAt(d, j)' /\ AnswerAt(d, k)' /\ F[j] = F[k] => j = k
        BY <1>1, <2>1, CarriersStay
      <4> QED BY <1>1, <2>1, <3>2, <4>1, AnswersKept DEF FineOf
    <3> QED BY <3>1, <3>3, <3>4 DEF FineOf
  <2>3. CASE Received(c) /\ d # c
    <3>1. /\ client' = client /\ to_visit' = to_visit
          /\ \E x : to_broker' = [to_broker EXCEPT ![c] = x]
      BY <2>3 DEF Received
    <3>2. to_broker'[d] = to_broker[d] /\ ~Held(d)'
      BY <1>2, <2>1, <2>3, <3>1 DEF Held, c
    <3>3. Questions(d)' \subseteq Questions(d)
      BY <3>2 DEF Questions
    <3> QED BY <1>1, <2>1, <3>1, <3>3, FineStays
  <2>4. CASE NothingReceived(c)
    <3>1. UNCHANGED <<client, to_broker, main>>
      BY <2>4 DEF NothingReceived
    <3>2. Questions(d)' \subseteq Questions(d)
      BY <2>1, <3>1 DEF Questions, Held, Executing
    <3> QED BY <1>1, <2>1, <3>1, <3>2, FineStays
  <2>5. CASE ConnectionClosed(c)
    <3>1. /\ UNCHANGED <<to_broker, main>> /\ client[c] = "exited"
          /\ client' = [client EXCEPT ![c] = "gone"]
      BY <2>5 DEF ConnectionClosed, ClientAt
    <3>2. Questions(d)' \subseteq Questions(d)
      BY <2>1, <3>1 DEF Questions, Held, Executing
    <3>3. CASE d = c
      BY <1>1, <2>1, <3>1, <3>2, <3>3, QuietStays
    <3>4. CASE d # c
      <4>1. client'[d] = client[d]
        BY <1>2, <2>1, <3>1, <3>4
      <4> QED BY <1>1, <2>1, <3>2, <4>1, FineStays
    <3> QED BY <3>3, <3>4
  <2> QED BY <2>1, <2>2, <2>3, <2>4, <2>5
<1>5. CASE execute_command
  <2>1. CASE d = Head(to_visit)
    BY <1>1, <1>5, <2>1, QuestionExecuted DEF CommandsInv
  <2>2. CASE d # Head(to_visit)
    <3>1. /\ UNCHANGED <<client, to_broker, to_visit, outgoing_buffer>>
          /\ response = NULL
      BY <1>5 DEF execute_command, TypeOK, MainTypeOK
    <3>2. Questions(d)' \subseteq Questions(d)
      BY <2>2, <3>1 DEF Questions, Held
    <3>3. response' = NULL \/ response'.to # d
      <4>1. PICK meant : response' = response_to(Head(to_visit), meant)
        BY <1>5 DEF execute_command
      <4>2. Answer(Head(to_visit), meant).to = Head(to_visit)
        BY DEF Answer
      <4> QED BY <2>2, <4>1, <4>2 DEF response_to
    <3>4. PICK F : F = [k \in Carriers |-> k]
      OBVIOUS
    <3>5. Carriers' = Carriers /\ \A k \in Carriers : F[k] = k
      BY <3>1, <3>4 DEF Carriers
    <3>6. ASSUME NEW k \in Carriers, AnswerAt(d, k)'
          PROVE  AnswerAt(d, k) /\ Carried(k)' = Carried(k)
      <4>1. Carried(k)' # response'
        BY <3>3, <3>6 DEF AnswerAt
      <4>2. Carried(k)' = Carried(k)
        BY <1>1, <3>1, <4>1 DEF Carried
      <4> QED BY <3>6, <4>2 DEF AnswerAt
    <3>7. \A k \in Carriers' : AnswerAt(d, k)' =>
             F[k] \in Carriers /\ AnswerAt(d, F[k]) /\ Carried(k)' = Carried(F[k])
      BY <3>5, <3>6
    <3>8. \A j, k \in Carriers' : AnswerAt(d, j)' /\ AnswerAt(d, k)' /\ F[j] = F[k] => j = k
      BY <3>5
    <3> QED BY <1>1, <3>1, <3>2, <3>7, <3>8, FineCarried
  <2> QED BY <2>1, <2>2
<1>6. CASE batch_ends
  <2>1. UNCHANGED <<client, to_broker, response, outgoing_buffer>> /\ main' = "receive"
    BY <1>6 DEF batch_ends
  <2>2. Questions(d)' \subseteq Questions(d)
    BY <2>1 DEF Questions, Held, Executing
  <2> QED BY <1>1, <2>1, <2>2, FineStays
<1>7. CASE /\ send_to_stats_manager \/ produce_new_message
           /\ UNCHANGED <<client, to_broker, connections, to_visit, batch, subscribers, queue,
                          left_in_buffer, broken, executed, published, cut_in, lost>>
  <2>1. Executing
    BY <1>7 DEF send_to_stats_manager, produce_new_message, Executing
  <2>2. Questions(d)' \subseteq Questions(d)
    BY <1>7, <2>1 DEF Questions, Held
  <2>3. CASE send_to_stats_manager
    <3>1. UNCHANGED <<response, outgoing_buffer>>
      BY <2>3 DEF send_to_stats_manager
    <3> QED BY <1>1, <1>7, <2>2, <3>1, FineStays
  <2>4. CASE produce_new_message
    <3>1. PICK F : /\ \A k \in Carriers' : AnswerAt(d, k)' =>
                         F[k] \in Carriers /\ AnswerAt(d, F[k]) /\ Carried(k)' = Carried(F[k])
                   /\ \A j, k \in Carriers' : AnswerAt(d, j)' /\ AnswerAt(d, k)' /\ F[j] = F[k] => j = k
      BY <1>1, <2>4, ProducedAnswer
    <3> QED BY <1>1, <1>7, <2>2, <3>1, FineCarried
  <2> QED BY <1>7, <2>3, <2>4
<1> QED BY <1>3, <1>4, <1>5, <1>6, <1>7 DEF MainStep

LEMMA AnswersStep ==
  ASSUME TypeOK, CommandsInv, CommandsInv', AnswersInv, [Next]_vars
  PROVE  AnswersInv'
<1> SUFFICES ASSUME NEW d \in Client, Clear(d)' PROVE FineOf(d)'
  BY DEF AnswersInv, ClearOf, FineOf
<1>1. Clear(d)
  BY ClearBefore
<1>2. FineOf(d)
  BY <1>1 DEF AnswersInv, ClearOf, FineOf
<1>3. ToSet(executed[d]) \subseteq ToSet(executed'[d]) /\ (cut_in[d] => cut_in'[d])
  BY HistoryGrows
<1>4. CASE \E c \in Client : ClientUser(c) \/ ClientProgram(c)
  BY <1>1, <1>2, <1>4, ClientAnswers
<1>5. CASE MainStep
  BY <1>1, <1>2, <1>3, <1>5, MainAnswers
<1>6. CASE produce \/ ConsumerStep \/ receive_notifications
  BY <1>1, <1>2, <1>6, ThreadAnswers
<1>7. CASE UNCHANGED vars
  <2>1. Questions(d)' \subseteq Questions(d)
    BY <1>7 DEF vars, clientVars, mainVars, Questions, Held, Executing
  <2> QED BY <1>2, <1>3, <1>7, <2>1, FineStays DEF vars, clientVars, mainVars, consumerVars
<1> QED BY <1>4, <1>5, <1>6, <1>7 DEF Next

LEMMA AnswersImply == TypeOK /\ FrontsInv /\ AnswersInv => ShownAsSent
<1> SUFFICES ASSUME TypeOK, FrontsInv, AnswersInv, NEW c \in Client
             PROVE  /\ \A item \in ToSet(shown[c]) \ {Misread} :
                          Times(item, shown[c]) <= Times(item, sent_to[c])
                    /\ /\ ~cut_out[c]
                       /\ asked[c] => ~cut_in[c] /\ OnlySent(c, "answer")
                       /\ cut_in[c] => OnlySent(c, "message")
                       => sent_to[c] = shown[c] \o Strings(to_client[c])
  BY DEF ShownAsSent
<1>1. /\ shown[c] \in Seq(Sendable \cup {Misread}) /\ to_client[c] \in Seq(Piece(Sendable))
      /\ receive_buffer[c] \in Seq(Piece(Sendable)) /\ sent_to[c] \in Seq(Sendable)
  BY DEF TypeOK, ClientTypeOK, WiresTypeOK
<1>2. ASSUME NEW item \in ToSet(shown[c]) \ {Misread}
      PROVE  Times(item, shown[c]) <= Times(item, sent_to[c])
  <2>1. item \in Sendable
    BY <1>1, <1>2 DEF ToSet
  <2>2. /\ Cardinality(Places(shown[c], item)) \in Nat
        /\ Cardinality(Places(to_client[c], FrontOf(item))) \in Nat
        /\ Cardinality(Places(Behind(receive_buffer[c]), FrontOf(item))) \in Nat
        /\ Cardinality(Places(sent_to[c], item)) \in Nat
    BY <1>1, PlacesAreFinite, BehindIs
  <2>3. Cardinality(Places(shown[c], item)) + Cardinality(Places(to_client[c], FrontOf(item)))
          + Cardinality(Places(Behind(receive_buffer[c]), FrontOf(item)))
        <= Cardinality(Places(sent_to[c], item))
    BY <2>1 DEF FrontsInv
  <2>4. Cardinality(Places(shown[c], item)) <= Cardinality(Places(sent_to[c], item))
    BY <2>2, <2>3
  <2> QED BY <2>4 DEF Times, Places
<1>3. ASSUME Clear(c)
      PROVE  sent_to[c] = shown[c] \o Strings(to_client[c])
  <2>1. PICK q \in Seq(Sendable) : Pairs(to_client[c], q) /\ sent_to[c] = shown[c] \o q
    BY <1>3 DEF AnswersInv, ClearOf, ShownOf
  <2>2. Strings(to_client[c]) = q
    BY <1>1, <2>1, PairsInARow
  <2> QED BY <2>1, <2>2
<1> QED BY <1>2, <1>3 DEF Clear

(* No string is shown to a user more often than it was sent to him; and he *)
(* is shown all that was sent to him, in order, and every answer for the   *)
(* question it answers, unless something on its way to him was sent or     *)
(* received in two parts, if he never asks and is only sent messages, or   *)
(* if no command of his was received in two parts and he never asks or is  *)
(* only sent answers.                                                      *)
THEOREM UsersAreShownWhatWasSent == Spec => []ShownAsSent
<1> DEFINE Inv == TypeOK /\ CommandsInv /\ FrontsInv /\ AnswersInv
<1>1. Init => Inv
  BY TypesInit, CommandsInit, FrontsInit, AnswersInit
<1>2. Inv /\ [Next]_vars => Inv'
  BY TypesStep, CommandsStep, FrontsStep, AnswersStep
<1>3. Inv => ShownAsSent
  BY AnswersImply
<1> HIDE DEF Inv
<1> QED BY <1>1, <1>2, <1>3, PTL DEF Spec
=============================================================================
