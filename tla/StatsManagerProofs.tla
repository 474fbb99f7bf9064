------------------------- MODULE StatsManagerProofs -------------------------
(* For any kinds and topics and any number of notifications, restarts and  *)
(* failures: what the StatsManager has on record is what the broker told   *)
(* it.                                                                     *)
EXTENDS StatsManager, RosterLemmas

-----------------------------------------------------------------------------
(* Totals: the total of two counts, of none, and of one counter more.      *)
LEMMA NumberedIsFinite ==
  ASSUME NEW f \in Counts
  PROVE  IsFiniteSet(Numbered(f))
<1> DEFINE Of(n) == {n} \X (1 .. f[n])
<1>1. IsFiniteSet(Notification)
  BY StatsManagerAssumption
<1>2. IsFiniteSet({Of(n) : n \in Notification})
  <2> DEFINE F == [n \in Notification |-> Of(n)]
             T == {Of(n) : n \in Notification}
  <2>1. F \in Surjection(Notification, T)
    BY DEF Surjection
  <2> HIDE DEF F, T
  <2>2. IsFiniteSet(T)
    BY <1>1, <2>1, FS_Surjection
  <2> QED BY <2>2 DEF T
<1>3. \A n \in Notification : IsFiniteSet(Of(n))
  <2> TAKE n \in Notification
  <2>1. f[n] \in Int
    BY DEF Counts
  <2>2. IsFiniteSet({n})
    BY FS_Singleton
  <2>3. IsFiniteSet(1 .. f[n])
    BY <2>1, FS_Interval
  <2> QED BY <2>2, <2>3, FS_Product
<1> HIDE DEF Of
<1>4. \A T \in {Of(n) : n \in Notification} : IsFiniteSet(T)
  BY <1>3
<1>5. IsFiniteSet(UNION {Of(n) : n \in Notification})
  BY ONLY <1>2, <1>4, FS_UNION
<1> QED BY <1>5 DEF Of, Numbered

LEMMA NumberedElements ==
  ASSUME NEW f \in Counts, NEW n, NEW k
  PROVE  <<n, k>> \in Numbered(f) <=> n \in Notification /\ k \in 1 .. f[n]
BY DEF Numbered, Counts

LEMMA NumberedArePairs ==
  ASSUME NEW f \in Counts, NEW x \in Numbered(f)
  PROVE  \E n \in Notification, k \in Nat : x = <<n, k>> /\ k \in 1 .. f[n]
BY DEF Numbered, Counts

LEMMA TotalType ==
  ASSUME NEW f \in Counts
  PROVE  Total(f) \in Nat
BY NumberedIsFinite, FS_CardinalityType DEF Total

LEMMA ZeroIsNothing == Zero \in Counts /\ Total(Zero) = 0
<1>1. Zero \in Counts
  BY DEF Zero, Counts
<1>2. Numbered(Zero) = {}
  BY DEF Zero, Numbered
<1> QED BY <1>1, <1>2, FS_EmptySet DEF Total

LEMMA TotalsAddUp ==
  ASSUME NEW f \in Counts, NEW g \in Counts
  PROVE  Plus(f, g) \in Counts /\ Total(Plus(f, g)) = Total(f) + Total(g)
<1> DEFINE h == Plus(f, g)
           B == Numbered(h) \ Numbered(f)
           shift == [x \in Numbered(g) |-> <<x[1], f[x[1]] + x[2]>>]
<1>1. h \in Counts /\ \A n \in Notification : h[n] = f[n] + g[n] /\ h[n] \in Nat
                                              /\ f[n] \in Nat /\ g[n] \in Nat
  BY DEF Counts, Plus
<1> HIDE DEF h
<1>2. IsFiniteSet(Numbered(f)) /\ IsFiniteSet(Numbered(g)) /\ IsFiniteSet(Numbered(h))
  BY <1>1, NumberedIsFinite
<1>3. Numbered(f) \subseteq Numbered(h)
  <2> SUFFICES ASSUME NEW x \in Numbered(f) PROVE x \in Numbered(h)
    OBVIOUS
  <2>1. PICK n \in Notification, k \in Nat : x = <<n, k>> /\ k \in 1 .. f[n]
    BY NumberedArePairs
  <2>2. k \in 1 .. h[n]
    BY <1>1, <2>1
  <2> QED BY <1>1, <2>1, <2>2, NumberedElements
<1>4. \A x \in Numbered(g) : shift[x] \in B
  <2> TAKE x \in Numbered(g)
  <2>1. PICK n \in Notification, k \in Nat : x = <<n, k>> /\ k \in 1 .. g[n]
    BY NumberedArePairs
  <2>2. shift[x] = <<n, f[n] + k>>
    BY <2>1
  <2>3. f[n] + k \in 1 .. h[n] /\ f[n] + k \notin 1 .. f[n]
    BY <1>1, <2>1
  <2> HIDE DEF shift
  <2> QED BY <1>1, <2>2, <2>3, NumberedElements
<1>5. \A y \in B : \E x \in Numbered(g) : shift[x] = y
  <2> TAKE y \in B
  <2>1. PICK n \in Notification, k \in Nat : y = <<n, k>> /\ k \in 1 .. h[n]
    BY <1>1, NumberedArePairs
  <2>2. k \notin 1 .. f[n]
    BY <2>1, NumberedElements
  <2>3. k - f[n] \in 1 .. g[n] /\ f[n] + (k - f[n]) = k
    BY <1>1, <2>1, <2>2
  <2>4. <<n, k - f[n]>> \in Numbered(g)
    BY <2>3, NumberedElements
  <2>5. shift[<<n, k - f[n]>>] = y
    BY <2>1, <2>3, <2>4
  <2> QED BY <2>4, <2>5
<1>6. \A x, y \in Numbered(g) : shift[x] = shift[y] => x = y
  <2> TAKE x, y \in Numbered(g)
  <2>1. PICK n \in Notification, k \in Nat : x = <<n, k>> /\ k \in 1 .. g[n]
    BY NumberedArePairs
  <2>2. PICK m \in Notification, j \in Nat : y = <<m, j>> /\ j \in 1 .. g[m]
    BY NumberedArePairs
  <2>3. shift[x] = <<n, f[n] + k>> /\ shift[y] = <<m, f[m] + j>>
    BY <2>1, <2>2
  <2> HIDE DEF shift
  <2> QED BY <1>1, <2>1, <2>2, <2>3
<1>7. shift \in [Numbered(g) -> B]
  BY <1>4
<1> HIDE DEF shift
<1>8. IsFiniteSet(B)
  <2>1. B \in SUBSET Numbered(h)
    OBVIOUS
  <2> HIDE DEF B
  <2> QED BY ONLY <1>2, <2>1, FS_Subset
<1>9. Cardinality(B) = Cardinality(Numbered(g))
  <2> HIDE DEF B
  <2> QED BY <1>2, <1>5, <1>6, <1>7, <1>8, SamePlaces
<1>10. Numbered(h) = Numbered(f) \cup B /\ Numbered(f) \cap B = {}
  BY <1>3
<1> HIDE DEF B
<1>11. Cardinality(Numbered(h)) = Cardinality(Numbered(f)) + Cardinality(B) - Cardinality({})
  BY <1>2, <1>8, <1>10, FS_Union
<1>12. Cardinality(Numbered(f)) \in Nat /\ Cardinality(B) \in Nat /\ Cardinality({}) = 0
  BY <1>2, <1>8, FS_CardinalityType, FS_EmptySet
<1> QED BY <1>1, <1>9, <1>11, <1>12 DEF Total, h

(* One notification, received n times over.                                *)
Times(m, n) == [Zero EXCEPT ![m] = n]

LEMMA TotalOfOneKind ==
  ASSUME NEW m \in Notification, NEW n \in Nat
  PROVE  Times(m, n) \in Counts /\ Total(Times(m, n)) = n
<1> DEFINE number == [k \in 1 .. n |-> <<m, k>>]
<1>1. Times(m, n) \in Counts /\ Times(m, n)[m] = n
      /\ \A d \in Notification : d # m => Times(m, n)[d] = 0
  BY DEF Times, Zero, Counts
<1>2. IsFiniteSet(1 .. n) /\ Cardinality(1 .. n) = n
  BY FS_Interval
<1>3. IsFiniteSet(Numbered(Times(m, n)))
  BY <1>1, NumberedIsFinite
<1>4. number \in [1 .. n -> Numbered(Times(m, n))]
  BY <1>1, NumberedElements
<1>5. \A x \in Numbered(Times(m, n)) : \E k \in 1 .. n : number[k] = x
  <2> TAKE x \in Numbered(Times(m, n))
  <2>1. PICK d \in Notification, k \in Nat : x = <<d, k>> /\ k \in 1 .. Times(m, n)[d]
    BY <1>1, NumberedArePairs
  <2>2. d = m /\ k \in 1 .. n
    BY <1>1, <2>1
  <2> QED BY <2>1, <2>2
<1>6. \A j, k \in 1 .. n : number[j] = number[k] => j = k
  OBVIOUS
<1> HIDE DEF number
<1>7. Cardinality(Numbered(Times(m, n))) = Cardinality(1 .. n)
  BY <1>2, <1>3, <1>4, <1>5, <1>6, SamePlaces
<1> QED BY <1>1, <1>2, <1>7 DEF Total

LEMMA CountingMore ==
  ASSUME NEW f \in Counts, NEW m \in Notification, NEW n \in Nat
  PROVE  LET g == [f EXCEPT ![m] = @ + n]
         IN  g \in Counts /\ g = Plus(f, Times(m, n)) /\ Total(g) = Total(f) + n
<1> DEFINE g == [f EXCEPT ![m] = @ + n]
<1>1. g \in Counts /\ \A d \in Notification : g[d] = f[d] + Times(m, n)[d]
  BY DEF Counts, Times, Zero
<1>2. g = Plus(f, Times(m, n))
  BY <1>1 DEF Plus, Counts
<1>3. Total(Plus(f, Times(m, n))) = Total(f) + n
  BY TotalsAddUp, TotalOfOneKind
<1> QED BY <1>1, <1>2, <1>3

-----------------------------------------------------------------------------
(* What there is between the broker's count and the record: a loop that    *)
(* is where its variables say it is, and, between two runs, nothing in     *)
(* memory or on its way unless it is marked as lost.                       *)
TypeOK ==
    /\ stream \in Seq(Notification) /\ rest \in BOOLEAN /\ (rest => stream # << >>)
    /\ connection \in {"none", "open", "closed", "reset"}
    /\ main \in {"accept", "handle", "update", "write"}
    /\ topic_stats_array \in Counts /\ notifications_received \in BOOLEAN /\ due \in BOOLEAN
    /\ file \in Counts \cup {MISSING, EMPTY} /\ to_write \in Counts
    /\ process \in {"running", "exited", "killed"}
    /\ told \in Counts /\ lost \in BOOLEAN /\ coalesced \in BOOLEAN

RunInv ==
    /\ main = "accept" => /\ stream = << >> /\ topic_stats_array = Zero
                          /\ connection \notin {"open", "closed", "reset"}
    /\ main = "write" => file = EMPTY
    /\ process # "running" /\ ~lost =>
          Ahead = << >> /\ topic_stats_array = Zero /\ main # "write"

RecordTypeOK ==
    /\ Saved \in Counts /\ OnRecord \in Counts /\ Ahead \in Seq(Notification)
    /\ Plus(Saved, topic_stats_array) \in Counts
    /\ Total(Plus(Saved, topic_stats_array)) = Total(Saved) + Total(topic_stats_array)
    /\ Total(Saved) \in Nat /\ Total(OnRecord) \in Nat /\ Total(told) \in Nat
    /\ Total(topic_stats_array) \in Nat
    /\ Len(Ahead) \in Nat /\ Len(Ahead) = IF rest THEN Len(stream) - 1 ELSE Len(stream)

LEMMA RecordType == TypeOK => RecordTypeOK
<1> SUFFICES ASSUME TypeOK PROVE RecordTypeOK
  OBVIOUS
<1>1. Saved \in Counts
  BY ZeroIsNothing DEF TypeOK, Saved
<1>2. /\ Plus(Saved, topic_stats_array) \in Counts
      /\ Total(Plus(Saved, topic_stats_array)) = Total(Saved) + Total(topic_stats_array)
  BY <1>1, TotalsAddUp DEF TypeOK
<1>3. OnRecord \in Counts
  BY <1>2 DEF OnRecord, TypeOK
<1>4. Ahead \in Seq(Notification) /\ Len(Ahead) = IF rest THEN Len(stream) - 1 ELSE Len(stream)
  BY HeadTailProperties DEF TypeOK, Ahead
<1>5. /\ Total(Saved) \in Nat /\ Total(OnRecord) \in Nat /\ Total(told) \in Nat
      /\ Total(topic_stats_array) \in Nat
  BY <1>1, <1>3, TotalType DEF TypeOK
<1> QED BY <1>1, <1>2, <1>3, <1>4, <1>5 DEF RecordTypeOK

LEMMA RecordTypeNext == TypeOK' => RecordTypeOK'
  BY RecordType, PTL

(* The three properties together, counter by counter.                      *)
Conserved(record, ahead, t, l, c) ==
    /\ ~l => Total(t) = Total(record) + Len(ahead)
    /\ ~l /\ ~c => \A n \in Notification : t[n] = record[n] + Cardinality(Places(ahead, n))
    /\ Total(record) + Len(ahead) <= Total(t)

NothingIsLost == Conserved(OnRecord, Ahead, told, lost, coalesced)

LEMMA ConservedMeans ==
  TypeOK => (NothingIsLost <=> TotalsConserved /\ CountsExact /\ NothingCountedTwice)
<1> SUFFICES ASSUME TypeOK
             PROVE  NothingIsLost <=> TotalsConserved /\ CountsExact /\ NothingCountedTwice
  OBVIOUS
<1>1. \A n \in Notification : InStream[n] = Cardinality(Places(Ahead, n))
  BY DEF InStream, Places
<1>2. told = Plus(OnRecord, InStream)
        <=> \A n \in Notification : told[n] = OnRecord[n] + InStream[n]
  BY DEF Plus, TypeOK, Counts
<1> QED BY <1>1, <1>2
        DEF NothingIsLost, Conserved, TotalsConserved, CountsExact, NothingCountedTwice

StatsInv == TypeOK /\ RunInv /\ NothingIsLost

(* What keeps the three: that nothing is counted, received or told, or     *)
(* that something is marked as lost and not counted twice.                 *)
LEMMA SameRecord ==
  ASSUME NothingIsLost, UNCHANGED <<OnRecord, Ahead, told>>,
         lost => lost', coalesced => coalesced'
  PROVE  NothingIsLost'
BY DEF NothingIsLost, Conserved

LEMMA MarkedAsLost ==
  ASSUME TypeOK, TypeOK', NothingIsLost, lost', UNCHANGED told,
         Total(OnRecord)' <= Total(OnRecord), Len(Ahead)' <= Len(Ahead)
  PROVE  NothingIsLost'
<1>1. Total(OnRecord)' + Len(Ahead)' <= Total(told)'
  BY RecordType, RecordTypeNext DEF RecordTypeOK, NothingIsLost, Conserved
<1> QED BY <1>1 DEF NothingIsLost, Conserved

LEMMA NothingAdded ==
  ASSUME NEW f \in Counts
  PROVE  Plus(f, Zero) = f
BY DEF Plus, Zero, Counts

LEMMA SavedIs ==
  /\ file \in Counts => Saved = file
  /\ file \in {MISSING, EMPTY} => Saved = Zero
BY StatsManagerAssumption DEF Saved, Counts

-----------------------------------------------------------------------------
(* What recv() takes off the stream, with the front of what follows or not.*)
LEMMA TakenOff ==
  ASSUME NEW S, NEW q \in Seq(S), NEW n \in 1 .. Len(q), NEW front \in BOOLEAN
  PROVE  LET r == SubSeq(q, IF front THEN n ELSE n + 1, Len(q))
             a == IF front THEN Tail(r) ELSE r
         IN  /\ r \in Seq(S) /\ (front => r # << >>)
             /\ a \in Seq(S) /\ Len(a) = Len(q) - n
             /\ \A k \in 1 .. Len(q) - n : a[k] = q[k + n]
<1> DEFINE m == IF front THEN n ELSE n + 1
           r == SubSeq(q, m, Len(q))
           a == IF front THEN Tail(r) ELSE r
<1>1. m \in Int /\ m >= 1 /\ m <= Len(q) + 1 /\ (\A i \in m .. Len(q) : q[i] \in S)
  OBVIOUS
<1>2. /\ r \in Seq(S) /\ Len(r) = Len(q) - m + 1
      /\ \A i \in 1 .. Len(q) - m + 1 : r[i] = q[m + i - 1]
  <2> HIDE DEF m
  <2>1. /\ SubSeq(q, m, Len(q)) \in Seq(S)
        /\ Len(SubSeq(q, m, Len(q))) = IF m <= Len(q) THEN Len(q) - m + 1 ELSE 0
        /\ \A i \in 1 .. Len(q) - m + 1 : SubSeq(q, m, Len(q))[i] = q[m + i - 1]
    BY <1>1, SubSeqProperties
  <2> QED BY <1>1, <2>1
<1> HIDE DEF r
<1>3. CASE front
  <2>1. Len(r) = Len(q) - n + 1 /\ r # << >>
    BY <1>2, <1>3
  <2>2. /\ Tail(r) \in Seq(S) /\ Len(Tail(r)) = Len(r) - 1
        /\ \A i \in 1 .. Len(Tail(r)) : Tail(r)[i] = r[i + 1]
    BY <1>2, <2>1, HeadTailProperties
  <2>3. \A k \in 1 .. Len(q) - n : Tail(r)[k] = q[k + n]
    BY <1>2, <1>3, <2>1, <2>2
  <2> QED BY <1>2, <1>3, <2>1, <2>2, <2>3 DEF r
<1>4. CASE ~front
  BY <1>2, <1>4 DEF r
<1> QED BY <1>3, <1>4

(* The loop counts the first of what has come as often as there are        *)
(* notifications: as many, and the right ones if they are all the same.    *)
LEMMA CountedStep ==
  ASSUME StatsInv, TypeOK', main = "handle", main' = "update", ~rest,
         NEW n \in 1 .. Len(stream), Counted(SubSeq(stream, 1, n)),
         Len(Ahead)' = Len(stream) - n,
         \A k \in 1 .. Len(stream) - n : Ahead'[k] = stream[k + n],
         UNCHANGED <<file, told>>
  PROVE  NothingIsLost'
<1> DEFINE received == SubSeq(stream, 1, n)
<1>0. TypeOK /\ RunInv /\ NothingIsLost
  BY DEF StatsInv
<1>1. stream \in Seq(Notification) /\ Len(stream) \in Nat /\ Ahead = stream
  BY <1>0 DEF TypeOK, Ahead
<1>2. Len(received) = n /\ \A k \in 1 .. n : received[k] = stream[k]
  BY <1>1
<1>3. Ahead' \in Seq(Notification) /\ Len(Ahead') = Len(stream) - n
  BY RecordTypeNext DEF RecordTypeOK
<1>4. \A d \in Notification :
        Cardinality(Places(stream, d)) =
          Cardinality(PlacesUpTo(n, stream, d)) + Cardinality(Places(Ahead', d))
  <2> TAKE d \in Notification
  <2> DEFINE r == Ahead'
  <2>1. /\ n \in 0 .. Len(stream) /\ stream \in Seq(Notification) /\ r \in Seq(Notification)
        /\ Len(r) = Len(stream) - n /\ \A k \in 1 .. Len(stream) - n : r[k] = stream[k + n]
    BY <1>1, <1>3
  <2> HIDE DEF r
  <2>2. Cardinality(Places(stream, d)) =
          Cardinality(PlacesUpTo(n, stream, d)) + Cardinality(Places(r, d))
    BY ONLY <2>1, CountsBehind
  <2> QED BY <2>2 DEF r
<1> DEFINE first == stream[1]
<1>5. first \in Notification
  BY <1>1
<1>6. topic_stats_array' = [topic_stats_array EXCEPT ![first] = @ + n]
  BY <1>2 DEF Counted, handle_all
<1>7. Saved' = Saved /\ OnRecord' = Plus(Saved, topic_stats_array')
      /\ OnRecord = Plus(Saved, topic_stats_array)
  BY DEF OnRecord, Saved
<1>8. lost' = lost
  BY DEF Counted
<1> HIDE DEF received, first
<1>9. topic_stats_array \in Counts /\ Saved \in Counts /\ topic_stats_array' \in Counts
  BY <1>0, RecordType DEF TypeOK, RecordTypeOK
<1>10. /\ Total(topic_stats_array') = Total(topic_stats_array) + n
       /\ Total(OnRecord) = Total(Saved) + Total(topic_stats_array)
       /\ Total(OnRecord') = Total(Saved) + Total(topic_stats_array')
       /\ Total(Saved) \in Nat /\ Total(topic_stats_array) \in Nat /\ Total(told) \in Nat
  <2>1. Total([topic_stats_array EXCEPT ![first] = @ + n]) = Total(topic_stats_array) + n
    BY <1>5, <1>9, CountingMore
  <2>2. Total(Saved) \in Nat /\ Total(topic_stats_array) \in Nat /\ Total(told) \in Nat
    BY <1>0, <1>9, TotalType DEF TypeOK
  <2> QED BY <1>6, <1>7, <1>9, <2>1, <2>2, TotalsAddUp
<1>11. Total(OnRecord') + Len(Ahead') = Total(OnRecord) + Len(Ahead)
  BY <1>1, <1>3, <1>10
<1>12. ASSUME ~lost', ~coalesced', NEW d \in Notification
       PROVE  told'[d] = OnRecord'[d] + Cardinality(Places(Ahead', d))
  <2>0. ~coalesced /\ \A k \in 2 .. Len(received) : received[k] = received[1]
    BY <1>12 DEF Counted, received
  <2>1. ~lost /\ ~coalesced /\ \A k \in 2 .. n : stream[k] = first
    BY <1>2, <1>8, <1>12, <2>0 DEF first
  <2>2. PlacesUpTo(n, stream, d) = IF d = first THEN 1 .. n ELSE {}
    BY <2>1 DEF first, PlacesUpTo
  <2>3. Cardinality(PlacesUpTo(n, stream, d)) = IF d = first THEN n ELSE 0
    <3>1. Cardinality(1 .. n) = n
      BY FS_Interval
    <3>2. Cardinality({}) = 0
      BY FS_EmptySet
    <3> QED BY ONLY <2>2, <3>1, <3>2
  <2>4. told[d] = OnRecord[d] + Cardinality(Places(stream, d))
    BY <1>0, <1>1, <2>1 DEF NothingIsLost, Conserved
  <2>5. OnRecord[d] = Saved[d] + topic_stats_array[d]
        /\ OnRecord'[d] = Saved[d] + topic_stats_array'[d]
    BY <1>7 DEF Plus
  <2>6. topic_stats_array'[d] =
          IF d = first THEN topic_stats_array[d] + n ELSE topic_stats_array[d]
    BY <1>5, <1>6, <1>9 DEF Counts
  <2>7. Saved[d] \in Nat /\ topic_stats_array[d] \in Nat
        /\ Cardinality(Places(Ahead', d)) \in Nat
    BY <1>3, <1>9, PlacesAreFinite DEF Counts
  <2>8. Cardinality(Places(stream, d)) =
          Cardinality(PlacesUpTo(n, stream, d)) + Cardinality(Places(Ahead', d))
    BY <1>4
  <2>9. CASE d = first
    BY <2>3, <2>4, <2>5, <2>6, <2>7, <2>8, <2>9
  <2>10. CASE d # first
    BY <2>3, <2>4, <2>5, <2>6, <2>7, <2>8, <2>10
  <2> QED BY <2>9, <2>10
<1>13. Conserved(OnRecord, Ahead, told, lost, coalesced)
  BY <1>0 DEF NothingIsLost
<1>14. Total(told') = Total(told)
  OBVIOUS
<1> QED BY <1>8, <1>11, <1>12, <1>13, <1>14 DEF NothingIsLost, Conserved

LEMMA HandleStep ==
  ASSUME StatsInv, process = "running", handle_notifications
  PROVE  StatsInv'
<1>0. TypeOK /\ RunInv /\ NothingIsLost
  BY DEF StatsInv
<1>1. PICK n \in 1 .. Len(stream), front \in BOOLEAN :
        /\ CASE rest /\ front /\ n = 1 -> MiddleAlone
             [] rest /\ ~(front /\ n = 1) -> RestFirst(SubSeq(stream, 1, n))
             [] ~rest /\ front /\ n = 1 -> FrontAlone(SubSeq(stream, 1, n))
             [] OTHER -> Counted(SubSeq(stream, 1, n))
        /\ rest' = front
        /\ stream' = SubSeq(stream, IF front THEN n ELSE n + 1, Len(stream))
  BY DEF handle_notifications
<1> DEFINE received == SubSeq(stream, 1, n)
<1>2. /\ main = "handle" /\ main' = "update"
      /\ UNCHANGED <<connection, due, file, to_write, starts, told, read_failed>>
  BY DEF handle_notifications
<1>3. stream \in Seq(Notification) /\ Len(stream) \in Nat /\ rest \in BOOLEAN
      /\ topic_stats_array \in Counts /\ lost \in BOOLEAN /\ coalesced \in BOOLEAN
  BY <1>0 DEF TypeOK
<1>4. /\ stream' \in Seq(Notification) /\ (rest' => stream' # << >>) /\ rest' \in BOOLEAN
      /\ Ahead' \in Seq(Notification) /\ Len(Ahead)' = Len(stream) - n
      /\ \A k \in 1 .. Len(stream) - n : Ahead'[k] = stream[k + n]
  <2> DEFINE r == SubSeq(stream, IF front THEN n ELSE n + 1, Len(stream))
             a == IF front THEN Tail(r) ELSE r
  <2>1. /\ r \in Seq(Notification) /\ (front => r # << >>)
        /\ a \in Seq(Notification) /\ Len(a) = Len(stream) - n
        /\ \A k \in 1 .. Len(stream) - n : a[k] = stream[k + n]
    BY <1>3, TakenOff
  <2>2. stream' = r /\ rest' = front /\ Ahead' = a
    BY <1>1 DEF Ahead
  <2> HIDE DEF r, a
  <2> QED BY <2>1, <2>2
<1>5. Len(received) = n /\ received[1] \in Notification
  BY <1>3
<1>6. Len(Ahead)' <= Len(Ahead)
  BY <1>0, <1>3, <1>4, RecordType DEF RecordTypeOK
<1>7. \/ MiddleAlone
      \/ rest /\ ~(front /\ n = 1) /\ RestFirst(received)
      \/ ~rest /\ n = 1 /\ FrontAlone(received)
      \/ ~rest /\ Counted(received)
  BY <1>1, <1>3
<1> HIDE DEF received
<1>8. CASE rest /\ ~(front /\ n = 1) /\ RestFirst(received)
  <2>1. TypeOK'
    BY <1>0, <1>2, <1>3, <1>4, <1>8 DEF TypeOK, RestFirst, remember
  <2>2. RunInv'
    BY <1>0, <1>2, <1>8, process = "running" DEF RunInv, RestFirst
  <2>3. OnRecord' = OnRecord
    BY <1>2, <1>8 DEF RestFirst, OnRecord, Saved
  <2>4. CASE n = 1
    <3>1. stream # << >> /\ Ahead' = SubSeq(stream, 2, Len(stream)) /\ Ahead = Tail(stream)
      BY <1>1, <1>3, <1>8, <2>4 DEF Ahead
    <3>2. Ahead' = Ahead
      BY <1>3, <3>1, TailIsSubSeq
    <3>3. (lost => lost') /\ (coalesced => coalesced')
      BY <1>3, <1>8 DEF RestFirst
    <3>4. NothingIsLost'
      BY <1>0, <1>2, <2>3, <3>2, <3>3, SameRecord
    <3> QED BY <2>1, <2>2, <3>4 DEF StatsInv
  <2>5. CASE n # 1
    <3>1. lost'
      <4>1. Len(received) > 1
        BY <1>5, <2>5
      <4> QED BY <1>8, <4>1 DEF RestFirst
    <3>2. Total(OnRecord)' <= Total(OnRecord)
      BY <1>0, <2>3, RecordType DEF RecordTypeOK
    <3>3. NothingIsLost'
      BY <1>0, <1>2, <1>6, <2>1, <3>1, <3>2, MarkedAsLost
    <3> QED BY <2>1, <2>2, <3>3 DEF StatsInv
  <2> QED BY <2>4, <2>5
<1>9. ASSUME ~rest, Counted(received)
      PROVE  StatsInv'
  <2>1. topic_stats_array' = [topic_stats_array EXCEPT ![received[1]] = @ + n]
    BY <1>5, <1>9 DEF Counted, handle_all
  <2>2. topic_stats_array' \in Counts
    BY <1>3, <1>5, <2>1 DEF Counts
  <2>3. TypeOK'
    BY <1>0, <1>2, <1>3, <1>4, <1>9, <2>2 DEF TypeOK, Counted, remember
  <2>4. RunInv'
    BY <1>0, <1>2, <1>9, process = "running" DEF RunInv, Counted
  <2>5. NothingIsLost'
    BY <1>2, <1>4, <1>9, <2>3, CountedStep DEF received
  <2> QED BY <2>3, <2>4, <2>5 DEF StatsInv
<1>10. ASSUME \/ (\E just \in BOOLEAN : remember(just)) /\ UNCHANGED process
              \/ process' = "exited" /\ UNCHANGED notifications_received,
              lost' = TRUE, UNCHANGED <<topic_stats_array, coalesced>>
       PROVE  StatsInv'
  <2>1. TypeOK'
    BY <1>0, <1>2, <1>3, <1>4, <1>10 DEF TypeOK, remember
  <2>2. RunInv'
    BY <1>0, <1>2, <1>10 DEF RunInv
  <2>3. Total(OnRecord)' <= Total(OnRecord)
    <3>1. OnRecord' = OnRecord
      BY <1>2, <1>10 DEF OnRecord, Saved
    <3> QED BY <1>0, <3>1, RecordType DEF RecordTypeOK
  <2>4. NothingIsLost'
    BY <1>0, <1>2, <1>6, <1>10, <2>1, <2>3, MarkedAsLost
  <2> QED BY <2>1, <2>2, <2>4 DEF StatsInv
<1>11. CASE ~rest /\ n = 1 /\ FrontAlone(received)
  <2>1. CASE Counted(received)
    BY <1>9, <1>11, <2>1
  <2>2. CASE /\ \/ remember(TRUE) /\ UNCHANGED process
                \/ process' = "exited" /\ UNCHANGED notifications_received
             /\ lost' = TRUE
             /\ UNCHANGED <<topic_stats_array, coalesced>>
    BY <1>10, <2>2
  <2> QED BY <1>11, <2>1, <2>2 DEF FrontAlone
<1>12. CASE MiddleAlone
  BY <1>10, <1>12, <1>3 DEF MiddleAlone
<1> QED BY <1>7, <1>8, <1>9, <1>11, <1>12

-----------------------------------------------------------------------------
LEMMA StatsInvInit == Init => StatsInv
<1> SUFFICES ASSUME Init PROVE StatsInv
  OBVIOUS
<1>1. TypeOK
  <2>1. << >> \in Seq(Notification) /\ Zero \in Counts
    BY ZeroIsNothing
  <2>2. file \in Counts \cup {MISSING, EMPTY}
    BY <2>1 DEF Init
  <2> QED BY <2>1, <2>2 DEF Init, TypeOK
<1>2. RunInv
  BY DEF Init, RunInv
<1>3. OnRecord = Zero /\ Ahead = << >> /\ told = Zero
  BY ZeroIsNothing, NothingAdded DEF Init, OnRecord, Saved, Ahead
<1>4. \A n \in Notification : Zero[n] = 0 /\ Cardinality(Places(<< >>, n)) = 0
  <2> TAKE n \in Notification
  <2>1. Places(<< >>, n) = {}
    BY DEF Places
  <2> QED BY <2>1, FS_EmptySet DEF Zero
<1>5. NothingIsLost
  BY <1>3, <1>4, ZeroIsNothing DEF NothingIsLost, Conserved
<1> QED BY <1>1, <1>2, <1>5 DEF StatsInv

(* Where nothing is received, told or counted, only the three are to show. *)
LEMMA StatsInvStep == StatsInv /\ [Next]_vars => StatsInv'
<1> SUFFICES ASSUME StatsInv, [Next]_vars PROVE StatsInv'
  OBVIOUS
<1>0. TypeOK /\ RunInv /\ NothingIsLost /\ RecordTypeOK
  BY RecordType DEF StatsInv
<1>1. CASE UNCHANGED vars
  <2>1. TypeOK' /\ RunInv'
    BY <1>0, <1>1 DEF vars, memory, history, TypeOK, RunInv, Ahead
  <2>2. OnRecord' = OnRecord /\ Ahead' = Ahead
    BY <1>1 DEF vars, memory, history, OnRecord, Saved, Ahead
  <2>3. NothingIsLost'
    BY <1>0, <1>1, <2>2, SameRecord DEF vars, history
  <2> QED BY <2>1, <2>3 DEF StatsInv
<1>2. CASE process = "running" /\ Notify
  <2>1. PICK m \in Notification : /\ stream' = Append(stream, m)
                                  /\ told' = [told EXCEPT ![m] = @ + 1]
    BY <1>2 DEF Notify
  <2>2. connection = "open"
        /\ UNCHANGED <<rest, connection, main, memory, file, to_write, process, starts,
                       lost, coalesced, read_failed>>
    BY <1>2 DEF Notify
  <2>3. told \in Counts /\ stream \in Seq(Notification)
    BY <1>0 DEF TypeOK
  <2>4. told' \in Counts /\ Total(told') = Total(told) + 1
    BY <2>1, <2>3, CountingMore
  <2>5. stream' \in Seq(Notification) /\ stream' # << >>
    BY <2>1, <2>3, AppendProperties
  <2>6. TypeOK'
    BY <1>0, <2>2, <2>4, <2>5 DEF TypeOK, memory
  <2>7. main # "accept" /\ RunInv'
    BY <1>0, <1>2, <2>2 DEF RunInv, memory
  <2>8. Ahead' = Append(Ahead, m)
    <3>1. CASE rest
      BY <1>0, <2>1, <2>2, <2>3, <3>1, HeadTailAppend DEF Ahead, TypeOK
    <3>2. CASE ~rest
      BY <2>1, <2>2, <3>2 DEF Ahead
    <3> QED BY <3>1, <3>2
  <2>9. OnRecord' = OnRecord
    BY <2>2 DEF OnRecord, Saved, memory
  <2>10. Len(Ahead') = Len(Ahead) + 1
    BY <1>0, <2>8, AppendProperties DEF RecordTypeOK
  <2>11. ASSUME ~lost', ~coalesced', NEW d \in Notification
         PROVE  told'[d] = OnRecord'[d] + Cardinality(Places(Ahead', d))
    <3>1. told[d] = OnRecord[d] + Cardinality(Places(Ahead, d))
      BY <1>0, <2>2, <2>11 DEF NothingIsLost, Conserved
    <3>2. Cardinality(Places(Ahead', d)) =
            IF d = m THEN Cardinality(Places(Ahead, d)) + 1 ELSE Cardinality(Places(Ahead, d))
      BY <1>0, <2>8, CountsAppended DEF RecordTypeOK
    <3>3. told'[d] = IF d = m THEN told[d] + 1 ELSE told[d]
      BY <2>1, <2>3 DEF Counts
    <3>4. OnRecord[d] \in Nat /\ Cardinality(Places(Ahead, d)) \in Nat
      BY <1>0, PlacesAreFinite DEF RecordTypeOK, Counts
    <3>5. CASE d = m
      BY <2>9, <3>1, <3>2, <3>3, <3>4, <3>5
    <3>6. CASE d # m
      BY <2>9, <3>1, <3>2, <3>3, <3>6
    <3> QED BY <3>5, <3>6
  <2>12. NothingIsLost'
    <3>1. NothingIsLost /\ Len(Ahead) \in Nat
      BY <1>0 DEF RecordTypeOK
    <3>2. ~lost' /\ ~coalesced' =>
            \A d \in Notification : told'[d] = OnRecord'[d] + Cardinality(Places(Ahead', d))
      BY <2>11
    <3>3. /\ ~lost' => Total(told') = Total(OnRecord') + Len(Ahead')
          /\ Total(OnRecord') + Len(Ahead') <= Total(told')
      BY <1>0, <3>1, <2>2, <2>4, <2>9, <2>10 DEF NothingIsLost, Conserved, RecordTypeOK
    <3> QED BY <3>2, <3>3 DEF NothingIsLost, Conserved
  <2> QED BY <2>6, <2>7, <2>12 DEF StatsInv
<1>3. CASE process = "running" /\ BrokerEnds
  <2>1. TypeOK'
    <3>1. lost' \in BOOLEAN
      BY <1>0, <1>3 DEF BrokerEnds, TypeOK
    <3>2. << >> \in Seq(Notification)
      OBVIOUS
    <3>3. /\ UNCHANGED <<main, memory, file, to_write, process, told, coalesced>>
          /\ connection' \in {"closed", "reset"}
          /\ \/ stream' = stream /\ rest' = rest
             \/ stream' = << >> /\ rest' = FALSE
      BY <1>3 DEF BrokerEnds
    <3>4. stream' \in Seq(Notification) /\ rest' \in BOOLEAN /\ (rest' => stream' # << >>)
      <4>1. CASE stream' = stream /\ rest' = rest
        BY <1>0, <4>1 DEF TypeOK
      <4>2. CASE stream' = << >> /\ rest' = FALSE
        BY ONLY <3>2, <4>2
      <4> QED BY <3>3, <4>1, <4>2
    <3>5. UNCHANGED <<topic_stats_array, notifications_received, due>>
      BY <3>3 DEF memory
    <3> QED BY <1>0, <3>1, <3>3, <3>4, <3>5 DEF TypeOK
  <2>2. RunInv'
    BY <1>0, <1>3 DEF BrokerEnds, RunInv, memory
  <2>3. OnRecord' = OnRecord /\ UNCHANGED told
    BY <1>3 DEF BrokerEnds, OnRecord, Saved, memory
  <2>4. CASE UNCHANGED <<stream, rest, lost>>
    <3>1. Ahead' = Ahead /\ coalesced' = coalesced
      BY <1>3, <2>4 DEF Ahead, BrokerEnds
    <3>2. NothingIsLost'
      BY <1>0, <2>3, <2>4, <3>1, SameRecord
    <3> QED BY <2>1, <2>2, <3>2 DEF StatsInv
  <2>5. CASE stream' = << >> /\ rest' = FALSE /\ lost' = (lost \/ Ahead # << >>)
    <3>1. Ahead' = << >> /\ coalesced' = coalesced
      BY <1>3, <2>5 DEF Ahead, BrokerEnds
    <3>2. CASE Ahead = << >>
      <4>1. lost => lost'
        BY <2>5
      <4>2. NothingIsLost'
        BY <1>0, <2>3, <3>1, <3>2, <4>1, SameRecord
      <4> QED BY <2>1, <2>2, <4>2 DEF StatsInv
    <3>3. CASE Ahead # << >>
      <4>1. lost'
        BY <2>5, <3>3
      <4>2. Total(OnRecord)' <= Total(OnRecord) /\ Len(Ahead)' <= Len(Ahead)
        BY <1>0, <2>3, <3>1 DEF RecordTypeOK
      <4>3. NothingIsLost'
        BY <1>0, <2>1, <2>3, <4>1, <4>2, MarkedAsLost
      <4> QED BY <2>1, <2>2, <4>3 DEF StatsInv
    <3> QED BY <3>2, <3>3
  <2> QED BY <1>3, <2>4, <2>5 DEF BrokerEnds
<1>4. CASE process = "running" /\ PeriodPasses
  <2>1. TypeOK' /\ RunInv'
    BY <1>0, <1>4 DEF PeriodPasses, TypeOK, RunInv, memory, history, Ahead, remember
  <2>2. OnRecord' = OnRecord /\ Ahead' = Ahead
    BY <1>4 DEF PeriodPasses, OnRecord, Saved, memory, Ahead
  <2>3. UNCHANGED told /\ (lost => lost') /\ (coalesced => coalesced')
    BY <1>0, <1>4 DEF PeriodPasses, history, TypeOK
  <2>4. NothingIsLost'
    BY <1>0, <2>2, <2>3, SameRecord
  <2> QED BY <2>1, <2>4 DEF StatsInv
<1>5. CASE process = "running" /\ accept_connection
  <2>1. TypeOK' /\ RunInv'
    BY <1>0, <1>5 DEF accept_connection, TypeOK, RunInv, memory, history, Ahead, remember
  <2>2. OnRecord' = OnRecord /\ Ahead' = Ahead
    BY <1>5 DEF accept_connection, OnRecord, Saved, memory, Ahead
  <2>3. UNCHANGED told /\ (lost => lost') /\ (coalesced => coalesced')
    BY <1>0, <1>5 DEF accept_connection, history, TypeOK
  <2>4. NothingIsLost'
    BY <1>0, <2>2, <2>3, SameRecord
  <2> QED BY <2>1, <2>4 DEF StatsInv
<1>6. CASE process = "running" /\ handle_notifications
  BY <1>6, HandleStep
<1>7. CASE process = "running" /\ NothingReceived
  <2>1. TypeOK' /\ RunInv'
    BY <1>0, <1>7 DEF NothingReceived, TypeOK, RunInv, memory, history, Ahead, remember
  <2>2. OnRecord' = OnRecord /\ Ahead' = Ahead
    BY <1>7 DEF NothingReceived, OnRecord, Saved, memory, Ahead
  <2>3. UNCHANGED told /\ (lost => lost') /\ (coalesced => coalesced')
    BY <1>0, <1>7 DEF NothingReceived, history, TypeOK
  <2>4. NothingIsLost'
    BY <1>0, <2>2, <2>3, SameRecord
  <2> QED BY <2>1, <2>4 DEF StatsInv
<1>8. CASE process = "running" /\ ConnectionClosed
  <2>1. TypeOK' /\ RunInv'
    BY <1>0, <1>8 DEF ConnectionClosed, TypeOK, RunInv, memory, history, Ahead, remember
  <2>2. OnRecord' = OnRecord /\ Ahead' = Ahead
    BY <1>8 DEF ConnectionClosed, OnRecord, Saved, memory, Ahead
  <2>3. UNCHANGED told /\ (lost => lost') /\ (coalesced => coalesced')
    BY <1>0, <1>8 DEF ConnectionClosed, history, TypeOK
  <2>4. NothingIsLost'
    BY <1>0, <2>2, <2>3, SameRecord
  <2> QED BY <2>1, <2>4 DEF StatsInv
<1>9. CASE process = "running" /\ NoUpdate
  <2>1. TypeOK' /\ RunInv'
    BY <1>0, <1>9 DEF NoUpdate, TypeOK, RunInv, memory, history, Ahead, remember
  <2>2. OnRecord' = OnRecord /\ Ahead' = Ahead
    BY <1>9 DEF NoUpdate, OnRecord, Saved, memory, Ahead
  <2>3. UNCHANGED told /\ (lost => lost') /\ (coalesced => coalesced')
    BY <1>0, <1>9 DEF NoUpdate, history, TypeOK
  <2>4. NothingIsLost'
    BY <1>0, <2>2, <2>3, SameRecord
  <2> QED BY <2>1, <2>4 DEF StatsInv
<1>10. CASE process = "running" /\ ReadFails
  <2>1. TypeOK' /\ RunInv'
    BY <1>0, <1>10 DEF ReadFails, TypeOK, RunInv, memory, history, Ahead, remember
  <2>2. OnRecord' = OnRecord /\ Ahead' = Ahead
    BY <1>10 DEF ReadFails, OnRecord, Saved, memory, Ahead
  <2>3. UNCHANGED told /\ (lost => lost') /\ (coalesced => coalesced')
    BY <1>0, <1>10 DEF ReadFails, history, TypeOK
  <2>4. NothingIsLost'
    BY <1>0, <2>2, <2>3, SameRecord
  <2> QED BY <2>1, <2>4 DEF StatsInv
<1>11. CASE process = "running" /\ OpenForWriting
  <2>1. /\ main = "update" /\ UNCHANGED <<stream, rest, connection, process, starts, told,
                                          coalesced, read_failed>>
    BY <1>11 DEF OpenForWriting
  <2>2. Ahead' = Ahead
    BY <2>1 DEF Ahead
  <2>3. CASE file' = EMPTY /\ to_write' = sum_with_file /\ main' = "write"
             /\ UNCHANGED <<memory, lost>>
    <3>1. OnRecord = Plus(Saved, topic_stats_array) /\ OnRecord' = OnRecord
      BY <2>1, <2>3 DEF OnRecord, sum_with_file
    <3>2. TypeOK'
      BY <1>0, <2>1, <2>3 DEF TypeOK, memory, sum_with_file, RecordTypeOK
    <3>3. RunInv'
      BY <1>0, <1>11, <2>1, <2>3 DEF RunInv
    <3>4. NothingIsLost'
      BY <1>0, <2>1, <2>2, <2>3, <3>1, SameRecord
    <3> QED BY <3>2, <3>3, <3>4 DEF StatsInv
  <2>4. CASE /\ reset_stats
             /\ notifications_received' = FALSE /\ due' = FALSE
             /\ lost' = TRUE
             /\ main' = "handle"
             /\ UNCHANGED <<file, to_write>>
    <3>1. TypeOK'
      BY <1>0, <2>1, <2>4, ZeroIsNothing DEF TypeOK, reset_stats
    <3>2. RunInv'
      BY <1>0, <1>11, <2>1, <2>4 DEF RunInv
    <3>3. OnRecord = Plus(Saved, topic_stats_array) /\ OnRecord' = Plus(Saved, Zero)
      BY <2>1, <2>4 DEF OnRecord, reset_stats, Saved
    <3>4. OnRecord' = Saved
      BY <1>0, <3>3, NothingAdded DEF RecordTypeOK
    <3>5. Total(OnRecord)' <= Total(OnRecord) /\ Len(Ahead)' <= Len(Ahead)
      BY <1>0, <2>2, <3>3, <3>4 DEF RecordTypeOK
    <3>6. NothingIsLost'
      BY <1>0, <2>1, <2>4, <3>1, <3>5, MarkedAsLost
    <3> QED BY <3>1, <3>2, <3>6 DEF StatsInv
  <2> QED BY <1>11, <2>3, <2>4 DEF OpenForWriting
<1>12. CASE process = "running" /\ WriteFile
  <2>1. /\ main = "write" /\ main' = "handle" /\ topic_stats_array' = Zero /\ to_write' = Zero
        /\ UNCHANGED <<stream, rest, connection, process, starts, told, coalesced, read_failed>>
    BY <1>12 DEF WriteFile, reset_stats
  <2>2. to_write \in Counts /\ OnRecord = to_write /\ file = EMPTY
    BY <1>0, <2>1 DEF TypeOK, RunInv, OnRecord
  <2>3. TypeOK'
    <3>1. lost' \in BOOLEAN
      BY <1>0, <1>12 DEF WriteFile, TypeOK
    <3>2. file' \in Counts \cup {MISSING, EMPTY}
      BY <1>0, <1>12, <2>2 DEF WriteFile
    <3>3. notifications_received' = FALSE /\ due' = FALSE
      BY <1>12 DEF WriteFile
    <3> QED BY <1>0, <2>1, <3>1, <3>2, <3>3, ZeroIsNothing DEF TypeOK
  <2>4. RunInv'
    BY <1>0, <1>12, <2>1 DEF RunInv
  <2>5. OnRecord' = Plus(Saved', Zero) /\ Ahead' = Ahead
    BY <2>1 DEF OnRecord, Ahead
  <2>6. CASE file' = to_write /\ UNCHANGED lost
    <3>1. Saved' = to_write
      BY <2>2, <2>6, StatsManagerAssumption DEF Saved, Counts
    <3>2. OnRecord' = OnRecord
      BY <2>2, <2>5, <3>1, NothingAdded
    <3>3. NothingIsLost'
      BY <1>0, <2>1, <2>5, <2>6, <3>2, SameRecord
    <3> QED BY <2>3, <2>4, <3>3 DEF StatsInv
  <2>7. CASE lost' = TRUE /\ UNCHANGED file
    <3>1. Saved' = Zero
      BY <2>2, <2>7 DEF Saved
    <3>2. OnRecord' = Zero
      BY <2>5, <3>1, ZeroIsNothing, NothingAdded
    <3>3. Total(OnRecord)' <= Total(OnRecord) /\ Len(Ahead)' <= Len(Ahead)
      BY <1>0, <2>5, <3>2, ZeroIsNothing DEF RecordTypeOK
    <3>4. NothingIsLost'
      BY <1>0, <2>1, <2>3, <2>7, <3>3, MarkedAsLost
    <3> QED BY <2>3, <2>4, <3>4 DEF StatsInv
  <2> QED BY <1>12, <2>6, <2>7 DEF WriteFile
<1>13. CASE process = "running" /\ main # "write" /\ Kill
  <2>1. TypeOK' /\ RunInv'
    BY <1>0, <1>13 DEF Kill, TypeOK, RunInv, memory, history, Ahead, remember
  <2>2. OnRecord' = OnRecord /\ Ahead' = Ahead
    BY <1>13 DEF Kill, OnRecord, Saved, memory, Ahead
  <2>3. UNCHANGED told /\ (lost => lost') /\ (coalesced => coalesced')
    BY <1>0, <1>13 DEF Kill, history, TypeOK
  <2>4. NothingIsLost'
    BY <1>0, <2>2, <2>3, SameRecord
  <2> QED BY <2>1, <2>4 DEF StatsInv
<1>14. CASE process = "running" /\ KillWhileWriting
  <2>1. TypeOK' /\ RunInv'
    BY <1>0, <1>14 DEF KillWhileWriting, TypeOK, RunInv, memory, history, Ahead, remember
  <2>2. OnRecord' = OnRecord /\ Ahead' = Ahead
    BY <1>14 DEF KillWhileWriting, OnRecord, Saved, memory, Ahead
  <2>3. UNCHANGED told /\ (lost => lost') /\ (coalesced => coalesced')
    BY <1>0, <1>14 DEF KillWhileWriting, history, TypeOK
  <2>4. NothingIsLost'
    BY <1>0, <2>2, <2>3, SameRecord
  <2> QED BY <2>1, <2>4 DEF StatsInv
<1>15. CASE Start
  <2>1. /\ stream' = << >> /\ rest' = FALSE /\ connection' = "none" /\ main' = "accept"
        /\ topic_stats_array' = Zero /\ process' = "running"
        /\ UNCHANGED <<file, told, lost, coalesced>>
    BY <1>15 DEF Start, Started, history
  <2>2. TypeOK'
    <3>1. << >> \in Seq(Notification) /\ Zero \in Counts
      BY ZeroIsNothing
    <3>2. to_write' = Zero /\ notifications_received' = FALSE /\ due' = FALSE
      BY <1>15 DEF Start, Started
    <3> QED BY <1>0, <2>1, <3>1, <3>2 DEF TypeOK
  <2>3. RunInv'
    BY <2>1 DEF RunInv
  <2>4. Ahead' = << >> /\ OnRecord' = Plus(Saved, Zero)
    BY <2>1 DEF Ahead, OnRecord, Saved
  <2>5. OnRecord' = Saved
    BY <1>0, <2>4, NothingAdded DEF RecordTypeOK
  <2>6. CASE ~lost
    <3>1. Ahead = << >> /\ topic_stats_array = Zero /\ main # "write"
      BY <1>0, <1>15, <2>6 DEF RunInv, Start
    <3>2. OnRecord' = OnRecord
      BY <2>4, <3>1 DEF OnRecord
    <3>3. NothingIsLost'
      BY <1>0, <2>1, <2>4, <3>1, <3>2, SameRecord
    <3> QED BY <2>2, <2>3, <3>3 DEF StatsInv
  <2>7. CASE lost
    <3>1. Total(Saved) <= Total(OnRecord)
      <4>1. CASE main = "write"
        BY <1>0, <4>1, SavedIs, ZeroIsNothing DEF RunInv, RecordTypeOK
      <4>2. CASE main # "write"
        BY <1>0, <4>2 DEF RecordTypeOK, OnRecord
      <4> QED BY <4>1, <4>2
    <3>2. Total(OnRecord)' <= Total(OnRecord) /\ Len(Ahead)' <= Len(Ahead)
      BY <1>0, <2>4, <2>5, <3>1 DEF RecordTypeOK
    <3>3. NothingIsLost'
      BY <1>0, <2>1, <2>2, <2>7, <3>2, MarkedAsLost
    <3> QED BY <2>2, <2>3, <3>3 DEF StatsInv
  <2> QED BY <2>6, <2>7
<1> QED BY <1>1, <1>2, <1>3, <1>4, <1>5, <1>6, <1>7, <1>8, <1>9, <1>10, <1>11, <1>12,
           <1>13, <1>14, <1>15 DEF Next, MainLoop

LEMMA StatsInvIsInvariant == Spec => []StatsInv
  BY StatsInvInit, StatsInvStep, PTL DEF Spec

-----------------------------------------------------------------------------
(* Between arrivals in parts and together, updates, kills and restarts: as *)
(* long as nothing is marked as lost, what was told is on record or on its *)
(* way, each notification once.                                            *)
THEOREM TotalsAreConserved == Spec => []TotalsConserved
<1>1. StatsInv => TotalsConserved
  BY ConservedMeans DEF StatsInv
<1> QED BY <1>1, StatsInvIsInvariant, PTL

(* It is counted for its own kind and topic, if different ones never       *)
(* arrived together.                                                       *)
THEOREM CountsAreExact == Spec => []CountsExact
<1>1. StatsInv => CountsExact
  BY ConservedMeans DEF StatsInv
<1> QED BY <1>1, StatsInvIsInvariant, PTL

(* Whatever fails, and whenever the process is killed, nothing that has    *)
(* reached stats.txt is counted again.                                     *)
THEOREM NothingIsCountedTwice == Spec => []NothingCountedTwice
<1>1. StatsInv => NothingCountedTwice
  BY ConservedMeans DEF StatsInv
<1> QED BY <1>1, StatsInvIsInvariant, PTL
=============================================================================
