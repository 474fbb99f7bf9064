-------------------------- MODULE SocketListProofs --------------------------
(* For any number of sockets and addresses and any limit: the linked list  *)
(* stays a list, whatever addresses malloc() reuses, and a walk during     *)
(* which the walker's node is not freed reaches everybody who stays, once. *)
EXTENDS SocketList, RosterLemmas

Node == [socket_ptr : Socket \cup {NULL}, next : Address \cup {NULL}]

ListTypeOK ==
    /\ head \in Address \cup {NULL}
    /\ size \in Nat
    /\ heap \in [Address -> Node]
    /\ cells \in Seq(Address)

Inv == ListTypeOK /\ ListIntact

(* Following next from head meets the cells in order, and then NULL.       *)
LEMMA ChainIsCells ==
  ASSUME Inv
  PROVE  /\ DOMAIN Chain = 1 .. Len(cells) + 1
         /\ \A i \in 1 .. Len(cells) : Chain[i] = cells[i]
         /\ Chain[Len(cells) + 1] = NULL
<1> USE DEF Inv
<1> DEFINE D == 1 .. Len(cells) + 1
           C == [i \in D |-> IF i <= Len(cells) THEN cells[i] ELSE NULL]
           Follows(f) == f = [i \in D |-> IF i = 1 THEN head
                                          ELSE IF f[i - 1] = NULL THEN NULL
                                          ELSE heap[f[i - 1]].next]
<1>0. Len(cells) \in Nat /\ cells \in Seq(Address) /\ NULL \notin Address
  BY SocketListAssumption DEF ListTypeOK
<1>1. Follows(C)
  <2> SUFFICES ASSUME NEW i \in D
               PROVE  C[i] = IF i = 1 THEN head
                             ELSE IF C[i - 1] = NULL THEN NULL ELSE heap[C[i - 1]].next
    OBVIOUS
  <2>1. CASE i = 1
    BY <1>0, <2>1 DEF ListIntact
  <2>2. CASE i # 1
    <3>1. i - 1 \in 1 .. Len(cells) /\ i - 1 \in D
      BY <1>0, <2>2
    <3>2. C[i - 1] = cells[i - 1] /\ cells[i - 1] \in Address
      BY <1>0, <3>1
    <3>3. heap[cells[i - 1]].next = IF i - 1 = Len(cells) THEN NULL ELSE cells[i]
      BY <1>0, <3>1 DEF ListIntact
    <3> QED BY <1>0, <2>2, <3>1, <3>2, <3>3
  <2> QED BY <2>1, <2>2
<1>2. Chain = CHOOSE f : Follows(f)
  BY DEF Chain
<1>3. Follows(Chain)
  BY <1>1, <1>2
<1>4. DOMAIN Chain = D
  BY <1>3
<1>5. \A i \in D : Chain[i] = IF i = 1 THEN head
                              ELSE IF Chain[i - 1] = NULL THEN NULL ELSE heap[Chain[i - 1]].next
  BY <1>3
<1>6. \A i \in D : C[i] = IF i = 1 THEN head
                          ELSE IF C[i - 1] = NULL THEN NULL ELSE heap[C[i - 1]].next
  BY <1>1
<1> HIDE DEF C
<1>7. \A i \in D : Chain[i] = C[i]
  <2> DEFINE B == {i \in D : Chain[i] # C[i]}
  <2> SUFFICES ASSUME B # {} PROVE FALSE
    OBVIOUS
  <2>1. Min(B) \in B /\ \A y \in B : Min(B) <= y
    <3>1. B \in SUBSET Nat
      BY <1>0
    <3> HIDE DEF B
    <3> QED BY <3>1, LeastExists
  <2> DEFINE m == Min(B)
  <2>2. m \in D /\ Chain[m] # C[m]
    BY <2>1
  <2> HIDE DEF m
  <2>3. CASE m = 1
    BY <1>5, <1>6, <2>2, <2>3
  <2>4. CASE m # 1
    <3>1. m - 1 \in D /\ m - 1 < m
      BY <1>0, <2>2, <2>4
    <3>2. Chain[m - 1] = C[m - 1]
      BY <1>0, <2>1, <2>2, <3>1 DEF m
    <3> QED BY <1>5, <1>6, <2>2, <2>4, <3>2
  <2> QED BY <2>3, <2>4
<1> QED BY <1>0, <1>4, <1>7 DEF C

-----------------------------------------------------------------------------
(* The list stays a list.                                                  *)
LEMMA InvInit == Init => Inv
  BY DEF Init, initialize_socket_list, Inv, ListTypeOK, ListIntact, Node, ToSet, IsInjective

LEMMA AddStep ==
  ASSUME Inv, NEW s \in Socket, add_to_start(s)
  PROVE  /\ Inv'
         /\ \E node \in Address \ allocated :
               /\ cells' = Cons(node, cells)
               /\ heap' = [heap EXCEPT ![node] = [socket_ptr |-> s, next |-> head]]
<1> USE DEF Inv
<1>1. PICK node \in Address \ allocated :
        /\ allocated' = allocated \cup {node}
        /\ head' = node
        /\ heap' = [heap EXCEPT ![node] = [socket_ptr |-> s, next |-> head]]
        /\ size' = size + 1
        /\ cells' = Cons(node, cells)
  BY DEF add_to_start
<1> DEFINE n == Len(cells)
<1>2. n \in Nat /\ cells \in Seq(Address) /\ NULL \notin Address
  BY SocketListAssumption DEF ListTypeOK
<1>3. /\ cells' \in Seq(Address) /\ Len(cells') = n + 1
      /\ \A j \in 1 .. n + 1 : cells'[j] = IF j = 1 THEN node ELSE cells[j - 1]
  <2>1. /\ Cons(node, cells) \in Seq(Address) /\ Len(Cons(node, cells)) = Len(cells) + 1
        /\ \A j \in 1 .. Len(cells) + 1 :
              Cons(node, cells)[j] = IF j = 1 THEN node ELSE cells[j - 1]
    <3>1. node \in Address /\ cells \in Seq(Address)
      BY <1>2
    <3> QED BY ONLY <3>1, ConsElements
  <2> QED BY <1>1, <2>1
<1>4. ListTypeOK'
  BY <1>1, <1>3 DEF ListTypeOK, Node
<1>5. \A j \in 1 .. n : cells[j] \in allocated /\ cells[j] # node /\ cells[j] \in Address
  BY <1>1, <1>2 DEF ListIntact, ToSet
<1>6. heap'[node].next = head /\ \A j \in 1 .. n : heap'[cells[j]] = heap[cells[j]]
  BY <1>1, <1>5 DEF ListTypeOK
<1>7. ListIntact'
  <2>1. head' = IF cells' = << >> THEN NULL ELSE cells'[1]
    BY <1>1, <1>2, <1>3
  <2>2. ASSUME NEW j \in 1 .. Len(cells')
        PROVE  heap'[cells'[j]].next = IF j = Len(cells') THEN NULL ELSE cells'[j + 1]
    <3>1. CASE j = 1
      <4>1. cells'[1] = node /\ (n # 0 => cells'[2] = cells[1])
        BY <1>2, <1>3
      <4>2. head = IF n = 0 THEN NULL ELSE cells[1]
        BY <1>2 DEF ListIntact
      <4> QED BY <1>2, <1>3, <1>6, <3>1, <4>1, <4>2
    <3>2. CASE j # 1
      <4>1. j - 1 \in 1 .. n /\ cells'[j] = cells[j - 1]
        BY <1>2, <1>3, <3>2
      <4>2. j # n + 1 => cells'[j + 1] = cells[j]
        BY <1>2, <1>3, <3>2
      <4>3. heap[cells[j - 1]].next = IF j - 1 = n THEN NULL ELSE cells[(j - 1) + 1]
        BY <4>1 DEF ListIntact
      <4>4. j \in Nat /\ (j - 1) + 1 = j
        BY <1>2, <1>3
      <4>5. heap'[cells'[j]].next = IF j = n + 1 THEN NULL ELSE cells[j]
        <5>1. heap'[cells'[j]] = heap[cells[j - 1]]
          BY <1>6, <4>1
        <5>2. j - 1 = n <=> j = n + 1
          BY <1>2, <4>4
        <5> QED BY <4>3, <4>4, <5>1, <5>2
      <4> QED BY <1>3, <4>2, <4>5
    <3> QED BY <3>1, <3>2
  <2>3. allocated' = ToSet(cells')
    <3>1. DOMAIN cells = 1 .. n /\ DOMAIN cells' = 1 .. n + 1
      BY <1>2, <1>3
    <3>2. ASSUME NEW a \in allocated' PROVE a \in ToSet(cells')
      <4>1. CASE a = node
        BY <1>2, <1>3, <3>1, <4>1 DEF ToSet
      <4>2. CASE a # node
        <5>1. PICK j \in 1 .. n : cells[j] = a
          BY <1>1, <3>1, <3>2, <4>2 DEF ListIntact, ToSet
        <5>2. j + 1 \in 1 .. n + 1 /\ cells'[j + 1] = a
          BY <1>2, <1>3, <5>1
        <5> QED BY <3>1, <5>2 DEF ToSet
      <4> QED BY <4>1, <4>2
    <3>3. ASSUME NEW j \in 1 .. n + 1 PROVE cells'[j] \in allocated'
      <4>1. CASE j = 1
        BY <1>1, <1>3, <4>1
      <4>2. CASE j # 1
        <5>1. j - 1 \in 1 .. n
          BY <1>2, <4>2
        <5> QED BY <1>1, <1>3, <1>5, <4>2, <5>1
      <4> QED BY <4>1, <4>2
    <3> QED BY <3>1, <3>2, <3>3 DEF ToSet
  <2>4. IsInjective(cells')
    <3>1. \A j, k \in 1 .. n : cells[j] = cells[k] => j = k
      BY <1>2 DEF ListIntact, IsInjective
    <3>2. ASSUME NEW j \in 1 .. n + 1, NEW k \in 1 .. n + 1, cells'[j] = cells'[k]
          PROVE  j = k
      <4>1. j # 1 => j - 1 \in 1 .. n
        BY <1>2
      <4>2. k # 1 => k - 1 \in 1 .. n
        BY <1>2
      <4>3. CASE j = 1 \/ k = 1
        BY <1>3, <1>5, <3>2, <4>1, <4>2, <4>3
      <4>4. CASE j # 1 /\ k # 1
        <5>1. cells[j - 1] = cells[k - 1]
          BY <1>3, <3>2, <4>4
        <5>2. j - 1 = k - 1
          BY <3>1, <4>1, <4>2, <4>4, <5>1
        <5> QED BY <1>2, <5>2
      <4> QED BY <4>3, <4>4
    <3> QED BY <1>2, <1>3, <3>2 DEF IsInjective
  <2>5. size' = Len(cells')
    BY <1>1, <1>3 DEF ListIntact
  <2> QED BY <2>1, <2>2, <2>3, <2>4, <2>5 DEF ListIntact
<1> QED BY <1>1, <1>4, <1>7

(* What free_node() does, with the history of the nodes in place of the    *)
(* pointers that the code follows.                                         *)
Freed(s, i) ==
    /\ heap[cells[i]].socket_ptr = s
    /\ \A j \in 1 .. i - 1 : heap[cells[j]].socket_ptr # s
    /\ cells' = RemoveAt(cells, i)
    /\ allocated' = allocated \ {cells[i]}
    /\ size' = size - 1
    /\ due' = due \ {cells[i]}
    /\ dangling' = (dangling \/ cells[i] = walker)
    /\ UNCHANGED <<walker, served, process>>
    /\ IF i = 1 THEN head' = heap[head].next /\ heap' = heap
                ELSE /\ heap' = [heap EXCEPT ![cells[i - 1]].next = heap[cells[i]].next]
                     /\ head' = head

LEMMA FreeNodeFrees ==
  ASSUME Inv, NEW s \in Socket, free_node(s)
  PROVE  \E i \in 1 .. Len(cells) : Freed(s, i)
<1> DEFINE n == Len(cells)
<1>0. n \in Nat
  BY DEF Inv, ListTypeOK
<1>1. /\ DOMAIN Chain = 1 .. n + 1
      /\ \A j \in 1 .. n : Chain[j] = cells[j]
      /\ Chain[n + 1] = NULL
  BY ChainIsCells
<1>2. PICK i \in DOMAIN Chain :
        /\ Chain[i] # NULL /\ heap[Chain[i]].socket_ptr = s
        /\ \A j \in 1 .. i - 1 : heap[Chain[j]].socket_ptr # s
        /\ Unlink(s, i)
        /\ allocated' = allocated \ {Chain[i]}
        /\ size' = size - 1
        /\ cells' = RemoveAt(cells, i)
        /\ due' = due \ {Chain[i]}
        /\ dangling' = (dangling \/ Chain[i] = walker)
        /\ UNCHANGED <<walker, served, process>>
  BY DEF free_node
<1>3. i \in 1 .. n /\ Chain[i] = cells[i]
  BY <1>0, <1>1, <1>2
<1>4. \A j \in 1 .. i - 1 : Chain[j] = cells[j]
  BY <1>0, <1>1, <1>3
<1>5. i # 1 => Chain[i - 1] = cells[i - 1]
  BY <1>0, <1>1, <1>3
<1>6. IF i = 1 THEN head' = heap[head].next /\ heap' = heap
               ELSE /\ heap' = [heap EXCEPT ![cells[i - 1]].next = heap[cells[i]].next]
                    /\ head' = head
  BY <1>2, <1>3, <1>5 DEF Unlink
<1> QED BY <1>2, <1>3, <1>4, <1>6 DEF Freed

LEMMA FreedKeepsInv ==
  ASSUME Inv, NEW s \in Socket, NEW i \in 1 .. Len(cells), Freed(s, i)
  PROVE  /\ Inv'
         /\ Len(cells') = Len(cells) - 1
         /\ \A j \in 1 .. Len(cells) - 1 : cells'[j] = IF j < i THEN cells[j] ELSE cells[j + 1]
         /\ \A a \in Address : heap'[a].socket_ptr = heap[a].socket_ptr
<1> USE DEF Inv
<1> DEFINE n == Len(cells)
<1>0. /\ n \in Nat /\ cells \in Seq(Address) /\ NULL \notin Address
      /\ i \in Nat /\ 1 <= i /\ i <= n
  BY SocketListAssumption DEF ListTypeOK
<1>1. /\ cells' \in Seq(Address) /\ Len(cells') = n - 1
      /\ \A j \in 1 .. n - 1 : cells'[j] = IF j < i THEN cells[j] ELSE cells[j + 1]
  <2>1. cells' = RemoveAt(cells, i)
    BY DEF Freed
  <2>2. /\ RemoveAt(cells, i) \in Seq(Address) /\ Len(RemoveAt(cells, i)) = Len(cells) - 1
        /\ \A j \in 1 .. Len(cells) - 1 :
              RemoveAt(cells, i)[j] = IF j < i THEN cells[j] ELSE cells[j + 1]
    BY <1>0, RemoveAtElements
  <2> QED BY <2>1, <2>2
<1>2. \A j \in 1 .. n : cells[j] \in Address
  BY <1>0
<1>3. \A j, k \in 1 .. n : cells[j] = cells[k] => j = k
  BY <1>0 DEF ListIntact, IsInjective
<1>4. \A j \in 1 .. n : heap[cells[j]].next = IF j = n THEN NULL ELSE cells[j + 1]
  BY DEF ListIntact
<1>5. head = cells[1]
  BY <1>0 DEF ListIntact
<1>6. heap' \in [Address -> Node] /\ \A a \in Address :
        /\ heap'[a].socket_ptr = heap[a].socket_ptr
        /\ heap'[a].next = IF i # 1 /\ a = cells[i - 1] THEN heap[cells[i]].next ELSE heap[a].next
  <2>1. CASE i = 1
    BY <2>1 DEF Freed, ListTypeOK
  <2>2. CASE i # 1
    <3>1. heap' = [heap EXCEPT ![cells[i - 1]].next = heap[cells[i]].next]
      BY <2>2 DEF Freed
    <3>2. cells[i - 1] \in Address
      BY <1>0, <1>2, <2>2
    <3>3. heap[cells[i]].next \in Address \cup {NULL}
      BY <1>2 DEF ListTypeOK, Node
    <3>4. heap \in [Address -> Node]
      BY DEF ListTypeOK
    <3> QED BY <2>2, <3>1, <3>2, <3>3, <3>4 DEF Node
  <2> QED BY <2>1, <2>2
<1>7. head' = IF n = 1 THEN NULL ELSE cells'[1]
  <2>1. CASE i = 1
    <3>1. head' = heap[cells[1]].next
      BY <1>5, <2>1 DEF Freed
    <3>2. n # 1 => cells'[1] = cells[2]
      BY <1>0, <1>1, <2>1
    <3>3. heap[cells[1]].next = IF n = 1 THEN NULL ELSE cells[2]
      <4>1. 1 \in 1 .. n /\ 1 + 1 = 2
        BY <1>0
      <4>2. heap[cells[1]].next = IF 1 = n THEN NULL ELSE cells[1 + 1]
        BY <1>4, <4>1
      <4> QED BY <4>1, <4>2
    <3> QED BY <3>1, <3>2, <3>3
  <2>2. CASE i # 1
    <3>1. head' = cells[1] /\ n # 1
      BY <1>0, <1>5, <2>2 DEF Freed
    <3>2. cells'[1] = cells[1]
      BY <1>0, <1>1, <2>2
    <3> QED BY <3>1, <3>2
  <2> QED BY <2>1, <2>2
<1>8. ListTypeOK'
  <2>1. head' \in Address \cup {NULL}
    <3>1. n # 1 => cells'[1] \in Address
      BY <1>0, <1>1
    <3> QED BY <1>7, <3>1
  <2>2. size' \in Nat
    BY <1>0 DEF Freed, ListIntact
  <2> QED BY <1>1, <1>6, <2>1, <2>2 DEF ListTypeOK
<1>9. ASSUME NEW j \in 1 .. n - 1
      PROVE  heap'[cells'[j]].next = IF j = n - 1 THEN NULL ELSE cells'[j + 1]
  <2>0. j \in Nat /\ 1 <= j /\ j <= n - 1 /\ j \in 1 .. n /\ j + 1 \in 1 .. n
    BY <1>0
  <2>1. CASE j = i - 1
    <3>1. cells'[j] = cells[j] /\ heap'[cells[j]].next = heap[cells[i]].next
      BY <1>0, <1>1, <1>2, <1>6, <2>0, <2>1
    <3>2. heap[cells[i]].next = IF i = n THEN NULL ELSE cells[i + 1]
      BY <1>4
    <3>3. j # n - 1 => cells'[j + 1] = cells[i + 1]
      BY <1>0, <1>1, <2>0, <2>1
    <3> QED BY <1>0, <2>0, <2>1, <3>1, <3>2, <3>3
  <2>2. CASE j < i - 1
    <3>1. cells'[j] = cells[j] /\ i - 1 \in 1 .. n
      BY <1>0, <1>1, <2>0, <2>2
    <3>2. cells[j] # cells[i - 1]
      BY <1>0, <1>3, <2>0, <2>2, <3>1
    <3>3. heap'[cells[j]].next = heap[cells[j]].next
      BY <1>2, <1>6, <2>0, <3>2
    <3>4. heap[cells[j]].next = cells[j + 1]
      BY <1>0, <1>4, <2>0
    <3>5. cells'[j + 1] = cells[j + 1] /\ j # n - 1
      BY <1>0, <1>1, <2>0, <2>2
    <3> QED BY <3>1, <3>3, <3>4, <3>5
  <2>3. CASE j >= i
    <3>1. cells'[j] = cells[j + 1]
      BY <1>1, <1>0, <2>0, <2>3
    <3>2. i # 1 => cells[j + 1] # cells[i - 1]
      <4>1. i # 1 => i - 1 \in 1 .. n /\ i - 1 # j + 1
        BY <1>0, <2>0, <2>3
      <4> QED BY <1>3, <2>0, <4>1
    <3>3. heap'[cells[j + 1]].next = heap[cells[j + 1]].next
      BY <1>2, <1>6, <2>0, <3>2
    <3>4. heap[cells[j + 1]].next = IF j + 1 = n THEN NULL ELSE cells[j + 1 + 1]
      BY <1>4, <2>0
    <3>5. j # n - 1 => cells'[j + 1] = cells[j + 1 + 1]
      BY <1>0, <1>1, <2>0, <2>3
    <3> QED BY <1>0, <2>0, <3>1, <3>3, <3>4, <3>5
  <2> QED BY <1>0, <2>0, <2>1, <2>2, <2>3
<1>10. allocated' = ToSet(cells')
  <2>1. DOMAIN cells = 1 .. n /\ DOMAIN cells' = 1 .. n - 1
    BY <1>0, <1>1
  <2>2. allocated' = {cells[j] : j \in 1 .. n} \ {cells[i]}
    BY <2>1 DEF Freed, ListIntact, ToSet
  <2>3. ASSUME NEW a \in allocated' PROVE a \in ToSet(cells')
    <3>1. PICK j \in 1 .. n : cells[j] = a /\ j # i
      BY <2>2, <2>3
    <3>2. CASE j < i
      <4>1. j \in 1 .. n - 1 /\ cells'[j] = a
        BY <1>0, <1>1, <3>1, <3>2
      <4> QED BY <2>1, <4>1 DEF ToSet
    <3>3. CASE j > i
      <4>1. j - 1 \in 1 .. n - 1 /\ cells'[j - 1] = cells[j - 1 + 1] /\ j - 1 + 1 = j
        BY <1>0, <1>1, <3>1, <3>3
      <4> QED BY <2>1, <3>1, <4>1 DEF ToSet
    <3> QED BY <1>0, <3>1, <3>2, <3>3
  <2>4. ASSUME NEW j \in 1 .. n - 1 PROVE cells'[j] \in allocated'
    <3>1. PICK k \in 1 .. n : k # i /\ cells'[j] = cells[k]
      <4>1. CASE j < i
        BY <1>0, <1>1, <4>1
      <4>2. CASE ~(j < i)
        <5>1. j + 1 \in 1 .. n /\ j + 1 # i
          BY <1>0, <4>2
        <5> QED BY <1>1, <4>2, <5>1
      <4> QED BY <4>1, <4>2
    <3>2. cells[k] # cells[i]
      BY <1>3, <3>1
    <3> QED BY <2>2, <3>1, <3>2
  <2> QED BY <2>1, <2>3, <2>4 DEF ToSet
<1>11. IsInjective(cells')
  <2>1. ASSUME NEW j \in 1 .. n - 1, NEW k \in 1 .. n - 1, cells'[j] = cells'[k]
        PROVE  j = k
    <3> DEFINE at(m) == IF m < i THEN m ELSE m + 1
    <3>1. at(j) \in 1 .. n /\ at(k) \in 1 .. n
      BY <1>0
    <3>2. cells'[j] = cells[at(j)] /\ cells'[k] = cells[at(k)]
      BY <1>1
    <3>3. at(j) = at(k)
      BY <1>3, <2>1, <3>1, <3>2
    <3> QED BY <1>0, <3>3
  <2> QED BY <1>0, <1>1, <2>1 DEF IsInjective
<1>12. ListIntact'
  <2>1. head' = IF cells' = << >> THEN NULL ELSE cells'[1]
    BY <1>0, <1>1, <1>7
  <2>2. \A j \in 1 .. Len(cells') :
          heap'[cells'[j]].next = IF j = Len(cells') THEN NULL ELSE cells'[j + 1]
    BY <1>1, <1>9
  <2>3. size' = Len(cells')
    BY <1>1 DEF Freed, ListIntact
  <2> QED BY <1>10, <1>11, <2>1, <2>2, <2>3 DEF ListIntact
<1> QED BY <1>1, <1>6, <1>8, <1>12

LEMMA InvStep == Inv /\ [Next]_socketListVars => Inv'
<1> SUFFICES ASSUME Inv, [Next]_socketListVars PROVE Inv'
  OBVIOUS
<1>1. ASSUME NEW s \in Socket, subscribe(s) PROVE Inv'
  BY <1>1, AddStep DEF subscribe
<1>2. ASSUME NEW s \in Socket, free_node(s) PROVE Inv'
  BY <1>2, FreeNodeFrees, FreedKeepsInv
<1>3. CASE UNCHANGED listVars
  BY <1>3 DEF Inv, listVars, ListTypeOK, ListIntact
<1>4. StartWalk \/ WalkOn => UNCHANGED listVars
  BY DEF StartWalk, WalkOn
<1> QED BY <1>1, <1>2, <1>3, <1>4 DEF Next, socketListVars

LEMMA InvIsInvariant == Spec => []Inv
  BY InvInit, InvStep, PTL DEF Spec

-----------------------------------------------------------------------------
(* The walk.  As long as its node has not been freed the walker is on the  *)
(* list, nobody ahead of it was served before, although a freed address    *)
(* may be in use again, and whoever is due is behind it or ahead of it.    *)
Ahead(p) == {cells[q] : q \in p + 1 .. Len(cells)}

WalkerAt(p) ==
    /\ cells[p] = walker
    /\ \A a \in Ahead(p) : a \notin ToSet(served)
    /\ due \subseteq ToSet(served) \cup Ahead(p)

WalkInv ==
    /\ walker \in Address \cup {NULL} /\ served \in Seq(Address)
    /\ ~dangling =>
          /\ IsInjective(served)
          /\ walker = NULL => due \subseteq ToSet(served)
          /\ walker # NULL => \E p \in 1 .. Len(cells) : WalkerAt(p)

LEMMA WalkInvInit == Init => WalkInv
  BY DEF Init, WalkInv, IsInjective, ToSet

LEMMA AddKeepsWalk ==
  ASSUME Inv, WalkInv, NEW s \in Socket, add_to_start(s)
  PROVE  WalkInv'
<1>1. UNCHANGED walkVars
  BY DEF add_to_start
<1>2. PICK node \in Address \ allocated : cells' = Cons(node, cells)
  BY AddStep
<1>3. /\ cells \in Seq(Address) /\ Len(cells) \in Nat /\ Len(cells') = Len(cells) + 1
      /\ \A j \in 1 .. Len(cells) + 1 : cells'[j] = IF j = 1 THEN node ELSE cells[j - 1]
  <2>1. cells \in Seq(Address) /\ node \in Address
    BY DEF Inv, ListTypeOK
  <2>2. /\ Cons(node, cells) \in Seq(Address) /\ Len(Cons(node, cells)) = Len(cells) + 1
        /\ \A j \in 1 .. Len(cells) + 1 :
              Cons(node, cells)[j] = IF j = 1 THEN node ELSE cells[j - 1]
    BY ONLY <2>1, ConsElements
  <2> QED BY <1>2, <2>1, <2>2
<1>4. ASSUME NEW p \in 1 .. Len(cells), WalkerAt(p)
      PROVE  p + 1 \in 1 .. Len(cells') /\ WalkerAt(p + 1)'
  <2>1. p + 1 \in 1 .. Len(cells') /\ cells'[p + 1] = cells[p]
    BY <1>3
  <2>2. Ahead(p + 1)' = Ahead(p)
    <3>1. ASSUME NEW q \in p + 1 .. Len(cells)
          PROVE  q + 1 \in p + 1 + 1 .. Len(cells') /\ cells'[q + 1] = cells[q]
      BY <1>3
    <3>2. ASSUME NEW q \in p + 1 + 1 .. Len(cells')
          PROVE  q - 1 \in p + 1 .. Len(cells) /\ cells'[q] = cells[q - 1]
      BY <1>3
    <3>3. ASSUME NEW a \in Ahead(p) PROVE a \in Ahead(p + 1)'
      <4>1. PICK q \in p + 1 .. Len(cells) : a = cells[q]
        BY DEF Ahead
      <4> QED BY <3>1, <4>1 DEF Ahead
    <3>4. ASSUME NEW a \in Ahead(p + 1)' PROVE a \in Ahead(p)
      <4>1. PICK q \in p + 1 + 1 .. Len(cells') : a = cells'[q]
        BY DEF Ahead
      <4> QED BY <3>2, <4>1 DEF Ahead
    <3> QED BY <3>3, <3>4
  <2> QED BY <1>1, <1>4, <2>1, <2>2 DEF WalkerAt, walkVars
<1>5. walker # NULL /\ ~dangling => \E p \in 1 .. Len(cells') : WalkerAt(p)'
  BY <1>4 DEF WalkInv
<1> QED BY <1>1, <1>5 DEF WalkInv, walkVars

LEMMA FreedKeepsWalk ==
  ASSUME Inv, WalkInv, NEW s \in Socket, NEW i \in 1 .. Len(cells), Freed(s, i)
  PROVE  WalkInv'
<1> DEFINE n == Len(cells)
<1>1. /\ n \in Nat /\ Len(cells') = n - 1
      /\ \A j \in 1 .. n - 1 : cells'[j] = IF j < i THEN cells[j] ELSE cells[j + 1]
      /\ \A j, k \in 1 .. n : cells[j] = cells[k] => j = k
      /\ \A j \in 1 .. n : cells[j] \in Address
  <2>1. cells \in Seq(Address) /\ IsInjective(cells)
    BY DEF Inv, ListTypeOK, ListIntact
  <2>2. \A j, k \in 1 .. n : cells[j] = cells[k] => j = k
    BY <2>1 DEF IsInjective
  <2>3. /\ Len(cells') = n - 1
        /\ \A j \in 1 .. n - 1 : cells'[j] = IF j < i THEN cells[j] ELSE cells[j + 1]
    BY FreedKeepsInv
  <2>4. n \in Nat /\ \A j \in 1 .. n : cells[j] \in Address
    BY <2>1
  <2> QED BY ONLY <2>2, <2>3, <2>4
<1>2. /\ due' = due \ {cells[i]} /\ dangling' = (dangling \/ cells[i] = walker)
      /\ UNCHANGED <<walker, served>>
  BY DEF Freed
<1>3. ASSUME NEW p \in 1 .. n, WalkerAt(p), p # i
      PROVE  \E r \in 1 .. n - 1 : WalkerAt(r)'
  <2> DEFINE r == IF p < i THEN p ELSE p - 1
  <2>1. r \in 1 .. n - 1 /\ cells'[r] = cells[p]
    BY <1>1, <1>3
  <2>2. ASSUME NEW a \in Ahead(r)' PROVE a \in Ahead(p)
    <3>1. PICK q \in r + 1 .. n - 1 : a = cells'[q]
      BY <1>1 DEF Ahead
    <3>2. q \in 1 .. n - 1
      BY <2>1, <3>1
    <3>3. CASE q < i
      <4>1. q \in p + 1 .. n /\ a = cells[q]
        BY <1>1, <1>3, <2>1, <3>1, <3>2, <3>3
      <4> QED BY <4>1 DEF Ahead
    <3>4. CASE ~(q < i)
      <4>1. q + 1 \in p + 1 .. n /\ a = cells[q + 1]
        BY <1>1, <1>3, <2>1, <3>1, <3>2, <3>4
      <4> QED BY <4>1 DEF Ahead
    <3> QED BY <3>3, <3>4
  <2>3. ASSUME NEW a \in Ahead(p), a # cells[i] PROVE a \in Ahead(r)'
    <3>1. PICK q \in p + 1 .. n : a = cells[q] /\ q # i
      BY <2>3 DEF Ahead
    <3>2. CASE q < i
      <4>1. q \in r + 1 .. n - 1 /\ cells'[q] = a
        BY <1>1, <2>1, <3>1, <3>2
      <4> QED BY <1>1, <4>1 DEF Ahead
    <3>3. CASE q > i
      <4>1. q - 1 \in r + 1 .. n - 1 /\ q - 1 \in 1 .. n - 1 /\ ~(q - 1 < i) /\ q - 1 + 1 = q
        BY <1>1, <1>3, <2>1, <3>1, <3>3
      <4>2. cells'[q - 1] = a
        BY <1>1, <3>1, <4>1
      <4> QED BY <1>1, <4>1, <4>2 DEF Ahead
    <3> QED BY <1>1, <3>1, <3>2, <3>3
  <2>4. WalkerAt(r)'
    BY <1>2, <1>3, <2>1, <2>2, <2>3 DEF WalkerAt
  <2> QED BY <2>1, <2>4
<1>4. ASSUME ~dangling', walker # NULL PROVE \E r \in 1 .. n - 1 : WalkerAt(r)'
  <2>1. PICK p \in 1 .. n : WalkerAt(p)
    BY <1>2, <1>4 DEF WalkInv
  <2>2. p # i
    BY <1>2, <1>4, <2>1 DEF WalkerAt
  <2> QED BY <1>3, <2>1, <2>2
<1> QED BY <1>1, <1>2, <1>4 DEF WalkInv

LEMMA StartKeepsWalk ==
  ASSUME Inv, StartWalk
  PROVE  WalkInv'
<1>1. /\ cells \in Seq(Address) /\ Len(cells) \in Nat /\ NULL \notin Address
      /\ \A j, k \in 1 .. Len(cells) : cells[j] = cells[k] => j = k
  BY SocketListAssumption DEF Inv, ListTypeOK, ListIntact, IsInjective
<1>2. /\ walker' = head /\ served' = <<head>> /\ due' = ToSet(cells) /\ cells' = cells
  BY DEF StartWalk, listVars
<1>3. Len(cells) # 0 /\ head = cells[1] /\ head \in Address
  BY <1>1 DEF StartWalk, Inv, ListIntact
<1>4. served' \in Seq(Address) /\ ToSet(served') = {head} /\ IsInjective(served')
  BY <1>2, <1>3 DEF ToSet, IsInjective
<1>5. WalkerAt(1)'
  <2>1. \A a \in Ahead(1)' : a # head
    BY <1>1, <1>2, <1>3 DEF Ahead
  <2>2. due' \subseteq {head} \cup Ahead(1)'
    BY <1>1, <1>2, <1>3 DEF Ahead, ToSet
  <2> QED BY <1>2, <1>3, <1>4, <2>1, <2>2 DEF WalkerAt
<1> QED BY <1>1, <1>2, <1>3, <1>4, <1>5 DEF WalkInv

LEMMA WalkOnKeepsWalk ==
  ASSUME Inv, WalkInv, WalkOn
  PROVE  WalkInv'
<1>1. /\ cells \in Seq(Address) /\ Len(cells) \in Nat /\ NULL \notin Address
      /\ heap \in [Address -> Node]
      /\ walker \in Address /\ served \in Seq(Address)
      /\ UNCHANGED <<cells, due, dangling>>
  BY SocketListAssumption DEF Inv, ListTypeOK, WalkInv, WalkOn, listVars
<1>2. CASE UNCHANGED <<walker, served>>
  BY <1>1, <1>2 DEF WalkInv, WalkerAt, Ahead
<1>3. ASSUME walker' = heap[walker].next,
             served' = IF walker' = NULL THEN served ELSE Append(served, walker')
      PROVE  WalkInv'
  <2>1. walker' \in Address \cup {NULL}
    BY <1>1, <1>3 DEF Node
  <2>2. served' \in Seq(Address)
    BY <1>1, <1>3, <2>1
  <2>3. CASE dangling
    BY <1>1, <2>1, <2>2, <2>3 DEF WalkInv
  <2>4. CASE ~dangling
    <3>1. PICK p \in 1 .. Len(cells) : WalkerAt(p)
      BY <1>1, <2>4 DEF WalkInv
    <3>2. walker' = IF p = Len(cells) THEN NULL ELSE cells[p + 1]
      BY <1>3, <3>1 DEF Inv, ListIntact, WalkerAt
    <3>3. IsInjective(served)
      BY <2>4 DEF WalkInv
    <3>4. CASE p = Len(cells)
      <4>1. Ahead(p) = {}
        BY <1>1, <3>4 DEF Ahead
      <4>2. due \subseteq ToSet(served)
        BY <3>1, <4>1 DEF WalkerAt
      <4> QED BY <1>1, <1>3, <2>1, <2>2, <3>2, <3>3, <3>4, <4>2 DEF WalkInv
    <3>5. CASE p # Len(cells)
      <4>1. p + 1 \in 1 .. Len(cells) /\ walker' = cells[p + 1] /\ walker' \in Address
        BY <1>1, <3>2, <3>5
      <4>2. walker' \in Ahead(p) /\ Ahead(p) = {walker'} \cup Ahead(p + 1)
        BY <1>1, <4>1 DEF Ahead
      <4>3. walker' \notin Ahead(p + 1)
        <5>1. \A j, k \in 1 .. Len(cells) : cells[j] = cells[k] => j = k
          <6>1. IsInjective(cells) /\ DOMAIN cells = 1 .. Len(cells)
            BY <1>1 DEF Inv, ListIntact
          <6> QED BY <6>1 DEF IsInjective
        <5>2. ASSUME NEW q \in p + 1 + 1 .. Len(cells) PROVE cells[q] # walker'
          <6>1. q \in 1 .. Len(cells) /\ q # p + 1
            BY <1>1
          <6> QED BY <4>1, <5>1, <6>1
        <5> QED BY <5>2 DEF Ahead
      <4>4. served' = Append(served, walker')
        BY <1>1, <1>3, <4>1
      <4>5. ToSet(served') = ToSet(served) \cup {walker'}
        <5>1. /\ DOMAIN served = 1 .. Len(served) /\ Len(served) \in Nat
              /\ DOMAIN served' = 1 .. Len(served) + 1
              /\ \A j \in 1 .. Len(served) : served'[j] = served[j]
              /\ served'[Len(served) + 1] = walker'
          BY <1>1, <4>1, <4>4
        <5>2. \A j \in 1 .. Len(served) + 1 : j \in 1 .. Len(served) \/ j = Len(served) + 1
          BY <5>1
        <5>3. ToSet(served') \subseteq ToSet(served) \cup {walker'}
          BY <5>1, <5>2 DEF ToSet
        <5>4. ToSet(served) \cup {walker'} \subseteq ToSet(served')
          BY <5>1 DEF ToSet
        <5> QED BY <5>3, <5>4
      <4>6. walker' \notin ToSet(served)
        BY <3>1, <4>2 DEF WalkerAt
      <4>7. IsInjective(served')
        BY <1>1, <3>3, <4>1, <4>4, <4>6 DEF IsInjective, ToSet
      <4>8. WalkerAt(p + 1)'
        <5>1. Ahead(p + 1)' = Ahead(p + 1)
          BY <1>1 DEF Ahead
        <5> QED BY <1>1, <3>1, <4>1, <4>2, <4>3, <4>5, <5>1 DEF WalkerAt
      <4> QED BY <1>1, <2>1, <2>2, <4>1, <4>7, <4>8 DEF WalkInv
    <3> QED BY <3>4, <3>5
  <2> QED BY <2>3, <2>4
<1> QED BY <1>2, <1>3 DEF WalkOn

LEMMA WalkInvStep == Inv /\ WalkInv /\ [Next]_socketListVars => WalkInv'
<1> SUFFICES ASSUME Inv, WalkInv, [Next]_socketListVars PROVE WalkInv'
  OBVIOUS
<1>1. ASSUME NEW s \in Socket, subscribe(s) PROVE WalkInv'
  BY <1>1, AddKeepsWalk DEF subscribe
<1>2. ASSUME NEW s \in Socket, free_node(s) PROVE WalkInv'
  BY <1>2, FreeNodeFrees, FreedKeepsWalk
<1>3. CASE UNCHANGED socketListVars
  BY <1>3 DEF WalkInv, WalkerAt, Ahead, socketListVars, listVars, walkVars
<1> QED BY <1>1, <1>2, <1>3, StartKeepsWalk, WalkOnKeepsWalk DEF Next

LEMMA WalkInvIsInvariant == Spec => []WalkInv
  BY WalkInvInit, WalkInvStep, InvIsInvariant, PTL DEF Spec

-----------------------------------------------------------------------------
(* Whatever addresses malloc() gives out again, and whichever node goes,   *)
(* what hangs off head after add_to_start() and free_node() is the         *)
(* allocated nodes, each once, as many as size says.                       *)
THEOREM SocketListStaysIntact == Spec => []ListIntact
<1>1. Inv => ListIntact
  BY DEF Inv
<1> QED BY <1>1, InvIsInvariant, PTL

(* The consumer gives the critical section up for every send and main      *)
(* changes the list meanwhile; yet a walk whose node is not freed under it *)
(* sends to every subscriber that was listed when it began and stayed.     *)
THEOREM StayersAreServed == Spec => []EveryStayerServed
<1>1. WalkInv => EveryStayerServed
  BY DEF WalkInv, EveryStayerServed
<1> QED BY <1>1, WalkInvIsInvariant, PTL

(* Such a walk sends to no node twice, reused addresses included.          *)
THEOREM NobodyIsServedTwice == Spec => []NoneServedTwice
<1>1. WalkInv => NoneServedTwice
  BY DEF WalkInv, NoneServedTwice
<1> QED BY <1>1, WalkInvIsInvariant, PTL

-----------------------------------------------------------------------------
(* The list as main sees it.                                               *)
Sockets == [i \in 1 .. Len(cells) |-> heap[cells[i]].socket_ptr]

LEMMA SocketsAreSequence ==
  ASSUME Inv
  PROVE  /\ Sockets \in Seq(Socket \cup {NULL}) /\ Len(Sockets) = Len(cells)
         /\ \A i \in 1 .. Len(cells) : Sockets[i] = heap[cells[i]].socket_ptr
<1>1. /\ Len(cells) \in Nat
      /\ \A i \in 1 .. Len(cells) : heap[cells[i]].socket_ptr \in Socket \cup {NULL}
  BY DEF Inv, ListTypeOK, Node
<1> QED BY <1>1 DEF Sockets

LEMMA SocketsAreSequenceNext ==
  ASSUME Inv'
  PROVE  /\ Sockets' \in Seq(Socket \cup {NULL}) /\ Len(Sockets') = Len(cells')
         /\ \A i \in 1 .. Len(cells') : Sockets'[i] = heap'[cells'[i]].socket_ptr
<1>1. /\ Len(cells') \in Nat
      /\ \A i \in 1 .. Len(cells') : heap'[cells'[i]].socket_ptr \in Socket \cup {NULL}
  BY DEF Inv, ListTypeOK, Node
<1> QED BY <1>1 DEF Sockets

LEMMA AddJoins ==
  ASSUME Inv, NEW s \in Socket, add_to_start(s)
  PROVE  Sockets' = Cons(s, Sockets)
<1> DEFINE n == Len(cells)
           S == Socket \cup {NULL}
<1>1. PICK node \in Address \ allocated :
        /\ cells' = Cons(node, cells)
        /\ heap' = [heap EXCEPT ![node] = [socket_ptr |-> s, next |-> head]]
  BY AddStep
<1>2. cells \in Seq(Address) /\ node \in Address /\ n \in Nat /\ heap \in [Address -> Node]
  BY DEF Inv, ListTypeOK
<1>3. /\ Len(cells') = n + 1
      /\ \A j \in 1 .. n + 1 : cells'[j] = IF j = 1 THEN node ELSE cells[j - 1]
  <2>1. /\ Len(Cons(node, cells)) = Len(cells) + 1
        /\ \A j \in 1 .. Len(cells) + 1 :
              Cons(node, cells)[j] = IF j = 1 THEN node ELSE cells[j - 1]
    BY ONLY <1>2, ConsElements
  <2> QED BY <1>1, <2>1
<1>4. /\ Sockets \in Seq(S) /\ Len(Sockets) = n
      /\ \A j \in 1 .. n : Sockets[j] = heap[cells[j]].socket_ptr
  BY SocketsAreSequence
<1>5. Inv'
  BY AddStep
<1>6. /\ Sockets' \in Seq(S) /\ Len(Sockets') = n + 1
      /\ \A j \in 1 .. n + 1 : Sockets'[j] = heap'[cells'[j]].socket_ptr
  BY <1>3, <1>5, SocketsAreSequenceNext
<1>7. /\ Cons(s, Sockets) \in Seq(S) /\ Len(Cons(s, Sockets)) = n + 1
      /\ \A j \in 1 .. n + 1 : Cons(s, Sockets)[j] = IF j = 1 THEN s ELSE Sockets[j - 1]
  <2>1. s \in S
    OBVIOUS
  <2> HIDE DEF S
  <2>2. /\ Cons(s, Sockets) \in Seq(S) /\ Len(Cons(s, Sockets)) = Len(Sockets) + 1
        /\ \A j \in 1 .. Len(Sockets) + 1 :
              Cons(s, Sockets)[j] = IF j = 1 THEN s ELSE Sockets[j - 1]
    <3>1. Sockets \in Seq(S) /\ s \in S
      BY <1>4, <2>1
    <3> DEFINE q == Sockets
    <3>2. q \in Seq(S) /\ s \in S
      BY <3>1
    <3> HIDE DEF q
    <3>3. /\ Cons(s, q) \in Seq(S) /\ Len(Cons(s, q)) = Len(q) + 1
          /\ \A j \in 1 .. Len(q) + 1 : Cons(s, q)[j] = IF j = 1 THEN s ELSE q[j - 1]
      BY ONLY <3>2, ConsElements
    <3> QED BY <3>3 DEF q
  <2> QED BY <1>4, <2>2
<1>8. ASSUME NEW j \in 1 .. n + 1 PROVE Sockets'[j] = Cons(s, Sockets)[j]
  <2>1. CASE j = 1
    BY <1>1, <1>2, <1>3, <1>6, <1>7, <2>1
  <2>2. CASE j # 1
    <3>1. j - 1 \in 1 .. n
      BY <1>2, <2>2
    <3>2. cells[j - 1] \in allocated /\ cells[j - 1] \in Address
      BY <1>2, <3>1 DEF Inv, ListIntact, ToSet
    <3>3. heap'[cells[j - 1]] = heap[cells[j - 1]]
      BY <1>1, <1>2, <3>2
    <3>4. Sockets'[j] = heap'[cells[j - 1]].socket_ptr
      BY <1>3, <1>6, <2>2
    <3>5. Sockets[j - 1] = heap[cells[j - 1]].socket_ptr
      BY <1>4, <3>1
    <3>6. Cons(s, Sockets)[j] = Sockets[j - 1]
      BY <1>7, <2>2
    <3> QED BY <3>3, <3>4, <3>5, <3>6
  <2> QED BY <2>1, <2>2
<1> QED
  <2> DEFINE q == Sockets'
             r == Cons(s, Sockets)
  <2>1. /\ q \in Seq(S) /\ r \in Seq(S) /\ Len(q) = Len(r)
        /\ \A j \in 1 .. Len(q) : q[j] = r[j]
    BY <1>6, <1>7, <1>8
  <2> HIDE DEF q, r, S
  <2>2. q = r
    BY ONLY <2>1, SeqEqual
  <2> QED BY <2>2 DEF q, r

LEMMA FreedLeaves ==
  ASSUME Inv, NEW s \in Socket, NEW i \in 1 .. Len(cells), Freed(s, i)
  PROVE  s \in ToSet(Sockets) /\ Sockets' = RemoveFirst(Sockets, s)
<1> DEFINE n == Len(cells)
           S == Socket \cup {NULL}
<1>1. /\ n \in Nat /\ cells \in Seq(Address)
      /\ \A j \in 1 .. n : cells[j] \in Address
  BY DEF Inv, ListTypeOK
<1>2. /\ Inv' /\ Len(cells') = n - 1
      /\ \A j \in 1 .. n - 1 : cells'[j] = IF j < i THEN cells[j] ELSE cells[j + 1]
      /\ \A a \in Address : heap'[a].socket_ptr = heap[a].socket_ptr
  BY FreedKeepsInv
<1>3. /\ Sockets \in Seq(S) /\ Len(Sockets) = n
      /\ \A j \in 1 .. n : Sockets[j] = heap[cells[j]].socket_ptr
  BY SocketsAreSequence
<1>4. /\ Sockets' \in Seq(S) /\ Len(Sockets') = n - 1
      /\ \A j \in 1 .. n - 1 : Sockets'[j] = heap'[cells'[j]].socket_ptr
  BY <1>2, SocketsAreSequenceNext
<1>5. Sockets[i] = s /\ \A j \in 1 .. i - 1 : Sockets[j] # s
  <2>1. i \in 1 .. n /\ heap[cells[i]].socket_ptr = s
    BY DEF Freed
  <2>2. ASSUME NEW j \in 1 .. i - 1 PROVE Sockets[j] # s
    <3>1. j \in 1 .. n
      BY <1>1
    <3> QED BY <1>3, <3>1 DEF Freed
  <2> QED BY <1>3, <2>1, <2>2
<1>6. s \in ToSet(Sockets)
  BY <1>3, <1>5 DEF ToSet
<1>7. FirstAt(Sockets, s) = i
  <2>1. /\ FirstAt(Sockets, s) \in 1 .. n /\ Sockets[FirstAt(Sockets, s)] = s
        /\ FirstAt(Sockets, s) <= i
    BY <1>3, <1>5, <1>6, FirstIsNearest
  <2>2. ~(FirstAt(Sockets, s) < i)
    <3>1. FirstAt(Sockets, s) < i => FirstAt(Sockets, s) \in 1 .. i - 1
      BY <2>1
    <3> QED BY <1>5, <2>1, <3>1
  <2> QED BY <2>1, <2>2
<1>8. /\ RemoveFirst(Sockets, s) \in Seq(S) /\ Len(RemoveFirst(Sockets, s)) = n - 1
      /\ \A j \in 1 .. n - 1 :
            RemoveFirst(Sockets, s)[j] = IF j < i THEN Sockets[j] ELSE Sockets[j + 1]
  <2>1. /\ RemoveFirst(Sockets, s) \in Seq(S)
        /\ Len(RemoveFirst(Sockets, s)) = Len(Sockets) - 1
        /\ \A j \in 1 .. Len(Sockets) - 1 :
              RemoveFirst(Sockets, s)[j] =
                IF j < FirstAt(Sockets, s) THEN Sockets[j] ELSE Sockets[j + 1]
    BY ONLY <1>3, <1>6, RemoveFirstElements
  <2> QED BY <1>3, <1>7, <2>1
<1>9. ASSUME NEW j \in 1 .. n - 1 PROVE Sockets'[j] = RemoveFirst(Sockets, s)[j]
  <2>1. j \in 1 .. n /\ j + 1 \in 1 .. n
    BY <1>1
  <2>2. Sockets'[j] = heap[cells'[j]].socket_ptr
    <3>1. cells'[j] \in Address
      BY <1>1, <1>2, <2>1
    <3> QED BY <1>2, <1>4, <3>1
  <2> QED BY <1>2, <1>3, <1>8, <2>1, <2>2
<1>10. Len(Sockets') = Len(RemoveFirst(Sockets, s))
  BY <1>4, <1>8
<1>11. \A j \in 1 .. Len(Sockets') : Sockets'[j] = RemoveFirst(Sockets, s)[j]
  BY <1>4, <1>9
<1> HIDE DEF S
<1> QED BY <1>4, <1>6, <1>8, <1>10, <1>11, SeqEqual

LEMMA RosterInit == Init => Roster!Init
<1> SUFFICES ASSUME Init PROVE Roster!Init
  OBVIOUS
<1>1. cells = << >> /\ size = 0
  BY DEF Init, initialize_socket_list
<1>2. Sockets = << >>
  BY <1>1 DEF Sockets
<1> QED BY <1>1, <1>2 DEF Roster!Init, Sockets

LEMMA SameRemoval ==
  ASSUME NEW q, NEW e
  PROVE  Roster!RemoveFirst(q, e) = RemoveFirst(q, e)
<1> DEFINE I == {k \in 1 .. Len(q) : q[k] = e}
<1>1. SelectInSeq(q, LAMBDA v : v = e) = IF I # {} THEN Min(I) ELSE 0
  BY DEF SelectInSeq
<1>2. Roster!SelectInSeq(q, LAMBDA v : v = e) = IF I # {} THEN Min(I) ELSE 0
  BY DEF Roster!SelectInSeq, Roster!Min, Min
<1> QED BY <1>1, <1>2 DEF RemoveFirst, Roster!RemoveFirst, RemoveAt, Roster!RemoveAt

LEMMA RosterStep ==
  Inv /\ [Next]_socketListVars => [Roster!Next]_(Roster!rosterVars)
<1> SUFFICES ASSUME Inv, [Next]_socketListVars
             PROVE  Roster!Next \/ UNCHANGED <<Sockets, size>>
  BY DEF Roster!rosterVars, Sockets
<1>1. ASSUME NEW s \in Socket, subscribe(s) PROVE Roster!Next
  <2>1. Sockets' = Cons(s, Sockets) /\ size' = size + 1
    BY <1>1, AddJoins DEF subscribe, add_to_start
  <2>2. Roster!Join(s)
    <3>1. Sockets' = Roster!Cons(s, Sockets)
      BY <2>1 DEF Cons, Roster!Cons
    <3> QED BY <2>1, <3>1 DEF Roster!Join, Sockets
  <2> QED BY <2>2 DEF Roster!Next
<1>2. ASSUME NEW s \in Socket, free_node(s) PROVE Roster!Next
  <2>1. PICK i \in 1 .. Len(cells) : Freed(s, i)
    BY <1>2, FreeNodeFrees
  <2>2. s \in ToSet(Sockets) /\ Sockets' = RemoveFirst(Sockets, s) /\ size' = size - 1
    BY <2>1, FreedLeaves DEF Freed
  <2>3. Roster!Leave(s)
    <3>1. s \in Roster!ToSet(Sockets)
      BY <2>2 DEF ToSet, Roster!ToSet
    <3>2. Sockets' = Roster!RemoveFirst(Sockets, s)
      BY <2>2, SameRemoval
    <3> QED BY <2>2, <3>1, <3>2 DEF Roster!Leave, Sockets
  <2> QED BY <2>3 DEF Roster!Next
<1>3. CASE UNCHANGED listVars
  BY <1>3 DEF listVars, Sockets
<1>4. StartWalk \/ WalkOn => UNCHANGED listVars
  BY DEF StartWalk, WalkOn
<1> QED BY <1>1, <1>2, <1>3, <1>4 DEF Next, socketListVars

(* To main, the only thread that changes it, the linked list is a          *)
(* sequence: add_to_start() puts a socket at its front, free_node() takes  *)
(* out the occurrence nearest to the front, and size is its length.        *)
THEOREM SocketListIsRoster == Spec => ImplementsRoster
<1>1. Spec => Roster!Init /\ [][Roster!Next]_(Roster!rosterVars)
  BY RosterInit, RosterStep, InvIsInvariant, PTL DEF Spec
<1> QED BY <1>1 DEF ImplementsRoster, Roster!Spec
=============================================================================
