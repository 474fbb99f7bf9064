----------------------------- MODULE SocketList -----------------------------
(***************************************************************************)
(* A topic's subscriber list (socket_list.cpp) between its two users: main *)
(* adds and removes nodes, the consumer thread walks the list to send a    *)
(* message (send_subscription_message_or_response()).  Both hold the       *)
(* list's critical section, but the consumer leaves it during every send,  *)
(* so that what it does from one send to the next is one step and main may *)
(* change the list in between.                                             *)
(***************************************************************************)
EXTENDS Naturals, Sequences, SequencesExt

CONSTANTS Socket,                    \* SOCKET*: one per accepted connection
          Address,                   \* where malloc() can place a node
          NULL,
          SUBSCRIBER_LIST_MAX_SIZE,
          MaxServed                  \* bound: nodes served by a walk gone astray

ASSUME SocketListAssumption ==
    /\ NULL \notin Address \cup Socket
    /\ SUBSCRIBER_LIST_MAX_SIZE \in Nat
    /\ MaxServed \in Nat

VARIABLES head, size,
          heap,        \* the nodes, freed ones too: their bytes stay readable
          allocated,   \* the addresses malloc() has handed out
          walker,      \* the node whose socket the consumer is sending to
          process,     \* "running" or "crashed"
          cells,       \* history: the list's nodes, first one first
          served,      \* history: the nodes the current or last walk has sent to
          due,         \* history: the nodes listed when it began and never removed since
          dangling     \* history: walker's node was freed during this walk

listVars == <<head, size, heap, allocated, cells>>
walkVars == <<walker, served, due, dangling>>
socketListVars == <<listVars, walkVars, process>>

initialize_socket_list ==
    /\ head = NULL
    /\ size = 0
    /\ heap = [a \in Address |-> [socket_ptr |-> NULL, next |-> NULL]]
    /\ allocated = {}
    /\ cells = << >>

-----------------------------------------------------------------------------
(* main thread.                                                            *)
add_after_head(s) ==                                                \* mutant
    \E node \in Address \ allocated :
        /\ allocated' = allocated \cup {node}
        /\ IF head = NULL
             THEN /\ head' = node
                  /\ heap' = [heap EXCEPT ![node] = [socket_ptr |-> s, next |-> NULL]]
             ELSE /\ head' = head
                  /\ heap' = [heap EXCEPT
                        ![node] = [socket_ptr |-> s, next |-> heap[head].next],
                        ![head].next = node]
        /\ size' = size + 1
        /\ cells' = IF head = NULL THEN <<node>> ELSE InsertAt(cells, 2, node)
        /\ UNCHANGED <<walkVars, process>>

add_to_start(s) ==
    \E node \in Address \ allocated :
        /\ allocated' = allocated \cup {node}
        /\ head' = node
        /\ heap' = [heap EXCEPT ![node] = [socket_ptr |-> s, next |-> head]]
        /\ size' = size + 1
        /\ cells' = Cons(node, cells)
        /\ UNCHANGED <<walkVars, process>>

(* subscribe() compares with <=, before the list grows.                    *)
subscribe(s) == size <= SUBSCRIBER_LIST_MAX_SIZE /\ add_to_start(s)

(* The i-th node that following next from head leads to.                   *)
Chain == LET node[i \in 1 .. Len(cells) + 1] ==
                 IF i = 1 THEN head
                 ELSE IF node[i - 1] = NULL THEN NULL ELSE heap[node[i - 1]].next
         IN  node

(* The first node that holds s is unlinked and freed; no other one is.     *)
UnlinkWithoutPrevious(s, i) ==                                      \* mutant
    /\ head' = heap[Chain[i]].next
    /\ UNCHANGED heap
Unlink(s, i) ==
    IF i = 1
      THEN /\ head' = heap[head].next
           /\ UNCHANGED heap
      ELSE /\ heap' = [heap EXCEPT ![Chain[i - 1]].next = heap[Chain[i]].next]
           /\ UNCHANGED head

free_node(s) ==
    \E i \in DOMAIN Chain :
        /\ Chain[i] # NULL /\ heap[Chain[i]].socket_ptr = s
        /\ \A j \in 1 .. i - 1 : heap[Chain[j]].socket_ptr # s
        /\ Unlink(s, i)
        /\ allocated' = allocated \ {Chain[i]}
        /\ size' = size - 1
        /\ cells' = RemoveAt(cells, i)
        /\ due' = due \ {Chain[i]}
        /\ dangling' = (dangling \/ Chain[i] = walker)
        /\ UNCHANGED <<walker, served, process>>

-----------------------------------------------------------------------------
(* Consumer thread: the walk.                                              *)
StartWalk ==
    /\ walker = NULL
    /\ head # NULL
    /\ walker' = head
    /\ served' = <<head>>
    /\ due' = ToSet(cells)
    /\ dangling' = FALSE
    /\ UNCHANGED <<listVars, process>>

(* After the send the critical section is entered again and walker->next   *)
(* is read, whether or not walker's node is still there.  When it is not,  *)
(* its bytes may be as they were, may belong to a node malloc() placed     *)
(* there since, or may make the process crash.                             *)
WalkOnFromHead ==                                                   \* mutant
    /\ walker # NULL
    /\ walker' = heap[head].next
    /\ served' = IF walker' = NULL THEN served ELSE Append(served, walker')
    /\ UNCHANGED <<listVars, due, dangling, process>>

WalkOnTwice ==                                                      \* mutant
    /\ walker # NULL
    /\ LET next == heap[walker].next
       IN  walker' = IF next = NULL THEN NULL ELSE heap[next].next
    /\ served' = IF walker' = NULL THEN served ELSE Append(served, walker')
    /\ UNCHANGED <<listVars, due, dangling, process>>

WalkOn ==
    /\ walker # NULL
    /\ \/ /\ walker' = heap[walker].next
          /\ served' = IF walker' = NULL THEN served ELSE Append(served, walker')
          /\ UNCHANGED process
       \/ /\ dangling
          /\ process' = "crashed"
          /\ UNCHANGED <<walker, served>>
    /\ UNCHANGED <<listVars, due, dangling>>

Init == /\ initialize_socket_list
        /\ walker = NULL
        /\ served = << >>
        /\ due = {}
        /\ dangling = FALSE
        /\ process = "running"

(* A walk whose node was freed may go round in reused nodes for ever: it   *)
(* is cut off at the bound.  No other walk is.                             *)
Next == /\ process = "running"
        /\ \/ \E s \in Socket : subscribe(s) \/ free_node(s)
           \/ StartWalk
           \/ (dangling => Len(served) < MaxServed) /\ WalkOn

Spec == Init /\ [][Next]_socketListVars

-----------------------------------------------------------------------------
(* Through any sequence of additions and removals, first, middle or last   *)
(* node, the list that hangs off head is the allocated nodes, each once,   *)
(* ends in NULL, and is as long as size says, the number a client is told. *)
ListIntact ==
    /\ head = IF cells = << >> THEN NULL ELSE cells[1]
    /\ \A i \in 1 .. Len(cells) :
          heap[cells[i]].next = IF i = Len(cells) THEN NULL ELSE cells[i + 1]
    /\ allocated = ToSet(cells)
    /\ IsInjective(cells)
    /\ size = Len(cells)

(* main sees a list whose removals take the first occurrence.              *)
Roster == INSTANCE SocketRoster WITH
    roster <- [i \in 1 .. Len(cells) |-> heap[cells[i]].socket_ptr], length <- size
ImplementsRoster == Roster!Spec

(* Although main changes the list during a walk, a walk whose current node *)
(* was never freed under it sends to every subscriber that was listed when *)
(* it began and stayed, ...                                                *)
EveryStayerServed ==
    walker = NULL /\ ~dangling => due \subseteq ToSet(served)

(* ... and to none of them twice.                                          *)
NoneServedTwice == ~dangling => IsInjective(served)
=============================================================================
