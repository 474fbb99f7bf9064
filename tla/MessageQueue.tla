---------------------------- MODULE MessageQueue ----------------------------
(***************************************************************************)
(* A topic's message queue (message_queue.cpp): a singly linked list with  *)
(* a head and a tail pointer whose nodes malloc() and free() hand out and  *)
(* take back.  This module is the list alone; enqueue() and dequeue() run  *)
(* its two operations while they hold the queue's critical section, so     *)
(* each is one step.  BrokerThreads.tla adds the waiting and the threads.  *)
(***************************************************************************)
EXTENDS Naturals, Sequences

CONSTANTS Message,
          Address,      \* where malloc() can place a node
          NULL,
          Uninitialized \* what a fresh block of memory holds

ASSUME MessageQueueAssumption ==
    /\ NULL \notin Address
    /\ NULL \notin Message
    /\ Uninitialized \notin Message \cup Address \cup {NULL}

VARIABLES head, tail,   \* pointers to the first and to the last node
          heap,         \* the nodes, freed ones too: their bytes stay readable
          allocated,    \* the addresses malloc() has handed out
          message,      \* what the last dequeue_unsafe() returned
          cells         \* history: the queue's nodes in the order they were linked

messageQueueVars == <<head, tail, heap, allocated, message, cells>>

MessageQueueNode == [message : Message \cup {Uninitialized},
                     next : Address \cup {NULL, Uninitialized}]

initialize_message_queue ==
    /\ head = NULL
    /\ tail = NULL
    /\ heap = [a \in Address |->
                 [message |-> Uninitialized, next |-> Uninitialized]]
    /\ allocated = {}
    /\ message = NULL
    /\ cells = << >>

enqueue_testing_tail(m) ==                                          \* mutant
    \E node \in Address \ allocated :
        /\ allocated' = allocated \cup {node}
        /\ tail' = node
        /\ cells' = Append(cells, node)
        /\ IF tail = NULL
             THEN /\ head' = node
                  /\ heap' = [heap EXCEPT ![node] = [message |-> m, next |-> NULL]]
             ELSE /\ head' = head
                  /\ heap' = [heap EXCEPT ![tail].next = node,
                                          ![node] = [message |-> m, next |-> NULL]]
        /\ UNCHANGED message

enqueue_at_head(m) ==                                               \* mutant
    \E node \in Address \ allocated :
        /\ allocated' = allocated \cup {node}
        /\ head' = node
        /\ heap' = [heap EXCEPT ![node] = [message |-> m, next |-> head]]
        /\ tail' = IF head = NULL THEN node ELSE tail
        /\ cells' = Append(cells, node)
        /\ UNCHANGED message

enqueue_leaving_next(m) ==                                          \* mutant
    \E node \in Address \ allocated :
        /\ allocated' = allocated \cup {node}
        /\ tail' = node
        /\ cells' = Append(cells, node)
        /\ IF head = NULL
             THEN /\ head' = node
                  /\ heap' = [heap EXCEPT ![node].message = m]
             ELSE /\ head' = head
                  /\ heap' = [heap EXCEPT ![tail].next = node, ![node].message = m]
        /\ UNCHANGED message

(* The branch is taken on head alone: after the queue has run empty, tail  *)
(* still points to a freed node and must not be followed.                  *)
enqueue_unsafe(m) ==
    \E node \in Address \ allocated :
        /\ allocated' = allocated \cup {node}
        /\ tail' = node
        /\ cells' = Append(cells, node)
        /\ IF head = NULL
             THEN /\ head' = node
                  /\ heap' = [heap EXCEPT ![node] = [message |-> m, next |-> NULL]]
             ELSE /\ head' = head
                  /\ heap' = [heap EXCEPT ![tail].next = node,
                                          ![node] = [message |-> m, next |-> NULL]]
        /\ UNCHANGED message

(* dequeue() calls it only once its wait loop has seen a head; tail is not *)
(* touched.                                                                *)
dequeue_unsafe ==
    /\ head # NULL
    /\ message' = heap[head].message
    /\ head' = heap[head].next
    /\ allocated' = allocated \ {head}
    /\ cells' = Tail(cells)
    /\ UNCHANGED <<tail, heap>>

MessageQueueNext == dequeue_unsafe \/ \E m \in Message : enqueue_unsafe(m)

MessageQueueSpec == initialize_message_queue
                    /\ [][MessageQueueNext]_messageQueueVars

-----------------------------------------------------------------------------
MessageQueueTypeOK ==
    /\ head \in Address \cup {NULL}
    /\ tail \in Address \cup {NULL}
    /\ heap \in [Address -> MessageQueueNode]
    /\ allocated \subseteq Address
    /\ message \in Message \cup {NULL}
    /\ cells \in Seq(Address)

(* The list that hangs off head is exactly the nodes linked and not yet    *)
(* removed, in order; it ends where tail points; its nodes are the         *)
(* allocated ones and no others, so enqueue_unsafe() never writes through  *)
(* a tail that was freed or handed out again, dequeue_unsafe() never frees *)
(* a node twice, and none is lost.                                         *)
ListIntact ==
    /\ head = IF cells = << >> THEN NULL ELSE cells[1]
    /\ \A i \in 1 .. Len(cells) :
          /\ heap[cells[i]].message \in Message
          /\ heap[cells[i]].next = IF i = Len(cells) THEN NULL ELSE cells[i + 1]
    /\ cells # << >> => tail = cells[Len(cells)]
    /\ allocated = {cells[i] : i \in 1 .. Len(cells)}
    /\ \A i, j \in 1 .. Len(cells) : cells[i] = cells[j] => i = j

(* Whatever addresses malloc() reuses, the list is a queue of messages.    *)
Queued == [i \in 1 .. Len(cells) |-> heap[cells[i]].message]

Nodes == INSTANCE Fifo WITH Item <- Message, NoItem <- NULL,
                            items <- Queued, taken <- message
QueueImplementsFifo == Nodes!Spec
=============================================================================
