--------------------------- MODULE OutgoingBuffer ---------------------------
(***************************************************************************)
(* The circular array in which the broker's producer threads and its main  *)
(* thread leave what the consumer thread sends (outgoing_buffer.cpp).      *)
(* This module is the data structure alone: put() and get(), called by     *)
(* produce_new_message() and consume() while they hold the buffer's        *)
(* critical section, so that each call is one step.  BrokerThreads.tla     *)
(* adds the threads, the critical section and the condition variables.     *)
(***************************************************************************)
EXTENDS Integers, Sequences

CONSTANTS OutgoingBufferElement,       \* what produce_new_message() is given
          MAX_OUTGOING_BUFFER_SIZE,
          Unfilled                     \* content of a slot nobody has filled

ASSUME OutgoingBufferAssumption ==
    /\ MAX_OUTGOING_BUFFER_SIZE \in Nat \ {0}
    /\ Unfilled \notin OutgoingBufferElement

VARIABLES array, fill_idx, use_idx, count,
          element                      \* consume()'s local: what get() returned

outgoingBufferVars == <<array, fill_idx, use_idx, count, element>>

Index == 0 .. MAX_OUTGOING_BUFFER_SIZE - 1

initialize_outgoing_buffer ==
    /\ array = [i \in Index |-> Unfilled]
    /\ fill_idx = 0
    /\ use_idx = 0
    /\ count = 0
    /\ element = Unfilled

put_one_slot_ahead(new_element) ==                                  \* mutant
    /\ array' = [array EXCEPT ![(fill_idx + 1) % MAX_OUTGOING_BUFFER_SIZE] = new_element]
    /\ fill_idx' = (fill_idx + 1) % MAX_OUTGOING_BUFFER_SIZE
    /\ count' = count + 1
    /\ UNCHANGED <<use_idx, element>>

put(new_element) ==
    /\ array' = [array EXCEPT ![fill_idx] = new_element]
    /\ fill_idx' = (fill_idx + 1) % MAX_OUTGOING_BUFFER_SIZE
    /\ count' = count + 1
    /\ UNCHANGED <<use_idx, element>>

get_without_wrap ==                                                 \* mutant
    /\ element' = array[use_idx]
    /\ use_idx' = use_idx + 1
    /\ count' = count - 1
    /\ UNCHANGED <<array, fill_idx>>

(* get() leaves the slot as it is: its content outlives the call.          *)
get ==
    /\ element' = array[use_idx]
    /\ use_idx' = (use_idx + 1) % MAX_OUTGOING_BUFFER_SIZE
    /\ count' = count - 1
    /\ UNCHANGED <<array, fill_idx>>

-----------------------------------------------------------------------------
(* The calls as the threads make them while the broker runs normally: the  *)
(* wait loops let put() through only when a slot is free and get() only    *)
(* when one is filled.                                                     *)
ProduceOverFullBuffer(new_element) == put(new_element)              \* mutant

Produce(new_element) ==
    /\ count # MAX_OUTGOING_BUFFER_SIZE
    /\ put(new_element)

Consume == count # 0 /\ get

OutgoingBufferNext == Consume \/ \E e \in OutgoingBufferElement : Produce(e)

OutgoingBufferSpec == initialize_outgoing_buffer
                      /\ [][OutgoingBufferNext]_outgoingBufferVars

-----------------------------------------------------------------------------
(* What the buffer holds, oldest first.                                    *)
Contents == [i \in 1 .. count |->
                array[(use_idx + i - 1) % MAX_OUTGOING_BUFFER_SIZE]]

OutgoingBufferTypeOK ==
    /\ array \in [Index -> OutgoingBufferElement \cup {Unfilled}]
    /\ fill_idx \in Index
    /\ use_idx \in Index
    /\ count \in 0 .. MAX_OUTGOING_BUFFER_SIZE
    /\ element \in OutgoingBufferElement \cup {Unfilled}

(* The two indices and the counter, each updated on its own in put() and   *)
(* get(), never drift apart, and every slot between them was filled: get() *)
(* cannot return a slot that nobody wrote.                                 *)
IndicesAgree ==
    /\ fill_idx = (use_idx + count) % MAX_OUTGOING_BUFFER_SIZE
    /\ \A i \in 1 .. count : Contents[i] \in OutgoingBufferElement

(* Through every wrap-around the array behaves as a queue: elements leave  *)
(* put()/get() in the order they entered, none twice, none overwritten.    *)
Slots == INSTANCE Fifo WITH Item <- OutgoingBufferElement, NoItem <- Unfilled,
                            items <- Contents, taken <- element
BufferImplementsFifo == Slots!Spec
=============================================================================
