------------------------------ MODULE MCQueues ------------------------------
(* A topic's message queue and the outgoing buffer, side by side for TLC:  *)
(* each has a critical section of its own, so that their steps interleave. *)
EXTENDS MessageQueue, OutgoingBuffer

Init == initialize_message_queue /\ initialize_outgoing_buffer

Next ==
    \/ MessageQueueNext /\ UNCHANGED outgoingBufferVars
    \/ OutgoingBufferNext /\ UNCHANGED messageQueueVars

Spec == Init /\ [][Next]_<<messageQueueVars, outgoingBufferVars>>
=============================================================================
