------------------------ MODULE OutgoingBufferProofs ------------------------
(* The circular array of outgoing_buffer.cpp is a queue, for every size    *)
(* and every set of elements.                                              *)
EXTENDS OutgoingBuffer, TLAPS, SequenceTheorems

BufferInv == OutgoingBufferTypeOK /\ IndicesAgree

(* The indices never need more than one turn of the array.                 *)
LEMMA WrapOnce ==
  ASSUME NEW a \in Nat, a < MAX_OUTGOING_BUFFER_SIZE + MAX_OUTGOING_BUFFER_SIZE
  PROVE  a % MAX_OUTGOING_BUFFER_SIZE =
           IF a < MAX_OUTGOING_BUFFER_SIZE THEN a ELSE a - MAX_OUTGOING_BUFFER_SIZE
<1>1. CASE a < MAX_OUTGOING_BUFFER_SIZE
  BY <1>1, OutgoingBufferAssumption
<1>2. CASE a >= MAX_OUTGOING_BUFFER_SIZE
  BY <1>2, OutgoingBufferAssumption
<1> QED BY <1>1, <1>2, OutgoingBufferAssumption

(* The slot of the i-th element counted from use_idx.                      *)
Slot(u, i) == IF u + i - 1 < MAX_OUTGOING_BUFFER_SIZE
                THEN u + i - 1 ELSE u + i - 1 - MAX_OUTGOING_BUFFER_SIZE

LEMMA SlotIsIndex ==
  ASSUME NEW u \in Index, NEW i \in 1 .. MAX_OUTGOING_BUFFER_SIZE
  PROVE  /\ (u + i - 1) % MAX_OUTGOING_BUFFER_SIZE = Slot(u, i)
         /\ Slot(u, i) \in Index
<1>1. /\ u + i - 1 \in Nat
      /\ u + i - 1 < MAX_OUTGOING_BUFFER_SIZE + MAX_OUTGOING_BUFFER_SIZE
  BY OutgoingBufferAssumption DEF Index
<1>2. ASSUME NEW a, a = u + i - 1
      PROVE  a % MAX_OUTGOING_BUFFER_SIZE = Slot(u, i)
  <2>1. a \in Nat /\ a < MAX_OUTGOING_BUFFER_SIZE + MAX_OUTGOING_BUFFER_SIZE
    BY <1>1, <1>2
  <2>2. a % MAX_OUTGOING_BUFFER_SIZE =
          IF a < MAX_OUTGOING_BUFFER_SIZE THEN a ELSE a - MAX_OUTGOING_BUFFER_SIZE
    BY <2>1, WrapOnce
  <2>3. Slot(u, i) =
          IF a < MAX_OUTGOING_BUFFER_SIZE THEN a ELSE a - MAX_OUTGOING_BUFFER_SIZE
    BY <1>2, <2>1, OutgoingBufferAssumption DEF Slot, Index
  <2> QED BY <2>2, <2>3
<1> QED BY <1>2, OutgoingBufferAssumption DEF Index, Slot

(* An index after one advance: the next slot, or slot 0 after the last.    *)
LEMMA AdvanceIndex ==
  ASSUME NEW x \in Index
  PROVE  /\ (x + 1) % MAX_OUTGOING_BUFFER_SIZE =
              IF x + 1 = MAX_OUTGOING_BUFFER_SIZE THEN 0 ELSE x + 1
         /\ (x + 1) % MAX_OUTGOING_BUFFER_SIZE \in Index
<1>1. /\ x + 1 \in Nat
      /\ x + 1 < MAX_OUTGOING_BUFFER_SIZE + MAX_OUTGOING_BUFFER_SIZE
  BY OutgoingBufferAssumption DEF Index
<1>2. ASSUME NEW a, a = x + 1
      PROVE  a % MAX_OUTGOING_BUFFER_SIZE =
               IF a = MAX_OUTGOING_BUFFER_SIZE THEN 0 ELSE a
  <2>1. /\ a \in Nat /\ a < MAX_OUTGOING_BUFFER_SIZE + MAX_OUTGOING_BUFFER_SIZE
        /\ a <= MAX_OUTGOING_BUFFER_SIZE
    BY <1>1, <1>2, OutgoingBufferAssumption DEF Index
  <2>2. a % MAX_OUTGOING_BUFFER_SIZE =
          IF a < MAX_OUTGOING_BUFFER_SIZE THEN a ELSE a - MAX_OUTGOING_BUFFER_SIZE
    BY <2>1, WrapOnce
  <2> QED BY <2>1, <2>2, OutgoingBufferAssumption
<1> QED BY <1>2, OutgoingBufferAssumption DEF Index

(* fill_idx as the slot count elements after use_idx.                      *)
FillIdx(u, c) == IF u + c < MAX_OUTGOING_BUFFER_SIZE
                   THEN u + c ELSE u + c - MAX_OUTGOING_BUFFER_SIZE

LEMMA FillIdxFollows ==
  ASSUME NEW u \in Index, NEW c \in 0 .. MAX_OUTGOING_BUFFER_SIZE
  PROVE  (u + c) % MAX_OUTGOING_BUFFER_SIZE = FillIdx(u, c)
<1>1. u + c \in Nat /\ u + c < MAX_OUTGOING_BUFFER_SIZE + MAX_OUTGOING_BUFFER_SIZE
  BY OutgoingBufferAssumption DEF Index
<1>2. ASSUME NEW a, a = u + c
      PROVE  a % MAX_OUTGOING_BUFFER_SIZE = FillIdx(u, c)
  <2>1. a \in Nat /\ a < MAX_OUTGOING_BUFFER_SIZE + MAX_OUTGOING_BUFFER_SIZE
    BY <1>1, <1>2
  <2>2. a % MAX_OUTGOING_BUFFER_SIZE =
          IF a < MAX_OUTGOING_BUFFER_SIZE THEN a ELSE a - MAX_OUTGOING_BUFFER_SIZE
    BY <2>1, WrapOnce
  <2>3. FillIdx(u, c) =
          IF a < MAX_OUTGOING_BUFFER_SIZE THEN a ELSE a - MAX_OUTGOING_BUFFER_SIZE
    BY <1>2, <2>1, OutgoingBufferAssumption DEF FillIdx, Index
  <2> QED BY <2>2, <2>3
<1> QED BY <1>2

(* What Contents is, once the modulus is gone.                             *)
ContentsBySlot ==
    /\ count \in 0 .. MAX_OUTGOING_BUFFER_SIZE
    /\ use_idx \in Index
    /\ fill_idx = FillIdx(use_idx, count)
    /\ Contents \in Seq(OutgoingBufferElement)
    /\ Len(Contents) = count
    /\ \A i \in 1 .. count : Contents[i] = array[Slot(use_idx, i)]

LEMMA ContentsAreSlots == BufferInv => ContentsBySlot
<1> SUFFICES ASSUME BufferInv PROVE ContentsBySlot
  OBVIOUS
<1>1. /\ count \in 0 .. MAX_OUTGOING_BUFFER_SIZE /\ count \in Nat
      /\ use_idx \in Index
      /\ fill_idx = FillIdx(use_idx, count)
  BY FillIdxFollows, OutgoingBufferAssumption
     DEF BufferInv, OutgoingBufferTypeOK, IndicesAgree
<1>2. Contents \in [1 .. count -> OutgoingBufferElement]
  BY DEF BufferInv, IndicesAgree, Contents
<1>3. Contents \in Seq(OutgoingBufferElement)
  BY <1>1, <1>2
<1>4. Len(Contents) = count
  BY <1>1, <1>3, LenProperties DEF Contents
<1>5. \A i \in 1 .. count : Contents[i] = array[Slot(use_idx, i)]
  <2> TAKE i \in 1 .. count
  <2>1. i \in 1 .. MAX_OUTGOING_BUFFER_SIZE
    BY <1>1, OutgoingBufferAssumption
  <2> QED BY <2>1, <1>1, SlotIsIndex DEF Contents
<1> QED BY <1>1, <1>3, <1>4, <1>5 DEF ContentsBySlot

LEMMA ContentsAreSlotsNext == BufferInv' => ContentsBySlot'
  BY ContentsAreSlots, PTL

(* put() fills the slot after the last one and disturbs no filled slot.    *)
LEMMA ProduceKeepsInv ==
  ASSUME BufferInv, NEW e \in OutgoingBufferElement, Produce(e)
  PROVE  /\ BufferInv'
         /\ \A i \in 1 .. count : Contents'[i] = Contents[i]
         /\ Contents'[count + 1] = e
<1> USE OutgoingBufferAssumption
<1>1. /\ fill_idx \in Index /\ use_idx \in Index
      /\ count \in 0 .. MAX_OUTGOING_BUFFER_SIZE - 1
      /\ array \in [Index -> OutgoingBufferElement \cup {Unfilled}]
      /\ array' = [array EXCEPT ![fill_idx] = e]
      /\ fill_idx' = (fill_idx + 1) % MAX_OUTGOING_BUFFER_SIZE
      /\ count' = count + 1 /\ use_idx' = use_idx /\ element' = element
  BY DEF BufferInv, OutgoingBufferTypeOK, Produce, put
<1>2. /\ fill_idx = FillIdx(use_idx, count)
      /\ \A i \in 1 .. count : Contents[i] = array[Slot(use_idx, i)]
      /\ \A i \in 1 .. count : Contents[i] \in OutgoingBufferElement
  BY ContentsAreSlots DEF ContentsBySlot, BufferInv, IndicesAgree
<1>3. fill_idx' \in Index
  BY <1>1, AdvanceIndex
<1>4. OutgoingBufferTypeOK'
  BY <1>1, <1>3 DEF BufferInv, OutgoingBufferTypeOK
<1>5. fill_idx' = (use_idx' + count') % MAX_OUTGOING_BUFFER_SIZE
  <2>1. (use_idx + (count + 1)) % MAX_OUTGOING_BUFFER_SIZE = FillIdx(use_idx, count + 1)
    BY <1>1, FillIdxFollows
  <2>2. fill_idx' = IF fill_idx + 1 = MAX_OUTGOING_BUFFER_SIZE THEN 0 ELSE fill_idx + 1
    BY <1>1, AdvanceIndex
  <2> QED BY <2>1, <2>2, <1>1, <1>2 DEF FillIdx, Index
<1>6. Slot(use_idx, count + 1) = fill_idx
  BY <1>1, <1>2 DEF Slot, FillIdx, Index
<1>7. \A i \in 1 .. count : Slot(use_idx, i) \in Index \ {fill_idx}
  <2> TAKE i \in 1 .. count
  <2>1. Slot(use_idx, i) \in Index
    BY <1>1, SlotIsIndex
  <2>2. Slot(use_idx, i) # fill_idx
    BY <1>1, <1>2 DEF Slot, FillIdx, Index
  <2> QED BY <2>1, <2>2
<1>8. \A i \in 1 .. count + 1 : Contents'[i] = array'[Slot(use_idx, i)]
  <2> TAKE i \in 1 .. count + 1
  <2>1. i \in 1 .. MAX_OUTGOING_BUFFER_SIZE /\ i \in 1 .. count'
    BY <1>1
  <2> QED BY <2>1, <1>1, SlotIsIndex DEF Contents
<1>9. \A i \in 1 .. count : Contents'[i] = Contents[i]
  BY <1>1, <1>2, <1>7, <1>8
<1>10. Contents'[count + 1] = e
  BY <1>1, <1>6, <1>8
<1>11. \A i \in 1 .. count' : Contents'[i] \in OutgoingBufferElement
  BY <1>1, <1>2, <1>9, <1>10
<1>12. IndicesAgree'
  BY <1>5, <1>11 DEF IndicesAgree
<1> QED BY <1>4, <1>9, <1>10, <1>12 DEF BufferInv

(* get() takes the oldest filled slot; the others move up by one.          *)
LEMMA ConsumeKeepsInv ==
  ASSUME BufferInv, Consume
  PROVE  /\ BufferInv'
         /\ element' = Contents[1]
         /\ \A i \in 1 .. count - 1 : Contents'[i] = Contents[i + 1]
<1> USE OutgoingBufferAssumption
<1>1. /\ fill_idx \in Index /\ use_idx \in Index
      /\ count \in 1 .. MAX_OUTGOING_BUFFER_SIZE
      /\ array \in [Index -> OutgoingBufferElement \cup {Unfilled}]
      /\ array' = array
      /\ use_idx' = (use_idx + 1) % MAX_OUTGOING_BUFFER_SIZE
      /\ count' = count - 1 /\ fill_idx' = fill_idx /\ element' = array[use_idx]
  BY DEF BufferInv, OutgoingBufferTypeOK, Consume, get
<1>2. /\ fill_idx = FillIdx(use_idx, count)
      /\ \A i \in 1 .. count : Contents[i] = array[Slot(use_idx, i)]
      /\ \A i \in 1 .. count : Contents[i] \in OutgoingBufferElement
  BY ContentsAreSlots DEF ContentsBySlot, BufferInv, IndicesAgree
<1>3. /\ use_idx' = IF use_idx + 1 = MAX_OUTGOING_BUFFER_SIZE THEN 0 ELSE use_idx + 1
      /\ use_idx' \in Index
  BY <1>1, AdvanceIndex
<1>4. element' = Contents[1]
  BY <1>1, <1>2 DEF Slot, Index
<1>5. OutgoingBufferTypeOK'
  BY <1>1, <1>2, <1>3, <1>4 DEF BufferInv, OutgoingBufferTypeOK
<1>6. fill_idx' = (use_idx' + count') % MAX_OUTGOING_BUFFER_SIZE
  <2>1. (use_idx' + count') % MAX_OUTGOING_BUFFER_SIZE = FillIdx(use_idx', count')
    BY <1>1, <1>3, FillIdxFollows
  <2> QED BY <2>1, <1>1, <1>2, <1>3 DEF FillIdx, Index
<1>7. \A i \in 1 .. count - 1 : Contents'[i] = Contents[i + 1]
  <2> TAKE i \in 1 .. count - 1
  <2>1. i \in 1 .. MAX_OUTGOING_BUFFER_SIZE /\ i \in 1 .. count'
    BY <1>1
  <2>2. Contents'[i] = array[Slot(use_idx', i)]
    BY <2>1, <1>1, <1>3, SlotIsIndex DEF Contents
  <2>3. Slot(use_idx', i) = Slot(use_idx, i + 1)
    BY <1>1, <1>3 DEF Slot, Index
  <2> QED BY <2>2, <2>3, <1>1, <1>2
<1>8. \A i \in 1 .. count' : Contents'[i] \in OutgoingBufferElement
  BY <1>1, <1>2, <1>7
<1>9. IndicesAgree'
  BY <1>6, <1>8 DEF IndicesAgree
<1> QED BY <1>4, <1>5, <1>7, <1>9 DEF BufferInv

LEMMA BufferStartsEmpty == initialize_outgoing_buffer => BufferInv
  BY OutgoingBufferAssumption, WrapOnce
     DEF initialize_outgoing_buffer, BufferInv, OutgoingBufferTypeOK, IndicesAgree, Index

LEMMA BufferInvIsInvariant == OutgoingBufferSpec => []BufferInv
<1>1. BufferInv /\ [OutgoingBufferNext]_outgoingBufferVars => BufferInv'
  <2>1. ASSUME BufferInv, UNCHANGED outgoingBufferVars PROVE BufferInv'
    BY <2>1 DEF outgoingBufferVars, BufferInv, OutgoingBufferTypeOK, IndicesAgree, Contents
  <2> QED BY <2>1, ProduceKeepsInv, ConsumeKeepsInv DEF OutgoingBufferNext
<1> QED BY <1>1, BufferStartsEmpty, PTL DEF OutgoingBufferSpec

-----------------------------------------------------------------------------
(* The indices of the buffer stay inside the array and its counter inside  *)
(* its size.                                                               *)
THEOREM OutgoingBufferTyped == OutgoingBufferSpec => []OutgoingBufferTypeOK
  BY BufferInvIsInvariant, PTL DEF BufferInv

(* fill_idx, use_idx and count agree through every wrap-around, and get()  *)
(* returns a slot that put() has filled.                                   *)
THEOREM OutgoingBufferIndicesAgree == OutgoingBufferSpec => []IndicesAgree
  BY BufferInvIsInvariant, PTL DEF BufferInv

(* put() adds at the end of the queue, get() takes from its front.         *)
LEMMA ProduceAdds ==
  ASSUME BufferInv, NEW e \in OutgoingBufferElement, Produce(e)
  PROVE  Slots!Add(e)
<1>1. /\ BufferInv' /\ Contents'[count + 1] = e
      /\ \A i \in 1 .. count : Contents'[i] = Contents[i]
  BY ProduceKeepsInv
<1>2. /\ Contents \in Seq(OutgoingBufferElement) /\ Len(Contents) = count
      /\ count \in Nat
  BY ContentsAreSlots, OutgoingBufferAssumption DEF ContentsBySlot
<1>3. /\ Contents' \in Seq(OutgoingBufferElement) /\ Len(Contents') = count'
  BY <1>1, ContentsAreSlotsNext DEF ContentsBySlot
<1>4. count' = count + 1 /\ element' = element
  BY DEF Produce, put
<1>5. Contents' = Append(Contents, e)
  <2>1. /\ Append(Contents, e) \in Seq(OutgoingBufferElement)
        /\ Len(Append(Contents, e)) = count + 1
        /\ \A i \in 1 .. count + 1 : Contents'[i] = Append(Contents, e)[i]
    BY <1>1, <1>2, AppendProperties
  <2> QED BY <2>1, <1>3, <1>4, LenProperties
<1> QED BY <1>4, <1>5 DEF Slots!Add

LEMMA ConsumeTakes ==
  ASSUME BufferInv, Consume
  PROVE  Slots!Take
<1>1. /\ BufferInv' /\ element' = Contents[1]
      /\ \A i \in 1 .. count - 1 : Contents'[i] = Contents[i + 1]
  BY ConsumeKeepsInv
<1>2. /\ Contents \in Seq(OutgoingBufferElement) /\ Len(Contents) = count
      /\ count \in Nat \ {0}
  BY ContentsAreSlots, OutgoingBufferAssumption DEF ContentsBySlot, Consume
<1>3. /\ Contents' \in Seq(OutgoingBufferElement) /\ Len(Contents') = count'
  BY <1>1, ContentsAreSlotsNext DEF ContentsBySlot
<1>4. count' = count - 1
  BY DEF Consume, get
<1>5. Contents # << >>
  BY <1>2, EmptySeq
<1>6. Contents' = Tail(Contents)
  <2>1. /\ Tail(Contents) \in Seq(OutgoingBufferElement)
        /\ Len(Tail(Contents)) = count - 1
        /\ \A i \in 1 .. count - 1 : Contents'[i] = Tail(Contents)[i]
    BY <1>1, <1>2, <1>5, HeadTailProperties
  <2> QED BY <2>1, <1>3, <1>4, LenProperties
<1>7. element' = Head(Contents)
  BY <1>1, <1>2, <1>5
<1> QED BY <1>5, <1>6, <1>7 DEF Slots!Take

(* For every size of the array and every set of elements, the outgoing     *)
(* buffer implements the abstract queue: nothing is overwritten, repeated  *)
(* or reordered through any number of wrap-arounds.                        *)
THEOREM OutgoingBufferIsFifo == OutgoingBufferSpec => BufferImplementsFifo
<1>1. initialize_outgoing_buffer => Slots!Init
  <2> SUFFICES ASSUME initialize_outgoing_buffer PROVE Slots!Init
    OBVIOUS
  <2>1. Contents \in Seq(OutgoingBufferElement) /\ Len(Contents) = 0
    BY BufferStartsEmpty, ContentsAreSlots DEF ContentsBySlot, initialize_outgoing_buffer
  <2> QED BY <2>1, EmptySeq DEF Slots!Init, initialize_outgoing_buffer
<1>2. BufferInv /\ [OutgoingBufferNext]_outgoingBufferVars => [Slots!Next]_Slots!fifoVars
  <2> SUFFICES ASSUME BufferInv, [OutgoingBufferNext]_outgoingBufferVars
               PROVE  [Slots!Next]_Slots!fifoVars
    OBVIOUS
  <2>1. CASE UNCHANGED outgoingBufferVars
    BY <2>1 DEF outgoingBufferVars, Slots!fifoVars, Contents
  <2>2. CASE Consume
    BY <2>2, ConsumeTakes DEF Slots!Next
  <2>3. ASSUME NEW e \in OutgoingBufferElement, Produce(e)
        PROVE  Slots!Next
    BY <2>3, ProduceAdds DEF Slots!Next
  <2> QED BY <2>1, <2>2, <2>3 DEF OutgoingBufferNext
<1> QED BY <1>1, <1>2, BufferInvIsInvariant, PTL
        DEF OutgoingBufferSpec, BufferImplementsFifo, Slots!Spec
=============================================================================
