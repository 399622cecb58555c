-------------------------- MODULE RingBufferProofs ---------------------------
(***************************************************************************)
(* For every Size and every set of events: the index invariant of the      *)
(* circular buffer, and that it implements the bounded overwriting FIFO.   *)
(***************************************************************************)
EXTENDS RingBuffer, SequenceTheorems, TLAPS

(* Reduction modulo Size of an index that ran past the end at most once:   *)
(* the only modular arithmetic ringbuffer.go does.                         *)
LEMMA WrapOnce ==
  ASSUME NEW n \in Nat, n < 2 * Size
  PROVE  n % Size = IF n < Size THEN n ELSE n - Size
<1>1. Size \in Nat /\ Size > 0
  BY SizeAssumption
<1>2. CASE n < Size
  BY <1>1, <1>2, Z3
<1>3. CASE n >= Size
  BY <1>1, <1>3, Z3
<1>4. QED BY <1>1, <1>2, <1>3

(* Going round from h, slot i is among the first c slots exactly when its  *)
(* distance from h is less than c.                                         *)
Distance(h, i) == IF i >= h THEN i - h ELSE i + Size - h

LEMMA OccupiedByDistance ==
  ASSUME NEW h \in Slots, NEW c \in 0 .. Size, NEW i \in Slots
  PROVE  i \in {(h + k) % Size : k \in 0 .. c - 1} <=> Distance(h, i) < c
<1>1. ASSUME NEW k \in 0 .. c - 1
      PROVE  (h + k) % Size = IF h + k < Size THEN h + k ELSE h + k - Size
  <2>1. h + k \in Nat /\ h + k < 2 * Size
    BY SizeAssumption DEF Slots
  <2>2. QED BY <2>1, WrapOnce, SizeAssumption DEF Slots
<1>2. ASSUME NEW k \in 0 .. c - 1, i = (h + k) % Size
      PROVE  Distance(h, i) < c
  BY <1>1, <1>2, SizeAssumption DEF Distance, Slots
<1>3. ASSUME Distance(h, i) < c
      PROVE  /\ Distance(h, i) \in 0 .. c - 1
             /\ i = (h + Distance(h, i)) % Size
  <2>1. Distance(h, i) \in 0 .. c - 1
    BY <1>3, SizeAssumption DEF Distance, Slots
  <2>2. QED BY <2>1, <1>1, SizeAssumption DEF Distance, Slots
<1>4. QED BY <1>2, <1>3

(* The three reductions Enqueue and its readers perform, without modulo.   *)
LEMMA NextSlot ==
  ASSUME NEW i \in Slots
  PROVE  (i + 1) % Size = IF i + 1 < Size THEN i + 1 ELSE 0
<1>1. i + 1 \in Nat /\ i + 1 < 2 * Size
  BY SizeAssumption DEF Slots
<1>2. (i + 1) % Size = IF i + 1 < Size THEN i + 1 ELSE i + 1 - Size
  BY <1>1, WrapOnce, SizeAssumption DEF Slots
<1>3. QED BY <1>2, SizeAssumption DEF Slots

LEMMA OffsetSlot ==
  ASSUME NEW h \in Slots, NEW c \in 0 .. Size
  PROVE  (h + c) % Size = IF h + c < Size THEN h + c ELSE h + c - Size
<1>1. h + c \in Nat /\ h + c < 2 * Size
  BY SizeAssumption DEF Slots
<1>2. QED BY <1>1, WrapOnce, SizeAssumption DEF Slots

LEMMA ContentsSlot ==
  ASSUME NEW h \in Slots, NEW k \in 1 .. Size
  PROVE  (h + k - 1) % Size = IF h + k <= Size THEN h + k - 1
                              ELSE h + k - 1 - Size
<1>1. h + k - 1 \in Nat /\ h + k - 1 < 2 * Size
  BY SizeAssumption DEF Slots
<1>2. (h + k - 1) % Size = IF h + k - 1 < Size THEN h + k - 1
                           ELSE h + k - 1 - Size
  BY <1>1, WrapOnce, SizeAssumption DEF Slots
<1>3. QED BY <1>2, SizeAssumption DEF Slots

------------------------------------------------------------------------------
(* The inductive invariant, for the initial state and each operation.      *)
LEMMA InitIndexInv == Init => IndexInv
<1> SUFFICES ASSUME Init PROVE IndexInv
  OBVIOUS
<1> USE SizeAssumption DEF Init, Slots
<1>1. TypeOK
  BY DEF TypeOK
<1>2. TailFollowsCount
  <2>1. (0 + 0) % Size = 0
    BY OffsetSlot
  <2>2. QED BY <2>1 DEF TailFollowsCount
<1>3. WindowOccupied
  BY DEF WindowOccupied, Occupied
<1>4. QED BY <1>1, <1>2, <1>3 DEF IndexInv

LEMMA EnqueueIndexInv ==
  ASSUME IndexInv, NEW e \in Events, Enqueue(e)
  PROVE  IndexInv'
<1> USE SizeAssumption
<1>0. TypeOK /\ TailFollowsCount /\ WindowOccupied
  BY DEF IndexInv
<1>1. /\ (tail + 1) % Size = IF tail + 1 < Size THEN tail + 1 ELSE 0
      /\ (head + 1) % Size = IF head + 1 < Size THEN head + 1 ELSE 0
  BY <1>0, NextSlot DEF TypeOK
<1>2. tail = IF head + count < Size THEN head + count ELSE head + count - Size
  BY <1>0, OffsetSlot DEF TypeOK, TailFollowsCount
<1>3. TypeOK'
  BY <1>0, <1>1 DEF TypeOK, Slots, Enqueue
<1>4. TailFollowsCount'
  <2>1. (head' + count') % Size = IF head' + count' < Size
                                  THEN head' + count'
                                  ELSE head' + count' - Size
    BY <1>3, OffsetSlot DEF TypeOK, Slots
  <2>2. tail' = IF head' + count' < Size THEN head' + count'
                ELSE head' + count' - Size
    <3>1. /\ head \in 0 .. Size - 1 /\ tail \in 0 .. Size - 1
          /\ count \in 0 .. Size
      BY <1>0 DEF TypeOK, Slots
    <3>2. CASE count < Size
      <4>1. head' = head /\ count' = count + 1 /\ tail' = (tail + 1) % Size
        BY <3>2 DEF Enqueue
      <4>2. QED BY <3>1, <3>2, <4>1, <1>1, <1>2
    <3>3. CASE ~(count < Size)
      <4>1. /\ head' = (head + 1) % Size /\ count' = count
            /\ tail' = (tail + 1) % Size
        BY <3>3 DEF Enqueue
      <4>2. QED BY <3>1, <3>3, <4>1, <1>1, <1>2
    <3>4. QED BY <3>2, <3>3
  <2>3. QED BY <2>1, <2>2 DEF TailFollowsCount
<1>5. WindowOccupied'
  <2> SUFFICES ASSUME NEW i \in Slots
               PROVE  events'[i] # Nil <=> (i \in Occupied)'
    BY DEF WindowOccupied, Slots
  <2>1. events[i] # Nil <=> Distance(head, i) < count
    BY <1>0, OccupiedByDistance DEF TypeOK, WindowOccupied, Occupied
  <2>2. (i \in Occupied)' <=> Distance(head', i) < count'
    BY <1>3, OccupiedByDistance DEF TypeOK, Occupied, Slots
  <2>3. CASE i = tail
    <3>1. events'[i] # Nil
      BY <2>3, <1>0, NilAssumption DEF TypeOK, Enqueue
    <3>2. Distance(head', i) < count'
      BY <2>3, <1>0, <1>1, <1>2 DEF TypeOK, Slots, Enqueue, Distance
    <3>3. QED BY <3>1, <3>2, <2>2
  <2>4. CASE i # tail
    <3>1. events'[i] = events[i]
      BY <2>4, <1>0 DEF TypeOK, Enqueue
    <3>2. Distance(head, i) < count <=> Distance(head', i) < count'
      BY <2>4, <1>0, <1>1, <1>2 DEF TypeOK, Slots, Enqueue, Distance
    <3>3. QED BY <3>1, <3>2, <2>1, <2>2
  <2>5. QED BY <2>3, <2>4
<1>6. QED BY <1>3, <1>4, <1>5 DEF IndexInv

LEMMA DequeueAllIndexInv ==
  ASSUME IndexInv, DequeueAll
  PROVE  IndexInv'
<1> USE SizeAssumption
<1>0. TypeOK /\ TailFollowsCount /\ WindowOccupied
  BY DEF IndexInv
<1>1. CASE count = 0
  <2>1. /\ batch' = << >>
        /\ UNCHANGED <<events, head, tail, count>>
    BY <1>1 DEF DequeueAll
  <2>2. TypeOK'
    BY <1>0, <2>1 DEF TypeOK, Slots
  <2>3. TailFollowsCount' /\ WindowOccupied'
    BY <1>0, <2>1 DEF TailFollowsCount, WindowOccupied, Occupied, Slots
  <2>4. QED BY <2>2, <2>3 DEF IndexInv
<1>2. CASE count # 0
  <2>1. /\ batch' = [i \in 1 .. count |-> events[(head + i - 1) % Size]]
        /\ events' = [i \in Slots |-> IF i \in Occupied THEN Nil ELSE events[i]]
        /\ head' = 0 /\ tail' = 0 /\ count' = 0
    BY <1>2 DEF DequeueAll
  <2>2. \A i \in Slots : events'[i] = Nil
    BY <1>0, <2>1 DEF WindowOccupied
  <2>3. batch' \in Seq(Events \cup {Nil})
    <3>1. ASSUME NEW i \in 1 .. count
          PROVE  events[(head + i - 1) % Size] \in Events \cup {Nil}
      <4>1. (head + i - 1) % Size \in Slots
        BY <1>0, ContentsSlot DEF TypeOK, Slots
      <4>2. QED BY <4>1, <1>0 DEF TypeOK
    <3>2. count \in Nat
      BY <1>0 DEF TypeOK
    <3>3. QED BY <3>1, <3>2, <2>1
  <2>4. TypeOK'
    BY <1>0, <2>1, <2>3 DEF TypeOK, Slots
  <2>5. TailFollowsCount'
    BY <2>1, OffsetSlot DEF TailFollowsCount, Slots
  <2>6. WindowOccupied'
    BY <2>1, <2>2 DEF WindowOccupied, Occupied, Slots
  <2>7. QED BY <2>4, <2>5, <2>6 DEF IndexInv
<1>3. QED BY <1>1, <1>2

(* Type correctness, the redundancy of tail, and the exact occupancy of    *)
(* the window, in every reachable state of a buffer of any size.           *)
THEOREM IndexSafety == Spec => [](TypeOK /\ TailFollowsCount /\ WindowOccupied)
<1>1. Init => IndexInv
  BY InitIndexInv
<1>2. IndexInv /\ [Next]_vars => IndexInv'
  <2> SUFFICES ASSUME IndexInv, [Next]_vars PROVE IndexInv'
    OBVIOUS
  <2>1. CASE DequeueAll
    BY <2>1, DequeueAllIndexInv
  <2>2. ASSUME NEW e \in Events, Enqueue(e) PROVE IndexInv'
    BY <2>2, EnqueueIndexInv
  <2>3. CASE UNCHANGED vars
    BY <2>3 DEF vars, IndexInv, TypeOK, TailFollowsCount, WindowOccupied,
                Occupied, Slots
  <2>4. QED BY <2>1, <2>2, <2>3 DEF Next
<1>3. IndexInv => TypeOK /\ TailFollowsCount /\ WindowOccupied
  BY DEF IndexInv
<1>4. QED BY <1>1, <1>2, <1>3, PTL DEF Spec

------------------------------------------------------------------------------
(* The refinement.  Contents is a sequence of count events; Enqueue is Put *)
(* on it, DequeueAll is TakeAll.                                           *)
LEMMA ContentsIsSequence ==
  ASSUME IndexInv
  PROVE  /\ Contents \in Seq(Events)
         /\ Len(Contents) = count
         /\ \A i \in 1 .. count : Contents[i] = events[(head + i - 1) % Size]
<1>0. TypeOK /\ WindowOccupied
  BY DEF IndexInv
<1>1. ASSUME NEW i \in 1 .. count
      PROVE  events[(head + i - 1) % Size] \in Events
  <2> DEFINE slot == (head + i - 1) % Size
  <2>1. head \in Slots /\ count \in 0 .. Size /\ i \in 1 .. Size
    BY <1>0, SizeAssumption DEF TypeOK
  <2>2. slot = IF head + i <= Size THEN head + i - 1 ELSE head + i - 1 - Size
    BY <2>1, ContentsSlot
  <2> HIDE DEF slot
  <2>3. slot \in Slots /\ Distance(head, slot) < count
    BY <2>1, <2>2, SizeAssumption DEF Slots, Distance
  <2>4. slot \in Occupied
    BY <2>1, <2>3, OccupiedByDistance DEF Occupied
  <2>5. QED BY <1>0, <2>3, <2>4 DEF TypeOK, WindowOccupied, slot
<1>2. count \in Nat
  BY <1>0 DEF TypeOK
<1>3. QED BY <1>1, <1>2 DEF Contents

LEMMA AppendPointwise ==
  ASSUME NEW q \in Seq(Events), NEW e \in Events, NEW n \in Nat, Len(q) = n
  PROVE  Append(q, e) = [i \in 1 .. n + 1 |-> IF i <= n THEN q[i] ELSE e]
<1> DEFINE r == [i \in 1 .. n + 1 |-> IF i <= n THEN q[i] ELSE e]
<1>1. Append(q, e) \in Seq(Events) /\ Len(Append(q, e)) = n + 1
  OBVIOUS
<1>2. r \in Seq(Events) /\ Len(r) = n + 1
  OBVIOUS
<1>3. \A i \in 1 .. n + 1 : Append(q, e)[i] = r[i]
  OBVIOUS
<1>4. Append(q, e) = r
  BY <1>1, <1>2, <1>3, SeqEqual
<1>5. QED BY <1>4

LEMMA EnqueueIsPut ==
  ASSUME IndexInv, NEW e \in Events, Enqueue(e)
  PROVE  Fifo!Put(e)
<1> USE SizeAssumption
<1>0. TypeOK /\ TailFollowsCount /\ WindowOccupied
  BY DEF IndexInv
<1>1. IndexInv'
  BY EnqueueIndexInv
<1>2. TypeOK'
  BY <1>1 DEF IndexInv
<1>3. tail = IF head + count < Size THEN head + count ELSE head + count - Size
  BY <1>0, OffsetSlot DEF TypeOK, TailFollowsCount
<1>4. CASE count < Size
  <2>1. head' = head /\ count' = count + 1
    BY <1>4 DEF Enqueue
  <2>2. ASSUME NEW i \in 1 .. count
        PROVE  events'[(head + i - 1) % Size] = Contents[i]
    <3>1. (head + i - 1) % Size \in Slots /\ (head + i - 1) % Size # tail
      BY <1>0, <1>3, <1>4, ContentsSlot DEF TypeOK, Slots
    <3>2. QED BY <3>1, <1>0, ContentsIsSequence DEF TypeOK, Enqueue
  <2>3. events'[(head + (count + 1) - 1) % Size] = e
    <3>1. (head + (count + 1) - 1) % Size = tail
      BY <1>0 DEF TypeOK, Slots, TailFollowsCount
    <3>2. QED BY <3>1, <1>0 DEF TypeOK, Enqueue
  <2>4. Append(Contents, e)
          = [i \in 1 .. count + 1 |-> IF i <= count THEN Contents[i] ELSE e]
    BY <1>0, ContentsIsSequence, AppendPointwise DEF TypeOK
  <2>5. Contents' = [i \in 1 .. count + 1 |-> events'[(head + i - 1) % Size]]
    BY <2>1 DEF Contents
  <2>6. \A i \in 1 .. count + 1 :
          events'[(head + i - 1) % Size] = IF i <= count THEN Contents[i] ELSE e
    BY <1>0, <2>2, <2>3 DEF TypeOK
  <2>7. Contents' = Append(Contents, e)
    BY <2>4, <2>5, <2>6
  <2>8. QED
    BY <2>7, <1>4, ContentsIsSequence DEF Fifo!Put, Fifo!PutInto, Enqueue
<1>5. CASE ~(count < Size)
  <2>0. count = Size
    BY <1>0, <1>5 DEF TypeOK
  <2>1. head' = (head + 1) % Size /\ count' = count
    BY <1>5 DEF Enqueue
  <2>2. head' = IF head + 1 < Size THEN head + 1 ELSE 0
    BY <2>1, <1>0, NextSlot DEF TypeOK
  <2>3. tail = head
    BY <1>0, <1>3, <2>0 DEF TypeOK, Slots
  <2>4. /\ Tail(Contents) \in Seq(Events)
        /\ Len(Tail(Contents)) = Size - 1
        /\ \A i \in 1 .. Size - 1 : Tail(Contents)[i] = Contents[i + 1]
    BY <2>0, ContentsIsSequence
  <2>5. ASSUME NEW i \in 1 .. Size - 1
        PROVE  events'[(head' + i - 1) % Size] = Contents[i + 1]
    <3>1. /\ (head' + i - 1) % Size = IF head' + i <= Size THEN head' + i - 1
                                      ELSE head' + i - 1 - Size
          /\ (head + (i + 1) - 1) % Size
                = IF head + (i + 1) <= Size THEN head + (i + 1) - 1
                  ELSE head + (i + 1) - 1 - Size
      <4>1. /\ head \in Slots /\ head' \in Slots
            /\ i \in 1 .. Size /\ i + 1 \in 1 .. Size
        BY <1>0, <1>2 DEF TypeOK
      <4>2. QED BY <4>1, ContentsSlot
    <3>2. /\ (head' + i - 1) % Size = (head + (i + 1) - 1) % Size
          /\ (head' + i - 1) % Size # tail
          /\ (head' + i - 1) % Size \in Slots
      BY <3>1, <2>2, <2>3, <1>0 DEF TypeOK, Slots
    <3>3. QED BY <3>2, <2>0, <1>0, ContentsIsSequence DEF TypeOK, Enqueue
  <2>6. events'[(head' + Size - 1) % Size] = e
    <3>1. (head' + Size - 1) % Size = tail
      <4>1. head' \in Slots /\ Size \in 1 .. Size
        BY <1>2 DEF TypeOK
      <4>2. (head' + Size - 1) % Size = IF head' + Size <= Size
                                        THEN head' + Size - 1
                                        ELSE head' + Size - 1 - Size
        BY <4>1, ContentsSlot
      <4>3. QED BY <4>2, <2>2, <2>3, <1>0 DEF TypeOK, Slots
    <3>2. QED BY <3>1, <1>0 DEF TypeOK, Enqueue
  <2>7. Append(Tail(Contents), e)
          = [i \in 1 .. Size |-> IF i <= Size - 1 THEN Tail(Contents)[i] ELSE e]
    <3> DEFINE n == Size - 1
    <3>1. n \in Nat /\ n + 1 = Size
      OBVIOUS
    <3>2. Tail(Contents) \in Seq(Events) /\ Len(Tail(Contents)) = n
      BY <2>4
    <3> HIDE DEF n
    <3>3. Append(Tail(Contents), e)
            = [i \in 1 .. n + 1 |-> IF i <= n THEN Tail(Contents)[i] ELSE e]
      BY <3>1, <3>2, AppendPointwise
    <3>4. QED BY <3>1, <3>3 DEF n
  <2>8. Contents' = [i \in 1 .. Size |-> events'[(head' + i - 1) % Size]]
    BY <2>0, <2>1 DEF Contents
  <2>9. \A i \in 1 .. Size :
          events'[(head' + i - 1) % Size]
            = IF i <= Size - 1 THEN Tail(Contents)[i] ELSE e
    BY <2>4, <2>5, <2>6
  <2>10. Contents' = Append(Tail(Contents), e)
    BY <2>7, <2>8, <2>9
  <2>11. QED
    BY <2>10, <2>0, ContentsIsSequence DEF Fifo!Put, Fifo!PutInto, Enqueue
<1>6. QED BY <1>4, <1>5

LEMMA DequeueAllIsTakeAll ==
  ASSUME IndexInv, DequeueAll
  PROVE  Fifo!TakeAll
<1>0. TypeOK
  BY DEF IndexInv
<1>1. CASE count = 0
  BY <1>1 DEF DequeueAll, Fifo!TakeAll, Contents
<1>2. CASE count # 0
  BY <1>2 DEF DequeueAll, Fifo!TakeAll, Contents
<1>3. QED BY <1>1, <1>2

(* The circular buffer of ringbuffer.go, whatever its size, implements the *)
(* bounded overwriting first-in first-out queue.                           *)
THEOREM Refinement == Spec => ImplementsFifo
<1>1. Init => Fifo!Init
  BY DEF Init, Fifo!Init, Contents
<1>2. IndexInv /\ [Next]_vars => [Fifo!Next]_(Fifo!vars)
  <2> SUFFICES ASSUME IndexInv, [Next]_vars
               PROVE  [Fifo!Next]_(Fifo!vars)
    OBVIOUS
  <2>1. CASE DequeueAll
    BY <2>1, DequeueAllIsTakeAll DEF Fifo!Next
  <2>2. ASSUME NEW e \in Events, Enqueue(e) PROVE Fifo!Next
    BY <2>2, EnqueueIsPut DEF Fifo!Next
  <2>3. CASE UNCHANGED vars
    BY <2>3 DEF vars, Fifo!vars, Contents
  <2>4. QED BY <2>1, <2>2, <2>3 DEF Next
<1>3. Spec => []IndexInv
  BY IndexSafety, PTL DEF IndexInv
<1>4. QED BY <1>1, <1>2, <1>3, PTL DEF Spec, ImplementsFifo, Fifo!Spec

==============================================================================
