----------------------------- MODULE RingBuffer ------------------------------
(***************************************************************************)
(* agent/ringbuffer.go: the circular buffer between collectAndEnqueue (the *)
(* measuring loop, which calls Enqueue) and streamToCollector (which calls *)
(* DequeueAll).  Both methods hold b.mu from their first line to their     *)
(* return, so each is one action.  Go's preallocated slice is a function   *)
(* on 0 .. Size-1; a nil pointer is Nil.                                   *)
(***************************************************************************)
EXTENDS Naturals, Sequences, FiniteSets

CONSTANTS Size,    \* NewRingBuffer's argument (5000 in agent/main.go)
          Events,  \* the *pb.EnergyEvent pointers that may be enqueued
          Nil      \* Go's nil pointer

ASSUME SizeAssumption == Size \in Nat \ {0}
ASSUME NilAssumption  == Nil \notin Events

VARIABLES events,  \* the slots
          head,    \* slot of the oldest event
          tail,    \* slot the next Enqueue writes
          count,   \* number of events held
          batch    \* the slice the latest DequeueAll returned

vars == <<events, head, tail, count, batch>>

Slots == 0 .. Size - 1

Init ==
  /\ events = [i \in Slots |-> Nil]
  /\ head = 0
  /\ tail = 0
  /\ count = 0
  /\ batch = << >>

Enqueue(e) ==
  /\ events' = [events EXCEPT ![tail] = e]
  /\ tail' = (tail + 1) % Size
  /\ IF count < Size
     THEN /\ count' = count + 1
          /\ UNCHANGED head
     ELSE /\ head' = (head + 1) % Size
          /\ UNCHANGED count
  /\ UNCHANGED batch

(* The slots a DequeueAll visits: idx := (b.head + i) % b.size, i < count. *)
Occupied == {(head + i) % Size : i \in 0 .. count - 1}

(* Mutants of DequeueAll: the drained slots keep their pointers; the       *)
(* reading starts at slot 0 instead of head.                               *)
DequeueAllKeepsSlots ==
  IF count = 0
  THEN /\ batch' = << >>
       /\ UNCHANGED <<events, head, tail, count>>
  ELSE /\ batch' = [i \in 1 .. count |-> events[(head + i - 1) % Size]]
       /\ head' = 0 /\ tail' = 0 /\ count' = 0
       /\ UNCHANGED events

DequeueAllFromZero ==
  IF count = 0
  THEN /\ batch' = << >>
       /\ UNCHANGED <<events, head, tail, count>>
  ELSE /\ batch' = [i \in 1 .. count |-> events[i - 1]]
       /\ events' = [i \in Slots |-> Nil]
       /\ head' = 0 /\ tail' = 0 /\ count' = 0

DequeueAll ==
  IF count = 0
  THEN /\ batch' = << >>
       /\ UNCHANGED <<events, head, tail, count>>
  ELSE /\ batch' = [i \in 1 .. count |-> events[(head + i - 1) % Size]]
       /\ events' = [i \in Slots |-> IF i \in Occupied THEN Nil ELSE events[i]]
       /\ head' = 0
       /\ tail' = 0
       /\ count' = 0

Next == DequeueAll \/ \E e \in Events : Enqueue(e)

Spec == Init /\ [][Next]_vars

------------------------------------------------------------------------------
(* The slots hold events or nil, the three integers stay in the ranges the *)
(* index arithmetic of ringbuffer.go needs to stay inside the slice.       *)
TypeOK ==
  /\ events \in [Slots -> Events \cup {Nil}]
  /\ head \in Slots
  /\ tail \in Slots
  /\ count \in 0 .. Size
  /\ batch \in Seq(Events \cup {Nil})

(* tail is redundant: wherever head and count have wandered over any       *)
(* sequence of overwrites and drains, the next write goes to the slot      *)
(* right after the youngest event (ringbuffer.go:76-82, 101-103).          *)
TailFollowsCount == tail = (head + count) % Size

(* A slot holds an event exactly when it lies in the window of count slots *)
(* that starts at head.  So DequeueAll can never hand out a nil pointer    *)
(* (Send would dereference it) and no drained slot keeps a dead event      *)
(* reachable (ringbuffer.go:95-99).                                        *)
WindowOccupied == \A i \in Slots : events[i] # Nil <=> i \in Occupied

(* The inductive invariant of the buffer. *)
IndexInv == TypeOK /\ TailFollowsCount /\ WindowOccupied

(* The refinement mapping: the queue read off the slots from head on. *)
Contents == [i \in 1 .. count |-> events[(head + i - 1) % Size]]

Fifo == INSTANCE BoundedFifo WITH queue <- Contents, taken <- batch

(* The circular buffer implements the bounded overwriting FIFO: nothing is *)
(* reordered or duplicated by the wrap-around, a full buffer loses exactly *)
(* its oldest event, a drain returns everything in arrival order.          *)
ImplementsFifo == Fifo!Spec

==============================================================================
