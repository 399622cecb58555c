----------------------------- MODULE BoundedFifo -----------------------------
(***************************************************************************)
(* What the agent's event buffer promises its two users, the measuring     *)
(* loop and the streaming goroutine: a first-in first-out queue of at most *)
(* Size events, in which a put into a full queue discards the oldest event *)
(* and a take hands over everything at once, oldest first.                 *)
(*                                                                         *)
(* No slots, no indices: RingBuffer implements this specification, and     *)
(* Delivery is built on it.                                                *)
(***************************************************************************)
EXTENDS Naturals, Sequences

CONSTANTS Size,    \* capacity of the queue
          Events   \* the events that may be put into it

VARIABLES queue,   \* the events waiting, oldest first
          taken    \* what the latest take handed over

vars == <<queue, taken>>

(* The queue q after a put of e, the oldest event discarded when q is full. *)
PutInto(q, e) ==
  IF Len(q) < Size THEN Append(q, e) ELSE Append(Tail(q), e)

(* The event a put into q discards, as a set of at most one event. *)
DiscardedBy(q) ==
  IF Len(q) < Size THEN {} ELSE {Head(q)}

Init ==
  /\ queue = << >>
  /\ taken = << >>

Put(e) ==
  /\ queue' = PutInto(queue, e)
  /\ UNCHANGED taken

TakeAll ==
  /\ taken' = queue
  /\ queue' = << >>

Next == TakeAll \/ \E e \in Events : Put(e)

Spec == Init /\ [][Next]_vars

==============================================================================
