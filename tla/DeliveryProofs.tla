--------------------------- MODULE DeliveryProofs ---------------------------
(***************************************************************************)
(* At-most-once delivery in order, and delivery without loss as long as    *)
(* nothing fails, for buffers, windows and limits of any size and any      *)
(* number of events, streams, faults and restarts.                         *)
(***************************************************************************)
EXTENDS Delivery, SequenceTheorems, FiniteSetTheorems, TLAPS

(* Every element of A is older than every element of B. *)
Below(A, B) == \A x \in A, y \in B : x < y

Increasing(q) == \A i, j \in DOMAIN q : i < j => q[i] < q[j]

(* What stream s has carried into the aggregator, and all it has carried.  *)
CarriedBy(s) == {agg[i].id : i \in {k \in DOMAIN agg : agg[k].via = s}}

Flow(s) == CarriedBy(s) \cup Range(wire[s])

(* A stream not yet opened has no handler and has carried nothing.         *)
Unopened ==
  \A s \in Streams : s > cur => handler[s] = "none" /\ Flow(s) = {}

(* Each place an event waits in holds its events in the order measured.    *)
PlacesSorted ==
  /\ Increasing(queue)
  /\ Increasing(batch)
  /\ \A s \in Streams : Increasing(wire[s])
  /\ \A i, j \in DOMAIN agg :
       i < j /\ agg[i].via = agg[j].via => agg[i].id < agg[j].id

(* An event that is further on its way is older: past collectors have      *)
(* aggregated what precedes every stream of this one, the streams follow   *)
(* each other, and what is on no stream yet follows them all.              *)
PathsSorted ==
  /\ \A s \in Streams :
       /\ Below(past, Flow(s))
       /\ Below(CarriedBy(s), Range(wire[s]))
       /\ Below(Flow(s), Range(batch) \cup Range(queue))
       /\ \A t \in Streams : s < t => Below(Flow(s), Flow(t))
  /\ Below(past, Range(batch) \cup Range(queue))
  /\ Below(Range(batch), Range(queue))

(* An overwritten event is nowhere else: it had not left the buffer.       *)
DroppedApart ==
  /\ Below(dropped, Range(queue))
  /\ dropped \cap (Range(batch) \cup past) = {}
  /\ \A s \in Streams : dropped \cap Flow(s) = {}

(* No event is anywhere before it is measured.                             *)
NothingInvented ==
  /\ Range(queue) \cup Range(batch) \cup past \cup dropped \subseteq 1 .. produced
  /\ \A s \in Streams : Flow(s) \subseteq 1 .. produced

OrderInv ==
  /\ Unopened
  /\ PlacesSorted
  /\ PathsSorted
  /\ DroppedApart
  /\ NothingInvented

(* While nothing has failed no stream is broken, so that no Send is lost,  *)
(* and every event measured is somewhere.                                  *)
Somewhere(x) ==
  \/ x \in Range(queue) \cup Range(batch) \cup dropped
  \/ \E s \in Streams : x \in Flow(s)

HealthyInv ==
  Healthy => broken = {} /\ \A x \in 1 .. produced : Somewhere(x)

------------------------------------------------------------------------------
(* Sequences of events.                                                    *)
LEMMA AppendFacts ==
  ASSUME NEW q \in Seq(EventIds), NEW e \in EventIds
  PROVE  /\ Append(q, e) \in Seq(EventIds)
         /\ Len(Append(q, e)) = Len(q) + 1
         /\ Append(q, e) # << >>
         /\ Range(Append(q, e)) = Range(q) \cup {e}
         /\ Increasing(q) /\ Below(Range(q), {e}) => Increasing(Append(q, e))
<1> DEFINE r == Append(q, e)
<1>1. /\ r \in Seq(EventIds) /\ Len(r) = Len(q) + 1 /\ r # << >>
      /\ \A i \in 1 .. Len(q) : r[i] = q[i]
      /\ r[Len(q) + 1] = e
  BY AppendProperties
<1>2. Len(q) \in Nat /\ DOMAIN q = 1 .. Len(q) /\ DOMAIN r = 1 .. Len(q) + 1
  BY <1>1, LenProperties
<1> HIDE DEF r
<1>3. Range(r) = Range(q) \cup {e}
  BY <1>1, <1>2 DEF Range
<1>4. ASSUME Increasing(q), Below(Range(q), {e}) PROVE Increasing(r)
  <2> SUFFICES ASSUME NEW i \in DOMAIN r, NEW j \in DOMAIN r, i < j
               PROVE  r[i] < r[j]
    BY DEF Increasing
  <2>1. CASE j \in 1 .. Len(q)
    BY <1>1, <1>2, <1>4, <2>1 DEF Increasing
  <2>2. CASE j = Len(q) + 1
    BY <1>1, <1>2, <1>4, <2>2 DEF Below, Range
  <2> QED BY <1>2, <2>1, <2>2
<1> QED BY <1>1, <1>3, <1>4 DEF r

LEMMA TailFacts ==
  ASSUME NEW q \in Seq(EventIds), q # << >>
  PROVE  /\ Head(q) \in EventIds
         /\ Tail(q) \in Seq(EventIds)
         /\ Len(q) \in Nat \ {0}
         /\ Len(Tail(q)) = Len(q) - 1
         /\ Tail(q) = << >> <=> Len(q) = 1
         /\ Range(q) = {Head(q)} \cup Range(Tail(q))
         /\ Increasing(q) => /\ Increasing(Tail(q))
                             /\ Below({Head(q)}, Range(Tail(q)))
<1> DEFINE r == Tail(q)
<1>1. /\ Head(q) \in EventIds /\ Head(q) = q[1]
      /\ r \in Seq(EventIds) /\ Len(r) = Len(q) - 1
      /\ \A i \in 1 .. Len(r) : r[i] = q[i + 1]
  BY HeadTailProperties
<1>2. /\ Len(q) \in Nat \ {0} /\ DOMAIN q = 1 .. Len(q)
      /\ DOMAIN r = 1 .. Len(q) - 1
  BY <1>1, LenProperties, EmptySeq
<1> HIDE DEF r
<1>3. r = << >> <=> Len(q) = 1
  <2>1. /\ Len(<< >>) = 0
        /\ \A t \in Seq(EventIds) : t # << >> => Len(t) \in Nat \ {0}
    BY EmptySeq
  <2> QED BY <2>1, <1>1, <1>2
<1>4. Range(q) = {Head(q)} \cup Range(r)
  <2>1. ASSUME NEW i \in DOMAIN q PROVE q[i] \in {Head(q)} \cup Range(r)
    <3>1. CASE i = 1
      BY <3>1, <1>1
    <3>2. CASE i # 1
      <4>1. i - 1 \in DOMAIN r /\ r[i - 1] = q[i]
        BY <3>2, <1>1, <1>2
      <4> QED BY <4>1 DEF Range
    <3> QED BY <3>1, <3>2
  <2>2. ASSUME NEW i \in DOMAIN r PROVE r[i] \in Range(q)
    BY <1>1, <1>2 DEF Range
  <2>3. Head(q) \in Range(q)
    BY <1>1, <1>2 DEF Range
  <2> QED BY <2>1, <2>2, <2>3 DEF Range
<1>5. ASSUME Increasing(q)
      PROVE  Increasing(r) /\ Below({Head(q)}, Range(r))
  <2>1. ASSUME NEW i \in DOMAIN r
        PROVE  /\ i + 1 \in DOMAIN q /\ r[i] = q[i + 1] /\ Head(q) < r[i]
    <3>1. i + 1 \in DOMAIN q /\ 1 \in DOMAIN q /\ 1 < i + 1 /\ r[i] = q[i + 1]
      BY <1>1, <1>2
    <3> QED BY <3>1, <1>1, <1>5 DEF Increasing
  <2>2. ASSUME NEW i \in DOMAIN r, NEW j \in DOMAIN r, i < j
        PROVE  r[i] < r[j]
    <3>1. i + 1 < j + 1
      BY <1>2, <2>2
    <3> QED BY <3>1, <2>1, <1>5 DEF Increasing
  <2>3. Increasing(r)
    BY <2>2 DEF Increasing
  <2>4. Below({Head(q)}, Range(r))
    BY <2>1 DEF Below, Range
  <2> QED BY <2>3, <2>4
<1> QED BY <1>1, <1>2, <1>3, <1>4, <1>5 DEF r

LEMMA EmptyFacts ==
  /\ << >> \in Seq(EventIds) /\ Len(<< >>) = 0
  /\ Range(<< >>) = {} /\ Increasing(<< >>)
  BY DEF Range, Increasing

------------------------------------------------------------------------------
(* Type correctness.                                                       *)
LEMMA StreamsAreNumbers == Streams \subseteq Nat \ {0} /\ EventIds \subseteq Nat \ {0}
  BY DeliveryAssumption DEF Streams, EventIds

LEMMA RecordTypes ==
  ASSUME TypeOK
  PROVE  /\ DOMAIN agg = 1 .. Len(agg) /\ Len(agg) \in Nat
         /\ \A i \in DOMAIN agg : agg[i].id \in EventIds /\ agg[i].via \in Streams
<1> DEFINE Rec == [id : EventIds, via : Streams]
<1>1. agg \in Seq(Rec)
  BY DEF TypeOK
<1> HIDE DEF Rec
<1>2. /\ DOMAIN agg = 1 .. Len(agg) /\ Len(agg) \in Nat
      /\ \A i \in DOMAIN agg : agg[i] \in Rec
  BY <1>1, LenProperties
<1> QED BY <1>2 DEF Rec

LEMMA TypeInit == Init => TypeOK
<1> SUFFICES ASSUME Init PROVE TypeOK
  OBVIOUS
<1> USE DeliveryAssumption, EmptyFacts DEF Init, Fifo!Init
<1>1. /\ queue \in Seq(EventIds) /\ Len(queue) <= Capacity
      /\ batch \in Seq(EventIds) /\ Len(batch) <= Capacity
      /\ batch # << >> <=> pc = "send"
  OBVIOUS
<1>2. /\ wire \in [Streams -> Seq(EventIds)]
      /\ \A s \in Streams : Len(wire[s]) <= Window
  OBVIOUS
<1>3. agg \in Seq([id : EventIds, via : Streams])
  OBVIOUS
<1>4. /\ acks \in [Streams -> 0 .. AckWindow]
      /\ handler \in [Streams -> {"none", "recv", "ack", "done"}]
  OBVIOUS
<1>5. /\ produced \in 0 .. MaxEvents /\ faults \in 0 .. MaxFaults /\ rlCount \in Nat
      /\ cur \in Streams \cup {0} /\ broken \in SUBSET (1 .. cur)
      /\ pc \in {"connect", "drain", "send"} /\ (pc # "connect" => cur # 0)
  OBVIOUS
<1>6. /\ dropped \in SUBSET EventIds /\ past \in SUBSET EventIds
      /\ up \in BOOLEAN /\ rlExpired \in BOOLEAN
  OBVIOUS
<1> QED BY <1>1, <1>2, <1>3, <1>4, <1>5, <1>6, Zenon DEF TypeOK

(* Each operation in turn keeps the variables in their types. *)
LEMMA EnqueueType == TypeOK /\ Enqueue => TypeOK'
<1> SUFFICES ASSUME TypeOK, Enqueue PROVE TypeOK'
  OBVIOUS
<1>1. produced + 1 \in EventIds /\ produced' = produced + 1 /\ produced' \in 0 .. MaxEvents
  BY DeliveryAssumption DEF Enqueue, TypeOK, EventIds
<1>2. queue' \in Seq(EventIds) /\ Len(queue') <= Capacity
  <2>1. CASE Len(queue) < Capacity
    <3>1. queue' = Append(queue, produced + 1)
      BY <2>1 DEF Enqueue, Fifo!Put, Fifo!PutInto
    <3> QED BY <3>1, <2>1, <1>1, AppendFacts, LenProperties, DeliveryAssumption DEF TypeOK
  <2>2. CASE ~(Len(queue) < Capacity)
    <3>1. queue' = Append(Tail(queue), produced + 1)
      BY <2>2 DEF Enqueue, Fifo!Put, Fifo!PutInto
    <3>2. queue # << >>
      BY <2>2, EmptyFacts, DeliveryAssumption
    <3> QED BY <3>1, <3>2, <2>2, <1>1, TailFacts, AppendFacts, DeliveryAssumption DEF TypeOK
  <2> QED BY <2>1, <2>2
<1>3. dropped' \in SUBSET EventIds
  <2>1. CASE Len(queue) < Capacity
    BY <2>1 DEF Enqueue, Fifo!DiscardedBy, TypeOK
  <2>2. CASE ~(Len(queue) < Capacity)
    <3>1. queue # << >>
      BY <2>2, EmptyFacts, DeliveryAssumption
    <3> QED BY <3>1, <2>2, TailFacts DEF Enqueue, Fifo!DiscardedBy, TypeOK
  <2> QED BY <2>1, <2>2
<1>4. UNCHANGED <<batch, pc, streamVars, collectorVars, faults>>
  BY DEF Enqueue, Fifo!Put
<1> QED BY <1>1, <1>2, <1>3, <1>4 DEF TypeOK, streamVars, collectorVars

LEMMA OpenStreamType == TypeOK /\ OpenStream => TypeOK'
<1> SUFFICES ASSUME TypeOK, OpenStream PROVE TypeOK'
  OBVIOUS
<1>1. /\ cur' \in Streams /\ cur' # 0 /\ broken' \in SUBSET (1 .. cur')
      /\ handler' \in [Streams -> {"none", "recv", "ack", "done"}]
  BY StreamsAreNumbers DEF TypeOK, OpenStream
<1>2. pc' = "drain" /\ pc = "connect"
  BY DEF OpenStream
<1> QED BY <1>1, <1>2 DEF TypeOK, OpenStream, collectorVars

LEMMA DrainType == TypeOK /\ Drain => TypeOK'
<1> SUFFICES ASSUME TypeOK, Drain PROVE TypeOK'
  OBVIOUS
<1>1. pc' = "send" /\ batch' = queue /\ queue' = << >> /\ queue # << >> /\ pc = "drain"
  BY DEF Drain, Fifo!TakeAll
<1> QED BY <1>1, EmptyFacts, DeliveryAssumption
        DEF TypeOK, Drain, streamVars, collectorVars

(* The loop over the batch ends exactly when the batch is used up. *)
LEMMA NextOfBatchType ==
  ASSUME TypeOK, pc = "send", NextOfBatch
  PROVE  /\ batch # << >> /\ cur \in Streams
         /\ batch' \in Seq(EventIds) /\ Len(batch') <= Capacity
         /\ pc' \in {"connect", "drain", "send"} /\ pc' # "connect"
         /\ batch' # << >> <=> pc' = "send"
<1>1. batch # << >> /\ batch \in Seq(EventIds) /\ cur \in Streams
  BY DEF TypeOK
<1>2. batch' = Tail(batch) /\ pc' = IF Len(batch) = 1 THEN "drain" ELSE "send"
  BY DEF NextOfBatch
<1>3. /\ batch' \in Seq(EventIds) /\ Len(batch') = Len(batch) - 1
      /\ batch' = << >> <=> Len(batch) = 1
      /\ Len(batch) \in Nat /\ Len(batch) <= Capacity /\ Capacity \in Nat
  BY <1>1, <1>2, TailFacts, DeliveryAssumption DEF TypeOK
<1> QED BY <1>1, <1>2, <1>3

LEMMA SendAcceptedType == TypeOK /\ SendAccepted => TypeOK'
<1> SUFFICES ASSUME TypeOK, SendAccepted PROVE TypeOK'
  OBVIOUS
<1>1. pc = "send" /\ NextOfBatch
  BY DEF SendAccepted
<1>2. Head(batch) \in EventIds
  BY <1>1, TailFacts DEF TypeOK
<1>3. /\ wire' \in [Streams -> Seq(EventIds)]
      /\ \A s \in Streams : Len(wire'[s]) <= Window
  <2>1. /\ cur \in Streams /\ Len(wire[cur]) < Window
        /\ wire' = [wire EXCEPT ![cur] = Append(wire[cur], Head(batch))]
    BY <1>1, NextOfBatchType DEF SendAccepted
  <2>2. /\ wire[cur] \in Seq(EventIds)
        /\ Append(wire[cur], Head(batch)) \in Seq(EventIds)
        /\ Len(Append(wire[cur], Head(batch))) = Len(wire[cur]) + 1
        /\ Len(wire[cur]) \in Nat
    BY <1>2, <2>1, AppendFacts, LenProperties DEF TypeOK
  <2> QED BY <2>1, <2>2, DeliveryAssumption DEF TypeOK
<1> QED BY <1>1, <1>3, NextOfBatchType DEF TypeOK, SendAccepted, collectorVars

LEMMA SendUnnoticedType == TypeOK /\ SendUnnoticed => TypeOK'
<1> SUFFICES ASSUME TypeOK, SendUnnoticed PROVE TypeOK'
  OBVIOUS
<1>1. pc = "send" /\ NextOfBatch
  BY DEF SendUnnoticed
<1> QED BY <1>1, NextOfBatchType DEF TypeOK, SendUnnoticed, streamVars, collectorVars

LEMMA SendFailsType == TypeOK /\ SendFails => TypeOK'
<1> SUFFICES ASSUME TypeOK, SendFails PROVE TypeOK'
  OBVIOUS
<1>1. cur \in Streams /\ broken' \in SUBSET (1 .. cur)
  BY StreamsAreNumbers DEF TypeOK, SendFails
<1> QED BY <1>1, EmptyFacts, DeliveryAssumption DEF TypeOK, SendFails, collectorVars

LEMMA AgentRestartType == TypeOK /\ AgentRestart => TypeOK'
<1> SUFFICES ASSUME TypeOK, AgentRestart PROVE TypeOK'
  OBVIOUS
<1>1. broken' \in SUBSET (1 .. cur)
  BY StreamsAreNumbers DEF TypeOK, AgentRestart
<1>2. faults' \in 0 .. MaxFaults
  BY DeliveryAssumption DEF TypeOK, AgentRestart
<1> QED BY <1>1, <1>2, EmptyFacts, DeliveryAssumption
        DEF TypeOK, AgentRestart, collectorVars

(* Receive, the one place where the rate limiter decides. *)
LEMMA ReceiveType ==
  ASSUME TypeOK, NEW s \in Streams, Receive(s)
  PROVE  TypeOK'
<1> DEFINE rec == [id |-> Head(wire[s]), via |-> s]
<1>1. /\ wire[s] \in Seq(EventIds) /\ wire[s] # << >>
      /\ Len(wire[s]) <= Window
  BY DEF TypeOK, Receive
<1>2. /\ Head(wire[s]) \in EventIds /\ Tail(wire[s]) \in Seq(EventIds)
      /\ Len(Tail(wire[s])) <= Window
  <2>1. /\ Head(wire[s]) \in EventIds /\ Tail(wire[s]) \in Seq(EventIds)
        /\ Len(wire[s]) \in Nat /\ Len(Tail(wire[s])) = Len(wire[s]) - 1
    BY <1>1, TailFacts
  <2> QED BY <2>1, <1>1, DeliveryAssumption
<1>3. rlCount' \in Nat /\ rlExpired' \in BOOLEAN
  <2>1. rlCount' = CountNow /\ rlExpired' = FALSE
    BY DEF Receive
  <2>2. CountNow \in Nat
    BY DEF TypeOK, CountNow
  <2> QED BY <2>1, <2>2
<1>4. CASE CountNow > Limit
  <2>1. /\ handler' = [handler EXCEPT ![s] = "done"]
        /\ wire' = [wire EXCEPT ![s] = << >>]
        /\ agg' = agg
    BY <1>4 DEF Receive, Return
  <2>2. /\ handler' \in [Streams -> {"none", "recv", "ack", "done"}]
        /\ wire' \in [Streams -> Seq(EventIds)]
        /\ \A t \in Streams : Len(wire'[t]) <= Window
    BY <2>1, EmptyFacts, DeliveryAssumption DEF TypeOK
  <2> QED BY <1>3, <2>1, <2>2 DEF TypeOK, Receive, agentVars
<1>5. CASE ~(CountNow > Limit)
  <2>1. /\ handler' = [handler EXCEPT ![s] = "ack"]
        /\ wire' = [wire EXCEPT ![s] = Tail(wire[s])]
        /\ agg' = Append(agg, rec)
    BY <1>5 DEF Receive
  <2>2. /\ handler' \in [Streams -> {"none", "recv", "ack", "done"}]
        /\ wire' \in [Streams -> Seq(EventIds)]
        /\ \A t \in Streams : Len(wire'[t]) <= Window
    BY <1>1, <1>2, <2>1 DEF TypeOK
  <2>3. agg' \in Seq([id : EventIds, via : Streams])
    <3>1. rec \in [id : EventIds, via : Streams]
      BY <1>2
    <3> HIDE DEF rec
    <3> QED BY <2>1, <3>1, AppendProperties DEF TypeOK
  <2> QED BY <1>3, <2>2, <2>3 DEF TypeOK, Receive, agentVars
<1> QED BY <1>4, <1>5

LEMMA SendAckType ==
  ASSUME TypeOK, NEW s \in Streams, SendAck(s)
  PROVE  TypeOK'
<1>1. /\ acks' \in [Streams -> 0 .. AckWindow]
      /\ handler' \in [Streams -> {"none", "recv", "ack", "done"}]
  BY DeliveryAssumption DEF TypeOK, SendAck
<1> QED BY <1>1 DEF TypeOK, SendAck, agentVars, collectorVars

LEMMA HandlerEndsType ==
  ASSUME TypeOK, NEW s \in Streams, HandlerEnds(s)
  PROVE  TypeOK'
<1>1. /\ handler' \in [Streams -> {"none", "recv", "ack", "done"}]
      /\ wire' \in [Streams -> Seq(EventIds)]
      /\ \A t \in Streams : Len(wire'[t]) <= Window
  BY EmptyFacts, DeliveryAssumption DEF TypeOK, HandlerEnds, Return
<1> QED BY <1>1 DEF TypeOK, HandlerEnds, agentVars, collectorVars

LEMMA CollectorStopsType == TypeOK /\ CollectorStops => TypeOK'
<1> SUFFICES ASSUME TypeOK, CollectorStops PROVE TypeOK'
  OBVIOUS
<1>1. /\ handler' \in [Streams -> {"none", "recv", "ack", "done"}]
      /\ wire' \in [Streams -> Seq(EventIds)]
      /\ \A t \in Streams : Len(wire'[t]) <= Window
  BY EmptyFacts, DeliveryAssumption DEF CollectorStops
<1>2. past' \in SUBSET EventIds
  <2>1. \A i \in DOMAIN agg : agg[i].id \in EventIds
    BY RecordTypes
  <2> QED BY <2>1 DEF TypeOK, CollectorStops
<1>3. agg' \in Seq([id : EventIds, via : Streams])
  BY DEF CollectorStops
<1>4. faults' \in 0 .. MaxFaults
  BY DeliveryAssumption DEF TypeOK, CollectorStops
<1> QED BY <1>1, <1>2, <1>3, <1>4 DEF TypeOK, CollectorStops, agentVars

LEMMA NetworkFailsType == TypeOK /\ NetworkFails => TypeOK'
<1> SUFFICES ASSUME TypeOK, NetworkFails PROVE TypeOK'
  OBVIOUS
<1>1. broken' \in SUBSET (1 .. cur)
  BY StreamsAreNumbers DEF TypeOK, NetworkFails
<1>2. faults' \in 0 .. MaxFaults
  BY DeliveryAssumption DEF TypeOK, NetworkFails
<1> QED BY <1>1, <1>2 DEF TypeOK, NetworkFails, agentVars, collectorVars

LEMMA TypeStep == TypeOK /\ [Next]_vars => TypeOK'
<1> SUFFICES ASSUME TypeOK, [Next]_vars PROVE TypeOK'
  OBVIOUS
<1>1. CASE Agent
  BY <1>1, EnqueueType, OpenStreamType, DrainType, SendAcceptedType,
     SendUnnoticedType, SendFailsType DEF Agent
<1>2. CASE MinutePasses
  BY <1>2 DEF TypeOK, MinutePasses, agentVars, streamVars
<1>3. ASSUME NEW s \in Streams, Receive(s) \/ SendAck(s) \/ HandlerEnds(s)
      PROVE  TypeOK'
  BY <1>3, ReceiveType, SendAckType, HandlerEndsType
<1>4. CASE CollectorStarts
  BY <1>4 DEF TypeOK, CollectorStarts, agentVars, streamVars
<1>5. CASE AgentRestart \/ CollectorStops \/ NetworkFails
  BY <1>5, AgentRestartType, CollectorStopsType, NetworkFailsType
<1>6. CASE UNCHANGED vars
  BY <1>6 DEF TypeOK, vars, agentVars, streamVars, collectorVars
<1> QED BY <1>1, <1>2, <1>3, <1>4, <1>5, <1>6 DEF Next, Collector, Environment

(* Every variable stays in its type: in particular the buffer and each     *)
(* stream's window never exceed their capacity, and the goroutine is in    *)
(* its send loop exactly while it holds events of a batch.                 *)
THEOREM DeliveryTypes == Spec => []TypeOK
  BY TypeInit, TypeStep, PTL DEF Spec

LEMMA BelowApart ==
  ASSUME NEW A, NEW B \in SUBSET EventIds, Below(A, B)
  PROVE  A \cap B = {}
<1> SUFFICES ASSUME NEW x \in A \cap B PROVE FALSE
  OBVIOUS
<1>1. x < x /\ x \in Nat
  BY StreamsAreNumbers DEF Below
<1> QED BY <1>1

------------------------------------------------------------------------------
(* Order.                                                                  *)
LEMMA OrderInit == Init => OrderInv
<1> SUFFICES ASSUME Init PROVE OrderInv
  OBVIOUS
<1>1. queue = << >> /\ batch = << >> /\ agg = << >> /\ past = {} /\ dropped = {}
  BY DEF Init, Fifo!Init
<1>2. \A s \in Streams : wire[s] = << >> /\ handler[s] = "none"
  BY DEF Init
<1>3. DOMAIN << >> = {} /\ Range(<< >>) = {} /\ Increasing(<< >>)
  BY EmptyFacts
<1>4. \A s \in Streams : Flow(s) = {} /\ CarriedBy(s) = {} /\ Range(wire[s]) = {}
  BY <1>1, <1>2, <1>3 DEF Flow, CarriedBy
<1>5. Unopened /\ PlacesSorted
  BY <1>1, <1>2, <1>3, <1>4 DEF Unopened, PlacesSorted
<1>6. PathsSorted /\ DroppedApart /\ NothingInvented
  BY <1>1, <1>3, <1>4 DEF PathsSorted, DroppedApart, NothingInvented, Below
<1> QED BY <1>5, <1>6 DEF OrderInv

(* What carries and what is carried changes with agg and wire only.        *)
LEMMA FlowKept ==
  ASSUME NEW s \in Streams, agg' = agg, wire'[s] = wire[s]
  PROVE  /\ CarriedBy(s)' = CarriedBy(s) /\ Flow(s)' = Flow(s)
         /\ Range(wire[s])' = Range(wire[s])
  BY DEF CarriedBy, Flow

(* Losing events anywhere, and measuring others, disturbs no order between *)
(* places.                                                                 *)
LEMMA LossKeepsOrder ==
  ASSUME PathsSorted, DroppedApart, NothingInvented,
         produced \in Nat, produced' \in Nat, produced <= produced',
         Range(queue)' \subseteq Range(queue),
         Range(batch)' \subseteq Range(batch),
         past' \subseteq past, dropped' \subseteq dropped,
         \A s \in Streams : /\ CarriedBy(s)' \subseteq CarriedBy(s)
                            /\ Range(wire[s])' \subseteq Range(wire[s])
  PROVE  PathsSorted' /\ DroppedApart' /\ NothingInvented'
<1>1. \A s \in Streams : Flow(s)' \subseteq Flow(s)
  BY DEF Flow
<1>2. PathsSorted'
  BY <1>1 DEF PathsSorted, Below
<1>3. DroppedApart'
  BY <1>1 DEF DroppedApart, Below
<1>4. NothingInvented'
  BY <1>1 DEF NothingInvented
<1> QED BY <1>2, <1>3, <1>4

(* The operations that only lose events, or move none.                     *)
LEMMA AgentLosesOrder ==
  ASSUME TypeOK, OrderInv, OpenStream \/ SendUnnoticed \/ SendFails \/ AgentRestart
  PROVE  OrderInv'
<1>1. /\ UNCHANGED <<produced, dropped, wire, agg, past>>
      /\ produced \in Nat
      /\ cur \in Nat /\ cur' \in Nat /\ cur <= cur'
      /\ \A s \in Streams : s \in Nat /\ (s > cur' => handler'[s] = handler[s])
  <2>1. /\ produced \in Nat /\ cur \in Nat /\ Streams \subseteq Nat
        /\ handler \in [Streams -> {"none", "recv", "ack", "done"}]
    BY StreamsAreNumbers, DeliveryAssumption DEF TypeOK
  <2>2. CASE OpenStream
    BY <2>1, <2>2 DEF OpenStream, collectorVars
  <2>3. CASE SendUnnoticed
    BY <2>1, <2>3 DEF SendUnnoticed, streamVars, collectorVars
  <2>4. CASE SendFails
    BY <2>1, <2>4 DEF SendFails, collectorVars
  <2>5. CASE AgentRestart
    BY <2>1, <2>5 DEF AgentRestart, collectorVars
  <2> QED BY <2>2, <2>3, <2>4, <2>5
<1>2. /\ Range(queue)' \subseteq Range(queue) /\ Range(batch)' \subseteq Range(batch)
      /\ Increasing(queue)' /\ Increasing(batch)'
  <2>1. CASE OpenStream
    BY <2>1 DEF OpenStream, OrderInv, PlacesSorted
  <2>2. CASE SendUnnoticed
    <3>1. batch \in Seq(EventIds) /\ batch # << >> /\ batch' = Tail(batch) /\ queue' = queue
      BY <2>2 DEF SendUnnoticed, NextOfBatch, TypeOK
    <3> QED BY <3>1, TailFacts DEF OrderInv, PlacesSorted
  <2>3. CASE SendFails
    BY <2>3, EmptyFacts DEF SendFails, OrderInv, PlacesSorted
  <2>4. CASE AgentRestart
    BY <2>4, EmptyFacts DEF AgentRestart
  <2> QED BY <2>1, <2>2, <2>3, <2>4
<1>3. \A s \in Streams : /\ CarriedBy(s)' = CarriedBy(s)
                         /\ Flow(s)' = Flow(s)
                         /\ Range(wire[s])' = Range(wire[s])
  BY <1>1, FlowKept
<1>4. PlacesSorted'
  BY <1>1, <1>2 DEF OrderInv, PlacesSorted
<1>5. Unopened'
  BY <1>1, <1>3 DEF OrderInv, Unopened
<1>6. PathsSorted' /\ DroppedApart' /\ NothingInvented'
  BY <1>1, <1>2, <1>3, LossKeepsOrder DEF OrderInv
<1> QED BY <1>4, <1>5, <1>6 DEF OrderInv

(* A new event is younger than all others; if it overwrites one, that is   *)
(* the oldest of the buffer.                                               *)
LEMMA EnqueueOrder ==
  ASSUME TypeOK, OrderInv, Enqueue
  PROVE  OrderInv'
<1> DEFINE e == produced + 1
<1>1. /\ e \in EventIds /\ produced' = e /\ produced \in Nat
      /\ queue \in Seq(EventIds) /\ EventIds \subseteq Nat
      /\ Range(queue) \subseteq EventIds
  BY DeliveryAssumption, RangeOfSeq DEF Enqueue, TypeOK, EventIds
<1>2. UNCHANGED <<batch, cur, broken, wire, acks, handler, agg, past>>
  BY DEF Enqueue, Fifo!Put, streamVars, collectorVars
<1> HIDE DEF e
<1>3. \E q \in Seq(EventIds) :
        /\ queue' = Append(q, e)
        /\ Increasing(q)
        /\ Range(q) \subseteq Range(queue)
        /\ Below(dropped', Range(q))
        /\ dropped' \subseteq dropped \cup Range(queue)
  <2>1. CASE Len(queue) < Capacity
    <3>1. queue' = Append(queue, e) /\ dropped' = dropped
      BY <2>1 DEF Enqueue, Fifo!Put, Fifo!PutInto, Fifo!DiscardedBy, e
    <3> QED BY <1>1, <3>1 DEF OrderInv, PlacesSorted, DroppedApart
  <2>2. CASE ~(Len(queue) < Capacity)
    <3>1. queue' = Append(Tail(queue), e) /\ dropped' = dropped \cup {Head(queue)}
      BY <2>2 DEF Enqueue, Fifo!Put, Fifo!PutInto, Fifo!DiscardedBy, e
    <3>2. queue # << >>
      BY <2>2, EmptyFacts, DeliveryAssumption
    <3>3. /\ Tail(queue) \in Seq(EventIds) /\ Increasing(Tail(queue))
          /\ Range(queue) = {Head(queue)} \cup Range(Tail(queue))
          /\ Below({Head(queue)}, Range(Tail(queue)))
      BY <1>1, <3>2, TailFacts DEF OrderInv, PlacesSorted
    <3>4. Below(dropped', Range(Tail(queue)))
      BY <3>1, <3>3 DEF OrderInv, DroppedApart, Below
    <3> QED BY <3>1, <3>3, <3>4
  <2> QED BY <2>1, <2>2
<1>4. PICK q \in Seq(EventIds) :
        /\ queue' = Append(q, e)
        /\ Increasing(q)
        /\ Range(q) \subseteq Range(queue)
        /\ Below(dropped', Range(q))
        /\ dropped' \subseteq dropped \cup Range(queue)
  BY <1>3
<1>5. /\ \A x \in Range(queue) \cup Range(batch) \cup past \cup dropped : x < e
      /\ \A s \in Streams : \A x \in Flow(s) : x < e
      /\ produced <= e
  BY <1>1 DEF OrderInv, NothingInvented, e
<1>6. /\ Range(queue') = Range(q) \cup {e}
      /\ Increasing(queue')
  <2>1. Below(Range(q), {e})
    BY <1>4, <1>5 DEF Below
  <2> QED BY <1>1, <1>4, <2>1, AppendFacts
<1>7. \A s \in Streams : /\ CarriedBy(s)' = CarriedBy(s) /\ Flow(s)' = Flow(s)
                         /\ Range(wire[s])' = Range(wire[s])
  BY <1>2, FlowKept
<1>8. Unopened'
  BY <1>2, <1>7 DEF OrderInv, Unopened
<1>9. PlacesSorted'
  BY <1>2, <1>6 DEF OrderInv, PlacesSorted
<1>10. PathsSorted'
  BY <1>2, <1>4, <1>5, <1>6, <1>7 DEF OrderInv, PathsSorted, Below
<1>11. DroppedApart'
  <2>1. Below(dropped', Range(queue)')
    BY <1>4, <1>5, <1>6 DEF Below
  <2>2. Range(queue) \cap (Range(batch) \cup past) = {}
    <3>1. Below(past, Range(queue)) /\ Below(Range(batch), Range(queue))
      BY DEF OrderInv, PathsSorted, Below
    <3>2. past \cap Range(queue) = {} /\ Range(batch) \cap Range(queue) = {}
      BY <1>1, <3>1, BelowApart
    <3> QED BY <3>2
  <2>3. \A s \in Streams : Range(queue) \cap Flow(s) = {}
    <3> SUFFICES ASSUME NEW s \in Streams PROVE Flow(s) \cap Range(queue) = {}
      OBVIOUS
    <3>1. Below(Flow(s), Range(queue))
      BY DEF OrderInv, PathsSorted, Below
    <3> QED BY <1>1, <3>1, BelowApart
  <2> QED BY <1>2, <1>4, <1>7, <2>1, <2>2, <2>3 DEF OrderInv, DroppedApart
<1>12. NothingInvented'
  <2>1. e \in 1 .. produced' /\ 1 .. produced \subseteq 1 .. produced'
    BY <1>1 DEF e
  <2>2. /\ Range(queue') \subseteq Range(queue) \cup {e}
        /\ dropped' \subseteq dropped \cup Range(queue)
    BY <1>4, <1>6
  <2> QED BY <1>2, <1>7, <2>1, <2>2 DEF OrderInv, NothingInvented
<1> QED BY <1>8, <1>9, <1>10, <1>11, <1>12 DEF OrderInv

(* The batch takes the place of the buffer.                                *)
LEMMA DrainOrder ==
  ASSUME TypeOK, OrderInv, Drain
  PROVE  OrderInv'
<1>1. /\ batch' = queue /\ queue' = << >> /\ batch = << >>
      /\ UNCHANGED <<produced, dropped, cur, wire, handler, agg, past>>
  BY DEF Drain, Fifo!TakeAll, TypeOK, streamVars, collectorVars
<1>2. /\ Range(batch') = Range(queue) /\ Range(queue') = {} /\ Range(batch) = {}
      /\ Increasing(queue')
  BY <1>1, EmptyFacts
<1>3. \A s \in Streams : /\ CarriedBy(s)' = CarriedBy(s) /\ Flow(s)' = Flow(s)
                         /\ Range(wire[s])' = Range(wire[s])
  BY <1>1, FlowKept
<1>4. Unopened' /\ PlacesSorted'
  BY <1>1, <1>2, <1>3 DEF OrderInv, Unopened, PlacesSorted
<1>5. PathsSorted'
  BY <1>1, <1>2, <1>3 DEF OrderInv, PathsSorted, Below
<1>6. DroppedApart'
  <2>1. Range(queue) \subseteq EventIds /\ EventIds \subseteq Nat
    BY RangeOfSeq, StreamsAreNumbers DEF TypeOK
  <2>2. dropped \cap Range(queue) = {}
    BY <2>1, BelowApart DEF OrderInv, DroppedApart
  <2> QED BY <1>1, <1>2, <1>3, <2>2 DEF OrderInv, DroppedApart, Below
<1>7. NothingInvented'
  BY <1>1, <1>2, <1>3 DEF OrderInv, NothingInvented
<1> QED BY <1>4, <1>5, <1>6, <1>7 DEF OrderInv

(* The oldest event of the batch becomes the youngest of the latest stream.*)
LEMMA SendAcceptedMoves ==
  ASSUME TypeOK, OrderInv, SendAccepted
  PROVE  /\ cur \in Streams /\ Head(batch) \in EventIds
         /\ UNCHANGED <<produced, queue, dropped, cur, handler, agg, past, faults, broken>>
         /\ Range(batch) = {Head(batch)} \cup Range(batch')
         /\ Below({Head(batch)}, Range(batch'))
         /\ Increasing(batch')
         /\ \A s \in Streams :
              /\ Below(Flow(s), {Head(batch)}) /\ Below(CarriedBy(s), {Head(batch)})
              /\ CarriedBy(s)' = CarriedBy(s)
              /\ s # cur => /\ Flow(s)' = Flow(s)
                            /\ Range(wire[s])' = Range(wire[s])
                            /\ wire'[s] = wire[s]
              /\ s = cur => /\ Flow(s)' = Flow(s) \cup {Head(batch)}
                            /\ Range(wire[s])' = Range(wire[s]) \cup {Head(batch)}
                            /\ Increasing(wire[s])'
<1> DEFINE h == Head(batch)
<1>1. /\ batch \in Seq(EventIds) /\ batch # << >> /\ cur \in Streams
      /\ batch' = Tail(batch)
      /\ wire' = [wire EXCEPT ![cur] = Append(wire[cur], h)]
      /\ UNCHANGED <<produced, queue, dropped, cur, handler, agg, past, faults, broken>>
  BY NextOfBatchType DEF SendAccepted, NextOfBatch, TypeOK, collectorVars
<1>2. /\ h \in EventIds
      /\ Range(batch) = {h} \cup Range(batch')
      /\ Below({h}, Range(batch'))
      /\ Increasing(batch')
  BY <1>1, TailFacts DEF OrderInv, PlacesSorted
<1> HIDE DEF h
<1>3. \A s \in Streams : Below(Flow(s), {h}) /\ Below(CarriedBy(s), {h})
                         /\ Below(Range(wire[s]), {h})
  BY <1>2 DEF OrderInv, PathsSorted, Below, Flow
<1>4. \A s \in Streams : s # cur => /\ CarriedBy(s)' = CarriedBy(s)
                                    /\ Flow(s)' = Flow(s)
                                    /\ Range(wire[s])' = Range(wire[s])
                                    /\ wire'[s] = wire[s]
  <2>1. \A s \in Streams : s # cur => wire'[s] = wire[s]
    BY <1>1 DEF TypeOK
  <2> QED BY <1>1, <2>1, FlowKept
<1>5. \A s \in Streams : s = cur =>
        /\ Range(wire[s])' = Range(wire[s]) \cup {h}
        /\ Increasing(wire[s])'
        /\ CarriedBy(s)' = CarriedBy(s)
        /\ Flow(s)' = Flow(s) \cup {h}
  <2> SUFFICES ASSUME NEW s \in Streams, s = cur
               PROVE  /\ Range(wire[s])' = Range(wire[s]) \cup {h}
                      /\ Increasing(wire[s])'
                      /\ CarriedBy(s)' = CarriedBy(s)
                      /\ Flow(s)' = Flow(s) \cup {h}
    OBVIOUS
  <2>1. wire'[s] = Append(wire[s], h) /\ wire[s] \in Seq(EventIds)
    BY <1>1 DEF TypeOK
  <2>2. Range(wire'[s]) = Range(wire[s]) \cup {h} /\ Increasing(wire'[s])
    BY <1>1, <1>2, <1>3, <2>1, AppendFacts DEF OrderInv, PlacesSorted
  <2>3. CarriedBy(s)' = CarriedBy(s)
    BY <1>1 DEF CarriedBy
  <2> QED BY <1>1, <2>2, <2>3 DEF Flow
<1> QED BY <1>1, <1>2, <1>3, <1>4, <1>5 DEF h

LEMMA SendAcceptedOrder ==
  ASSUME TypeOK, OrderInv, SendAccepted
  PROVE  OrderInv'
<1> DEFINE h == Head(batch)
<1>0. /\ cur \in Streams /\ h \in EventIds
      /\ UNCHANGED <<produced, queue, dropped, cur, handler, agg, past>>
      /\ Range(batch) = {h} \cup Range(batch')
      /\ Below({h}, Range(batch'))
      /\ Increasing(batch')
      /\ \A s \in Streams :
           /\ Below(Flow(s), {h}) /\ Below(CarriedBy(s), {h})
           /\ CarriedBy(s)' = CarriedBy(s)
           /\ s # cur => /\ Flow(s)' = Flow(s)
                         /\ Range(wire[s])' = Range(wire[s])
                         /\ wire'[s] = wire[s]
           /\ s = cur => /\ Flow(s)' = Flow(s) \cup {h}
                         /\ Range(wire[s])' = Range(wire[s]) \cup {h}
                         /\ Increasing(wire[s])'
  BY SendAcceptedMoves
<1> HIDE DEF h
<1>6. Unopened'
  <2>1. \A s \in Streams : s > cur => s # cur
    BY <1>0, StreamsAreNumbers
  <2> QED BY <1>0, <2>1 DEF OrderInv, Unopened
<1>7. PlacesSorted'
  BY <1>0 DEF OrderInv, PlacesSorted
<1>8. PathsSorted'
  <2>1. ASSUME NEW s \in Streams
        PROVE  /\ Below(past, Flow(s)) /\ Below(CarriedBy(s), Range(wire[s]))
               /\ Below(Flow(s), Range(batch) \cup Range(queue))
               /\ Below(past, Range(batch)) /\ Below(Range(batch), Range(queue))
    BY DEF OrderInv, PathsSorted, Below
  <2>2. ASSUME NEW s \in Streams
        PROVE  /\ Below(past, Flow(s))'
               /\ Below(CarriedBy(s), Range(wire[s]))'
               /\ Below(Flow(s), Range(batch) \cup Range(queue))'
    <3>1. CASE s = cur
      BY <1>0, <2>1, <3>1 DEF Below
    <3>2. CASE s # cur
      BY <1>0, <2>1, <3>2 DEF Below
    <3> QED BY <3>1, <3>2
  <2>3. ASSUME NEW s \in Streams, NEW t \in Streams, s < t
        PROVE  Below(Flow(s), Flow(t))'
    <3>0. Below(Flow(s), Flow(t)) /\ s # t
      BY <2>3, StreamsAreNumbers DEF OrderInv, PathsSorted
    <3>1. CASE s = cur
      <4>1. t > cur /\ Flow(t) = {}
        BY <2>3, <3>1, StreamsAreNumbers DEF OrderInv, Unopened
      <4> QED BY <1>0, <3>0, <3>1, <4>1 DEF Below
    <3>2. CASE s # cur /\ t = cur
      BY <1>0, <3>0, <3>2 DEF Below
    <3>3. CASE s # cur /\ t # cur
      BY <1>0, <3>0, <3>3 DEF Below
    <3> QED BY <3>1, <3>2, <3>3
  <2>4. Below(past, Range(batch) \cup Range(queue))' /\ Below(Range(batch), Range(queue))'
    BY <1>0 DEF OrderInv, PathsSorted, Below
  <2> QED BY <2>2, <2>3, <2>4 DEF PathsSorted
<1>9. DroppedApart'
  <2>1. \A s \in Streams : dropped \cap (Flow(s) \cup {h}) = {}
    BY <1>0 DEF OrderInv, DroppedApart
  <2>2. \A s \in Streams : Flow(s)' \subseteq Flow(s) \cup {h}
    BY <1>0
  <2> QED BY <1>0, <2>1, <2>2 DEF OrderInv, DroppedApart
<1>10. NothingInvented'
  <2>1. h \in 1 .. produced
    BY <1>0 DEF OrderInv, NothingInvented
  <2>2. \A s \in Streams : Flow(s)' \subseteq Flow(s) \cup {h}
    BY <1>0
  <2> QED BY <1>0, <2>1, <2>2 DEF OrderInv, NothingInvented
<1> QED BY <1>6, <1>7, <1>8, <1>9, <1>10 DEF OrderInv

(* A stream whose handler returns loses what was still on its way.         *)
LEMMA ReturnOrder ==
  ASSUME TypeOK, OrderInv, NEW s \in Streams, handler[s] # "none", Return(s),
         UNCHANGED <<produced, queue, dropped, batch, cur, agg, past>>
  PROVE  OrderInv'
<1>1. \A t \in Streams : /\ CarriedBy(t)' = CarriedBy(t)
                         /\ Range(wire[t])' \subseteq Range(wire[t])
                         /\ Increasing(wire[t])'
                         /\ t # s => wire'[t] = wire[t] /\ handler'[t] = handler[t]
  <2> SUFFICES ASSUME NEW t \in Streams
               PROVE  /\ CarriedBy(t)' = CarriedBy(t)
                      /\ Range(wire[t])' \subseteq Range(wire[t])
                      /\ Increasing(wire[t])'
                      /\ t # s => wire'[t] = wire[t] /\ handler'[t] = handler[t]
    OBVIOUS
  <2>1. wire'[t] = IF t = s THEN << >> ELSE wire[t]
    BY DEF Return, TypeOK
  <2>2. t # s => handler'[t] = handler[t]
    BY DEF Return, TypeOK
  <2>3. CarriedBy(t)' = CarriedBy(t)
    BY DEF CarriedBy
  <2> QED BY <2>1, <2>2, <2>3, EmptyFacts DEF OrderInv, PlacesSorted
<1>2. PlacesSorted'
  BY <1>1 DEF OrderInv, PlacesSorted
<1>3. Unopened'
  <2>1. \A t \in Streams : t > cur => t # s
    BY DEF OrderInv, Unopened
  <2>2. \A t \in Streams : t > cur => Flow(t)' = Flow(t)
    BY <1>1, <2>1, FlowKept
  <2> QED BY <1>1, <2>1, <2>2 DEF OrderInv, Unopened
<1>4. PathsSorted' /\ DroppedApart' /\ NothingInvented'
  <2>1. produced \in Nat
    BY DEF TypeOK
  <2> QED BY <1>1, <2>1, LossKeepsOrder DEF OrderInv
<1> QED BY <1>2, <1>3, <1>4 DEF OrderInv

(* An event aggregated moves within the flow of its stream, and is the     *)
(* youngest that this stream has carried.                                  *)
LEMMA AggregatedMoves ==
  ASSUME TypeOK, OrderInv, NEW s \in Streams, Receive(s), CountNow <= Limit
  PROVE  /\ Head(wire[s]) \in EventIds
         /\ handler[s] = "recv" /\ handler'[s] = "ack"
         /\ UNCHANGED <<produced, queue, dropped, batch, cur, past, broken, faults>>
         /\ Range(wire[s]) = {Head(wire[s])} \cup Range(wire'[s])
         /\ Below({Head(wire[s])}, Range(wire'[s]))
         /\ Increasing(wire'[s])
         /\ CarriedBy(s)' = CarriedBy(s) \cup {Head(wire[s])}
         /\ DOMAIN agg' = DOMAIN agg \cup {Len(agg) + 1}
         /\ Len(agg) + 1 \notin DOMAIN agg
         /\ \A i \in DOMAIN agg : agg'[i] = agg[i] /\ i < Len(agg) + 1
         /\ agg'[Len(agg) + 1].id = Head(wire[s]) /\ agg'[Len(agg) + 1].via = s
         /\ \A t \in Streams :
              /\ Flow(t)' = Flow(t)
              /\ t # s => /\ CarriedBy(t)' = CarriedBy(t)
                          /\ Range(wire[t])' = Range(wire[t])
                          /\ Increasing(wire[t])'
                          /\ handler'[t] = handler[t]
<1> DEFINE h == Head(wire[s])
           rec == [id |-> h, via |-> s]
<1>1. /\ handler[s] = "recv" /\ wire[s] # << >> /\ wire[s] \in Seq(EventIds)
      /\ agg' = Append(agg, rec)
      /\ wire' = [wire EXCEPT ![s] = Tail(wire[s])]
      /\ handler' = [handler EXCEPT ![s] = "ack"]
      /\ UNCHANGED <<produced, queue, dropped, batch, cur, past, broken, faults>>
  <2>1. CountNow \in Nat /\ Limit \in Nat
    BY DeliveryAssumption DEF CountNow, TypeOK
  <2>2. ~(CountNow > Limit)
    BY <2>1
  <2> QED BY <2>2 DEF Receive, TypeOK, agentVars
<1>2. /\ h \in EventIds
      /\ Range(wire[s]) = {h} \cup Range(Tail(wire[s]))
      /\ Below({h}, Range(Tail(wire[s])))
      /\ Increasing(Tail(wire[s]))
  BY <1>1, TailFacts DEF OrderInv, PlacesSorted
<1> HIDE DEF h
<1>3. /\ DOMAIN agg' = DOMAIN agg \cup {Len(agg) + 1}
      /\ Len(agg) + 1 \notin DOMAIN agg
      /\ \A i \in DOMAIN agg : agg'[i] = agg[i] /\ i < Len(agg) + 1
      /\ agg'[Len(agg) + 1].id = h /\ agg'[Len(agg) + 1].via = s
  <2> DEFINE Rec == [id : EventIds, via : Streams]
  <2>1. agg \in Seq(Rec) /\ rec \in Rec
    BY <1>2 DEF TypeOK
  <2>2. rec.id = h /\ rec.via = s
    OBVIOUS
  <2> HIDE DEF Rec, rec
  <2>3. /\ agg' \in Seq(Rec) /\ Len(agg') = Len(agg) + 1 /\ Len(agg) \in Nat
        /\ DOMAIN agg' = 1 .. Len(agg) + 1 /\ DOMAIN agg = 1 .. Len(agg)
        /\ \A i \in 1 .. Len(agg) : agg'[i] = agg[i]
        /\ agg'[Len(agg) + 1] = rec
    BY <1>1, <2>1, AppendProperties, LenProperties
  <2> QED BY <2>2, <2>3
<1>4. \A t \in Streams : t # s => /\ CarriedBy(t)' = CarriedBy(t)
                                  /\ Range(wire[t])' = Range(wire[t])
                                  /\ Increasing(wire[t])'
                                  /\ Flow(t)' = Flow(t)
                                  /\ handler'[t] = handler[t]
  <2> SUFFICES ASSUME NEW t \in Streams, t # s
               PROVE  /\ CarriedBy(t)' = CarriedBy(t)
                      /\ wire'[t] = wire[t] /\ handler'[t] = handler[t]
    BY DEF Flow, OrderInv, PlacesSorted
  <2>1. CarriedBy(t)' = CarriedBy(t)
    BY <1>3 DEF CarriedBy
  <2> QED BY <1>1, <2>1 DEF TypeOK
<1>5. /\ CarriedBy(s)' = CarriedBy(s) \cup {h}
      /\ wire'[s] = Tail(wire[s])
      /\ Flow(s)' = Flow(s)
  <2>1. CarriedBy(s)' = CarriedBy(s) \cup {h}
    BY <1>3 DEF CarriedBy
  <2>2. wire'[s] = Tail(wire[s])
    BY <1>1 DEF TypeOK
  <2> QED BY <1>2, <2>1, <2>2 DEF Flow
<1>6. handler'[s] = "ack"
  BY <1>1 DEF TypeOK
<1> QED BY <1>1, <1>2, <1>3, <1>4, <1>5, <1>6 DEF h

LEMMA AggregatedOrder ==
  ASSUME TypeOK, OrderInv, NEW s \in Streams, Receive(s), CountNow <= Limit
  PROVE  OrderInv'
<1> DEFINE h == Head(wire[s])
<1>0. /\ h \in EventIds
      /\ handler[s] = "recv" /\ handler'[s] = "ack"
      /\ UNCHANGED <<produced, queue, dropped, batch, cur, past, broken, faults>>
      /\ Range(wire[s]) = {h} \cup Range(wire'[s])
      /\ Below({h}, Range(wire'[s]))
      /\ Increasing(wire'[s])
      /\ CarriedBy(s)' = CarriedBy(s) \cup {h}
      /\ DOMAIN agg' = DOMAIN agg \cup {Len(agg) + 1}
      /\ Len(agg) + 1 \notin DOMAIN agg
      /\ \A i \in DOMAIN agg : agg'[i] = agg[i] /\ i < Len(agg) + 1
      /\ agg'[Len(agg) + 1].id = h /\ agg'[Len(agg) + 1].via = s
      /\ \A t \in Streams :
           /\ Flow(t)' = Flow(t)
           /\ t # s => /\ CarriedBy(t)' = CarriedBy(t)
                       /\ Range(wire[t])' = Range(wire[t])
                       /\ Increasing(wire[t])'
                       /\ handler'[t] = handler[t]
  BY AggregatedMoves
<1> HIDE DEF h
<1>6. \A t \in Streams : Flow(t)' = Flow(t)
  BY <1>0
<1>7. Below(CarriedBy(s), {h}) /\ Below(CarriedBy(s), Range(wire[s]))
  BY <1>0 DEF OrderInv, PathsSorted, Below
<1>8. Unopened'
  <2>1. \A t \in Streams : t > cur => t # s
    BY <1>0 DEF OrderInv, Unopened
  <2> QED BY <1>0, <1>6, <2>1 DEF OrderInv, Unopened
<1>9. PlacesSorted'
  <2>1. \A t \in Streams : Increasing(wire[t])'
    BY <1>0
  <2>2. ASSUME NEW i \in DOMAIN agg', NEW j \in DOMAIN agg',
               i < j, agg'[i].via = agg'[j].via
        PROVE  agg'[i].id < agg'[j].id
    <3>0. Len(agg) \in Nat /\ DOMAIN agg \subseteq Nat
      BY RecordTypes
    <3>1. i \in DOMAIN agg
      BY <1>0, <2>2, <3>0
    <3>2. CASE j \in DOMAIN agg
      BY <1>0, <2>2, <3>1, <3>2 DEF OrderInv, PlacesSorted
    <3>3. CASE j = Len(agg) + 1
      <4>1. agg[i].via = s
        BY <1>0, <2>2, <3>1, <3>3
      <4>2. agg[i].id \in CarriedBy(s)
        BY <3>1, <4>1 DEF CarriedBy
      <4> QED BY <1>0, <1>7, <3>1, <3>3, <4>2 DEF Below
    <3> QED BY <1>0, <3>2, <3>3
  <2> QED BY <1>0, <2>1, <2>2 DEF OrderInv, PlacesSorted
<1>10. PathsSorted'
  <2>1. ASSUME NEW t \in Streams
        PROVE  Below(CarriedBy(t), Range(wire[t]))'
    <3>1. CASE t = s
      BY <1>0, <1>7, <3>1 DEF Below
    <3>2. CASE t # s
      BY <1>0, <3>2 DEF OrderInv, PathsSorted, Below
    <3> QED BY <3>1, <3>2
  <2>2. Below(past, Range(batch) \cup Range(queue))' /\ Below(Range(batch), Range(queue))'
    BY <1>0 DEF OrderInv, PathsSorted, Below
  <2>3. ASSUME NEW t \in Streams
        PROVE  /\ Below(past, Flow(t))'
               /\ Below(Flow(t), Range(batch) \cup Range(queue))'
               /\ \A u \in Streams : t < u => Below(Flow(t), Flow(u))'
    BY <1>0, <1>6 DEF OrderInv, PathsSorted, Below
  <2> QED BY <2>1, <2>2, <2>3 DEF PathsSorted
<1>11. DroppedApart'
  BY <1>0, <1>6 DEF OrderInv, DroppedApart
<1>12. NothingInvented'
  BY <1>0, <1>6 DEF OrderInv, NothingInvented
<1> QED BY <1>8, <1>9, <1>10, <1>11, <1>12 DEF OrderInv

(* When the collector goes, what it has aggregated joins the past, which   *)
(* precedes all that is still in the agent.                                *)
LEMMA CollectorStopsOrder ==
  ASSUME TypeOK, OrderInv, CollectorStops
  PROVE  OrderInv'
<1>1. /\ agg' = << >>
      /\ past' = past \cup {agg[i].id : i \in DOMAIN agg}
      /\ wire' = [s \in Streams |-> << >>]
      /\ handler' = [s \in Streams |-> IF s <= cur THEN "done" ELSE "none"]
      /\ UNCHANGED <<produced, queue, dropped, batch, cur>>
  BY DEF CollectorStops, agentVars
<1>2. \A s \in Streams : /\ wire'[s] = << >> /\ Range(wire'[s]) = {}
                         /\ Increasing(wire'[s])
                         /\ CarriedBy(s)' = {} /\ Flow(s)' = {}
  <2>1. DOMAIN agg' = {}
    BY <1>1, EmptyFacts
  <2>2. \A s \in Streams : wire'[s] = << >>
    BY <1>1
  <2> QED BY <2>1, <2>2, EmptyFacts DEF CarriedBy, Flow
<1>3. \A x \in past' : x \in past \/ \E s \in Streams : x \in Flow(s)
  <2>1. \A i \in DOMAIN agg : agg[i].id \in Flow(agg[i].via) /\ agg[i].via \in Streams
    BY RecordTypes DEF Flow, CarriedBy
  <2> QED BY <1>1, <2>1
<1>4. Unopened'
  <2>1. \A s \in Streams : s > cur => ~(s <= cur)
    BY StreamsAreNumbers DEF TypeOK
  <2> QED BY <1>1, <1>2, <2>1 DEF Unopened
<1>5. PlacesSorted'
  <2>1. DOMAIN agg' = {}
    BY <1>1, EmptyFacts
  <2> QED BY <1>1, <1>2, <2>1 DEF OrderInv, PlacesSorted
<1>6. PathsSorted'
  <2>1. Below(past', Range(batch) \cup Range(queue))
    BY <1>3 DEF OrderInv, PathsSorted, Below
  <2> QED BY <1>1, <1>2, <2>1 DEF OrderInv, PathsSorted, Below
<1>7. DroppedApart'
  <2>1. dropped \cap past' = {}
    BY <1>3 DEF OrderInv, DroppedApart
  <2> QED BY <1>1, <1>2, <2>1 DEF OrderInv, DroppedApart
<1>8. NothingInvented'
  <2>1. past' \subseteq 1 .. produced
    BY <1>3 DEF OrderInv, NothingInvented
  <2> QED BY <1>1, <1>2, <2>1 DEF OrderInv, NothingInvented
<1> QED BY <1>4, <1>5, <1>6, <1>7, <1>8 DEF OrderInv

(* What moves no event disturbs nothing.                                   *)
LEMMA OrderKept ==
  ASSUME OrderInv,
         UNCHANGED <<produced, queue, dropped, batch, cur, wire, agg, past>>,
         \A s \in Streams : handler[s] = "none" => handler'[s] = "none"
  PROVE  OrderInv'
<1>1. \A s \in Streams : CarriedBy(s)' = CarriedBy(s) /\ Flow(s)' = Flow(s)
  BY FlowKept
<1>2. Unopened' /\ PlacesSorted'
  BY <1>1 DEF OrderInv, Unopened, PlacesSorted
<1>3. PathsSorted' /\ DroppedApart' /\ NothingInvented'
  BY <1>1 DEF OrderInv, PathsSorted, DroppedApart, NothingInvented, Below
<1> QED BY <1>2, <1>3 DEF OrderInv

LEMMA OrderStep == TypeOK /\ OrderInv /\ [Next]_vars => OrderInv'
<1> SUFFICES ASSUME TypeOK, OrderInv, [Next]_vars PROVE OrderInv'
  OBVIOUS
<1>1. CASE Agent
  BY <1>1, EnqueueOrder, DrainOrder, SendAcceptedOrder, AgentLosesOrder DEF Agent
<1>2. ASSUME NEW s \in Streams, Receive(s) PROVE OrderInv'
  <2>1. CASE CountNow <= Limit
    BY <1>2, <2>1, AggregatedOrder
  <2>2. CASE ~(CountNow <= Limit)
    <3>1. CountNow > Limit
      BY <2>2, DeliveryAssumption DEF TypeOK, CountNow
    <3>2. /\ Return(s) /\ handler[s] # "none"
          /\ UNCHANGED <<produced, queue, dropped, batch, cur, agg, past>>
      BY <1>2, <3>1 DEF Receive, agentVars
    <3> QED BY <3>2, ReturnOrder
  <2> QED BY <2>1, <2>2
<1>3. ASSUME NEW s \in Streams, HandlerEnds(s) PROVE OrderInv'
  <2>1. /\ Return(s) /\ handler[s] # "none"
        /\ UNCHANGED <<produced, queue, dropped, batch, cur, agg, past>>
    BY <1>3 DEF HandlerEnds, agentVars, collectorVars
  <2> QED BY <2>1, ReturnOrder
<1>4. ASSUME NEW s \in Streams, SendAck(s) PROVE OrderInv'
  <2>1. \A t \in Streams : handler[t] = "none" => handler'[t] = "none"
    BY <1>4 DEF SendAck, TypeOK
  <2> QED BY <1>4, <2>1, OrderKept DEF SendAck, agentVars, collectorVars
<1>5. CASE MinutePasses \/ CollectorStarts \/ NetworkFails \/ UNCHANGED vars
  <2>1. /\ UNCHANGED <<produced, queue, dropped, batch, cur, wire, agg, past>>
        /\ handler' = handler
    BY <1>5 DEF MinutePasses, CollectorStarts, NetworkFails, vars,
                agentVars, streamVars, collectorVars
  <2> QED BY <2>1, OrderKept
<1>6. CASE CollectorStops
  BY <1>6, CollectorStopsOrder
<1>7. CASE AgentRestart
  BY <1>7, AgentLosesOrder
<1> QED BY <1>1, <1>2, <1>3, <1>4, <1>5, <1>6, <1>7 DEF Next, Collector, Environment

------------------------------------------------------------------------------
(* In order.                                                               *)
LEMMA ConcatFacts ==
  ASSUME NEW p \in Seq(EventIds), NEW q \in Seq(EventIds),
         Increasing(p), Increasing(q), Below(Range(p), Range(q))
  PROVE  /\ p \o q \in Seq(EventIds)
         /\ Range(p \o q) = Range(p) \cup Range(q)
         /\ Increasing(p \o q)
<1> DEFINE r == p \o q
<1>1. /\ r \in Seq(EventIds)
      /\ Range(r) = Range(p) \cup Range(q)
      /\ Len(r) = Len(p) + Len(q) /\ Len(p) \in Nat /\ Len(q) \in Nat
      /\ DOMAIN r = 1 .. Len(p) + Len(q)
      /\ DOMAIN p = 1 .. Len(p) /\ DOMAIN q = 1 .. Len(q)
      /\ \A i \in DOMAIN r : r[i] = IF i <= Len(p) THEN p[i] ELSE q[i - Len(p)]
  BY ConcatProperties, RangeConcatenation, LenProperties
<1> HIDE DEF r
<1>2. ASSUME NEW i \in DOMAIN r, NEW j \in DOMAIN r, i < j PROVE r[i] < r[j]
  <2>1. CASE j <= Len(p)
    BY <1>1, <1>2, <2>1 DEF Increasing
  <2>2. CASE i <= Len(p) /\ ~(j <= Len(p))
    <3>1. i \in DOMAIN p /\ j - Len(p) \in DOMAIN q
      BY <1>1, <2>2
    <3>2. p[i] \in Range(p) /\ q[j - Len(p)] \in Range(q)
      BY <3>1 DEF Range
    <3> QED BY <1>1, <2>2, <3>2 DEF Below
  <2>3. CASE ~(i <= Len(p))
    <3>1. /\ i - Len(p) \in DOMAIN q /\ j - Len(p) \in DOMAIN q
          /\ i - Len(p) < j - Len(p) /\ ~(j <= Len(p))
      BY <1>1, <1>2, <2>3
    <3> QED BY <1>1, <2>3, <3>1 DEF Increasing
  <2> QED BY <1>1, <2>1, <2>2, <2>3
<1> QED BY <1>1, <1>2 DEF r, Increasing

(* What a stream carries and will carry is sorted, and younger than what   *)
(* it has carried.                                                         *)
LEMMA AheadSorted ==
  ASSUME TypeOK, OrderInv, NEW s \in Streams
  PROVE  LET ahead == wire[s] \o (IF s = cur THEN batch \o queue ELSE << >>)
         IN  /\ ahead \in Seq(EventIds)
             /\ Increasing(ahead)
             /\ Below(CarriedBy(s), Range(ahead))
<1> DEFINE mine == IF s = cur THEN batch \o queue ELSE << >>
<1>1. /\ wire[s] \in Seq(EventIds) /\ Increasing(wire[s])
      /\ batch \in Seq(EventIds) /\ Increasing(batch)
      /\ queue \in Seq(EventIds) /\ Increasing(queue)
      /\ Below(Range(batch), Range(queue))
  BY DEF TypeOK, OrderInv, PlacesSorted, PathsSorted
<1>2. /\ mine \in Seq(EventIds) /\ Increasing(mine)
      /\ Range(mine) \subseteq Range(batch) \cup Range(queue)
  <2>1. /\ batch \o queue \in Seq(EventIds) /\ Increasing(batch \o queue)
        /\ Range(batch \o queue) = Range(batch) \cup Range(queue)
    BY <1>1, ConcatFacts
  <2> QED BY <2>1, EmptyFacts
<1> HIDE DEF mine
<1>3. Below(Range(wire[s]), Range(mine)) /\ Below(CarriedBy(s), Range(mine))
  BY <1>2 DEF OrderInv, PathsSorted, Below, Flow
<1>4. /\ wire[s] \o mine \in Seq(EventIds) /\ Increasing(wire[s] \o mine)
      /\ Range(wire[s] \o mine) = Range(wire[s]) \cup Range(mine)
  BY <1>1, <1>2, <1>3, ConcatFacts
<1>5. Below(CarriedBy(s), Range(wire[s] \o mine))
  BY <1>3, <1>4 DEF OrderInv, PathsSorted, Below
<1> QED BY <1>4, <1>5 DEF mine

LEMMA SortedIsInOrder == TypeOK /\ OrderInv => InOrder
<1> SUFFICES ASSUME TypeOK, OrderInv, NEW s \in Streams,
                    NEW i \in DOMAIN PathOf(s), NEW j \in DOMAIN PathOf(s), i < j,
                    PathOf(s)[i].via = s, PathOf(s)[j].via = s
             PROVE  PathOf(s)[i].id < PathOf(s)[j].id
  BY DEF InOrder
<1> DEFINE ahead == wire[s] \o (IF s = cur THEN batch \o queue ELSE << >>)
           Rec == [id : EventIds, via : Streams]
           tagged == [k \in DOMAIN ahead |-> [id |-> ahead[k], via |-> s]]
<1>1. /\ ahead \in Seq(EventIds)
      /\ Increasing(ahead)
      /\ Below(CarriedBy(s), Range(ahead))
  BY AheadSorted
<1>2. PathOf(s) = agg \o tagged
  BY DEF PathOf
<1> HIDE DEF ahead
<1>3. /\ DOMAIN ahead = 1 .. Len(ahead) /\ Len(ahead) \in Nat
      /\ \A k \in DOMAIN ahead : ahead[k] \in EventIds
  BY <1>1, LenProperties
<1>4. tagged \in Seq(Rec) /\ Len(tagged) = Len(ahead)
  BY <1>3
<1>5. \A k \in DOMAIN ahead : tagged[k].id = ahead[k]
  OBVIOUS
<1>6. agg \in Seq(Rec) /\ Len(agg) \in Nat /\ DOMAIN agg = 1 .. Len(agg)
  BY RecordTypes DEF TypeOK
<1> HIDE DEF tagged, Rec
<1>7. /\ DOMAIN PathOf(s) = 1 .. Len(agg) + Len(ahead)
      /\ \A k \in DOMAIN PathOf(s) :
           PathOf(s)[k] = IF k <= Len(agg) THEN agg[k] ELSE tagged[k - Len(agg)]
  <2>1. /\ PathOf(s) \in Seq(Rec)
        /\ Len(PathOf(s)) = Len(agg) + Len(ahead)
        /\ \A k \in 1 .. Len(agg) + Len(ahead) :
             PathOf(s)[k] = IF k <= Len(agg) THEN agg[k] ELSE tagged[k - Len(agg)]
    <3> DEFINE t == agg \o tagged
    <3>1. /\ t \in Seq(Rec) /\ Len(t) = Len(agg) + Len(tagged)
          /\ \A k \in 1 .. Len(agg) + Len(tagged) :
               t[k] = IF k <= Len(agg) THEN agg[k] ELSE tagged[k - Len(agg)]
      <4>1. agg \in Seq(Rec) /\ tagged \in Seq(Rec)
        BY <1>4, <1>6
      <4> QED BY <4>1, ConcatProperties, Zenon
    <3> HIDE DEF t
    <3>2. PathOf(s) = t
      BY <1>2 DEF t
    <3> QED BY <1>4, <3>1, <3>2
  <2>2. DOMAIN PathOf(s) = 1 .. Len(PathOf(s))
    BY <2>1, LenProperties
  <2> QED BY <2>1, <2>2
<1>8. CASE j <= Len(agg)
  <2>1. i \in DOMAIN agg /\ j \in DOMAIN agg /\ PathOf(s)[i] = agg[i] /\ PathOf(s)[j] = agg[j]
    BY <1>3, <1>6, <1>7, <1>8
  <2> QED BY <2>1 DEF OrderInv, PlacesSorted
<1>9. CASE i <= Len(agg) /\ ~(j <= Len(agg))
  <2>1. /\ i \in DOMAIN agg /\ PathOf(s)[i] = agg[i]
        /\ j - Len(agg) \in DOMAIN ahead
        /\ PathOf(s)[j].id = ahead[j - Len(agg)]
    BY <1>3, <1>5, <1>6, <1>7, <1>9
  <2>2. agg[i].id \in CarriedBy(s) /\ ahead[j - Len(agg)] \in Range(ahead)
    BY <2>1 DEF CarriedBy, Range
  <2> QED BY <1>1, <2>1, <2>2 DEF Below
<1>10. CASE ~(i <= Len(agg))
  <2>1. /\ i - Len(agg) \in DOMAIN ahead /\ j - Len(agg) \in DOMAIN ahead
        /\ i - Len(agg) < j - Len(agg)
        /\ PathOf(s)[i].id = ahead[i - Len(agg)]
        /\ PathOf(s)[j].id = ahead[j - Len(agg)]
    BY <1>3, <1>5, <1>6, <1>7, <1>10
  <2> QED BY <1>1, <2>1 DEF Increasing
<1> QED BY <1>3, <1>6, <1>7, <1>8, <1>9, <1>10

(* Whatever fails and reconnects, however old and new streams overlap, the *)
(* events of one stream are aggregated in the order they were measured.    *)
THEOREM DeliveredInOrder == Spec => []InOrder
<1> DEFINE Inv == TypeOK /\ OrderInv
<1>1. Init => Inv
  BY TypeInit, OrderInit
<1>2. Inv /\ [Next]_vars => Inv'
  BY TypeStep, OrderStep
<1>3. Inv => InOrder
  BY SortedIsInOrder
<1> HIDE DEF Inv
<1> QED BY <1>1, <1>2, <1>3, PTL DEF Spec

------------------------------------------------------------------------------
(* At most once.                                                           *)
LEMMA SortedOnce ==
  ASSUME NEW q \in Seq(EventIds), Increasing(q),
         NEW i \in DOMAIN q, NEW j \in DOMAIN q, q[i] = q[j]
  PROVE  i = j
<1>1. /\ DOMAIN q \subseteq Nat
      /\ q[i] \in Nat
  <2>1. /\ DOMAIN q = 1 .. Len(q) /\ Len(q) \in Nat
        /\ q \in [1 .. Len(q) -> EventIds]
    BY LenProperties
  <2>2. i \in 1 .. Len(q) /\ DOMAIN q \subseteq Nat
    BY <2>1
  <2>3. q[i] \in EventIds
    BY <2>1, <2>2
  <2> QED BY <2>2, <2>3, StreamsAreNumbers
<1>2. ~(i < j) /\ ~(j < i)
  BY <1>1 DEF Increasing
<1> QED BY <1>1, <1>2

(* The places exclude each other.                                          *)
LEMMA PlacesApart ==
  ASSUME TypeOK, OrderInv
  PROVE  /\ Range(queue) \cap (Range(batch) \cup past \cup dropped) = {}
         /\ Range(batch) \cap (past \cup dropped) = {}
         /\ past \cap dropped = {}
         /\ \A s \in Streams :
              /\ Flow(s) \cap (Range(queue) \cup Range(batch) \cup past \cup dropped) = {}
              /\ CarriedBy(s) \cap Range(wire[s]) = {}
              /\ \A t \in Streams : t # s => Flow(s) \cap Flow(t) = {}
<1>1. /\ Range(queue) \in SUBSET EventIds /\ Range(batch) \in SUBSET EventIds
      /\ \A s \in Streams : Range(wire[s]) \in SUBSET EventIds
  BY RangeOfSeq DEF TypeOK
<1>2. \A s \in Streams : Flow(s) \in SUBSET EventIds
  BY <1>1, RecordTypes DEF Flow, CarriedBy
<1>3. /\ Below(past, Range(queue)) /\ Below(past, Range(batch))
      /\ Below(Range(batch), Range(queue)) /\ Below(dropped, Range(queue))
  BY DEF OrderInv, PathsSorted, DroppedApart, Below
<1>4. /\ past \cap Range(queue) = {} /\ past \cap Range(batch) = {}
      /\ Range(batch) \cap Range(queue) = {} /\ dropped \cap Range(queue) = {}
  BY <1>1, <1>3, BelowApart
<1>5. dropped \cap Range(batch) = {} /\ dropped \cap past = {}
  BY DEF OrderInv, DroppedApart
<1>6. ASSUME NEW s \in Streams
      PROVE  /\ Flow(s) \cap (Range(queue) \cup Range(batch) \cup past \cup dropped) = {}
             /\ CarriedBy(s) \cap Range(wire[s]) = {}
  <2>1. /\ Below(past, Flow(s)) /\ Below(Flow(s), Range(queue))
        /\ Below(Flow(s), Range(batch)) /\ Below(CarriedBy(s), Range(wire[s]))
    BY DEF OrderInv, PathsSorted, Below
  <2>2. /\ past \cap Flow(s) = {} /\ Flow(s) \cap Range(queue) = {}
        /\ Flow(s) \cap Range(batch) = {} /\ CarriedBy(s) \cap Range(wire[s]) = {}
    BY <1>1, <1>2, <2>1, BelowApart
  <2>3. dropped \cap Flow(s) = {}
    BY DEF OrderInv, DroppedApart
  <2> QED BY <2>2, <2>3
<1>7. ASSUME NEW s \in Streams, NEW t \in Streams, t # s
      PROVE  Flow(s) \cap Flow(t) = {}
  <2>1. CASE s < t
    <3>1. Below(Flow(s), Flow(t))
      BY <2>1 DEF OrderInv, PathsSorted
    <3> QED BY <1>2, <3>1, BelowApart
  <2>2. CASE t < s
    <3>1. Below(Flow(t), Flow(s))
      BY <2>2 DEF OrderInv, PathsSorted
    <3>2. Flow(t) \cap Flow(s) = {}
      BY <1>2, <3>1, BelowApart
    <3> QED BY <3>2
  <2> QED BY <1>7, <2>1, <2>2, StreamsAreNumbers
<1> QED BY <1>4, <1>5, <1>6, <1>7

LEMMA ApartIsAtMostOnce == TypeOK /\ OrderInv => AtMostOnce
<1> SUFFICES ASSUME TypeOK, OrderInv, NEW e \in EventIds
             PROVE  Cardinality(PlacesOf(e)) <= 1
  BY DEF AtMostOnce
<1> DEFINE inQueue == {<<"queue", i>> : i \in {j \in DOMAIN queue : queue[j] = e}}
           inBatch == {<<"batch", i>> : i \in {j \in DOMAIN batch : batch[j] = e}}
           onWire == UNION {{<<"wire", s, i>> : i \in {j \in DOMAIN wire[s] : wire[s][j] = e}} :
                              s \in Streams}
           inAgg == {<<"agg", i>> : i \in {j \in DOMAIN agg : agg[j].id = e}}
           inPast == {<<"past">> : x \in {e} \cap past}
           inDropped == {<<"dropped">> : x \in {e} \cap dropped}
<1>1. PlacesOf(e) = inQueue \cup inBatch \cup onWire \cup inAgg \cup inPast \cup inDropped
  BY DEF PlacesOf
<1>2. /\ inQueue # {} => e \in Range(queue)
      /\ inBatch # {} => e \in Range(batch)
      /\ inPast # {} => e \in past
      /\ inDropped # {} => e \in dropped
  BY DEF Range
<1>3. onWire # {} => \E s \in Streams : e \in Range(wire[s])
  BY DEF Range
<1>4. inAgg # {} => \E s \in Streams : e \in CarriedBy(s)
  BY RecordTypes DEF CarriedBy
<1>5. \A x, y \in inQueue : x = y
  <2>1. \A i, j \in DOMAIN queue : queue[i] = e /\ queue[j] = e => i = j
    BY SortedOnce DEF TypeOK, OrderInv, PlacesSorted
  <2> QED BY <2>1
<1>6. \A x, y \in inBatch : x = y
  <2>1. \A i, j \in DOMAIN batch : batch[i] = e /\ batch[j] = e => i = j
    BY SortedOnce DEF TypeOK, OrderInv, PlacesSorted
  <2> QED BY <2>1
<1>7. \A x, y \in onWire : x = y
  <2>1. ASSUME NEW s \in Streams, NEW i \in DOMAIN wire[s], wire[s][i] = e,
               NEW t \in Streams, NEW j \in DOMAIN wire[t], wire[t][j] = e
        PROVE  s = t /\ i = j
    <3>1. e \in Flow(s) /\ e \in Flow(t)
      BY <2>1 DEF Flow, Range
    <3>2. s = t
      BY <3>1, PlacesApart
    <3> QED BY <2>1, <3>2, SortedOnce DEF TypeOK, OrderInv, PlacesSorted
  <2> QED BY <2>1
<1>8. \A x, y \in inAgg : x = y
  <2>1. ASSUME NEW i \in DOMAIN agg, agg[i].id = e, NEW j \in DOMAIN agg, agg[j].id = e
        PROVE  i = j
    <3>1. /\ agg[i].via \in Streams /\ agg[j].via \in Streams
          /\ e \in Flow(agg[i].via) /\ e \in Flow(agg[j].via)
          /\ DOMAIN agg \subseteq Nat /\ e \in Nat
      BY <2>1, RecordTypes, StreamsAreNumbers DEF Flow, CarriedBy
    <3>2. agg[i].via = agg[j].via
      BY <3>1, PlacesApart
    <3>3. ~(i < j) /\ ~(j < i)
      BY <2>1, <3>1, <3>2 DEF OrderInv, PlacesSorted
    <3> QED BY <3>1, <3>3
  <2> QED BY <2>1
<1>9. (\A x, y \in inPast : x = y) /\ (\A x, y \in inDropped : x = y)
  OBVIOUS
<1> HIDE DEF inQueue, inBatch, onWire, inAgg, inPast, inDropped
<1>10. /\ inQueue # {} => inBatch = {} /\ onWire = {} /\ inAgg = {} /\ inPast = {} /\ inDropped = {}
       /\ inBatch # {} => onWire = {} /\ inAgg = {} /\ inPast = {} /\ inDropped = {}
       /\ onWire # {} => inAgg = {} /\ inPast = {} /\ inDropped = {}
       /\ inAgg # {} => inPast = {} /\ inDropped = {}
       /\ inPast # {} => inDropped = {}
  <2>1. \A s \in Streams : CarriedBy(s) \subseteq Flow(s) /\ Range(wire[s]) \subseteq Flow(s)
    BY DEF Flow
  <2>2. onWire # {} => inAgg = {}
    <3> SUFFICES ASSUME onWire # {}, inAgg # {} PROVE FALSE
      OBVIOUS
    <3>1. PICK s \in Streams : e \in Range(wire[s])
      BY <1>3
    <3>2. PICK t \in Streams : e \in CarriedBy(t)
      BY <1>4
    <3>3. s = t
      BY <2>1, <3>1, <3>2, PlacesApart
    <3> QED BY <3>1, <3>2, <3>3, PlacesApart
  <2> QED BY <1>2, <1>3, <1>4, <2>1, <2>2, PlacesApart
<1>11. \A x, y \in PlacesOf(e) : x = y
  BY <1>1, <1>5, <1>6, <1>7, <1>8, <1>9, <1>10
<1>12. PlacesOf(e) = {} \/ \E x : PlacesOf(e) = {x}
  BY <1>11
<1> QED BY <1>12, FS_EmptySet, FS_Singleton

(* Across failed Sends, reconnections, restarts of either side and any     *)
(* number of streams, no event is ever in two places: AddEvent never sees  *)
(* one twice.                                                              *)
THEOREM DeliveredAtMostOnce == Spec => []AtMostOnce
<1> DEFINE Inv == TypeOK /\ OrderInv
<1>1. Init => Inv
  BY TypeInit, OrderInit
<1>2. Inv /\ [Next]_vars => Inv'
  BY TypeStep, OrderStep
<1>3. Inv => AtMostOnce
  BY ApartIsAtMostOnce
<1> HIDE DEF Inv
<1> QED BY <1>1, <1>2, <1>3, PTL DEF Spec

------------------------------------------------------------------------------
(* Without loss.  A stream that is over stays over and faults are counted, *)
(* so that what is healthy after a step was healthy before it.             *)
LEMMA HealthyBefore ==
  ASSUME TypeOK, OrderInv, [Next]_vars, Healthy'
  PROVE  Healthy /\ faults' = faults
<1>1. \A s \in Streams : handler[s] = "done" => handler'[s] = "done"
  <2> SUFFICES ASSUME NEW s \in Streams, handler[s] = "done"
               PROVE  handler'[s] = "done"
    OBVIOUS
  <2>0. /\ handler \in [Streams -> {"none", "recv", "ack", "done"}]
        /\ s \in Nat /\ cur \in Nat /\ s <= cur
    BY StreamsAreNumbers DEF TypeOK, OrderInv, Unopened
  <2>1. CASE OpenStream
    BY <2>0, <2>1 DEF OpenStream
  <2>2. ASSUME NEW t \in Streams, Receive(t) PROVE handler'[s] = "done"
    BY <2>0, <2>2 DEF Receive, Return
  <2>3. ASSUME NEW t \in Streams, SendAck(t) \/ HandlerEnds(t)
        PROVE  handler'[s] = "done"
    BY <2>0, <2>3 DEF SendAck, HandlerEnds, Return
  <2>4. CASE CollectorStops
    BY <2>0, <2>4 DEF CollectorStops
  <2>5. CASE \/ Enqueue \/ Drain \/ SendAccepted \/ SendUnnoticed \/ SendFails
             \/ MinutePasses \/ AgentRestart \/ CollectorStarts \/ NetworkFails
             \/ UNCHANGED vars
    <3>1. handler' = handler
      BY <2>5 DEF Enqueue, Drain, SendAccepted, SendUnnoticed, SendFails, MinutePasses,
                  AgentRestart, CollectorStarts, NetworkFails, vars, streamVars
    <3> QED BY <3>1
  <2> QED BY <2>1, <2>2, <2>3, <2>4, <2>5 DEF Next, Agent, Collector, Environment
<1>2. faults' = faults \/ faults' = faults + 1
  BY DEF Next, Agent, Collector, Environment, Enqueue, OpenStream, Drain, SendAccepted,
         SendUnnoticed, SendFails, MinutePasses, Receive, SendAck, HandlerEnds,
         AgentRestart, CollectorStops, CollectorStarts, NetworkFails, vars
<1>3. faults \in Nat /\ faults' = 0
  BY DeliveryAssumption DEF TypeOK, Healthy
<1>4. faults = 0
  BY <1>2, <1>3
<1> QED BY <1>1, <1>3, <1>4 DEF Healthy

(* A Send on a healthy connection is not lost.                             *)
LEMMA HealthyAlive ==
  ASSUME TypeOK, HealthyInv, Healthy, pc = "send"
  PROVE  Alive(cur)
<1>1. cur \in Streams
  BY DEF TypeOK
<1> QED BY <1>1 DEF HealthyInv, Healthy, Alive

LEMMA HealthyStep ==
  ASSUME TypeOK, OrderInv, HealthyInv, [Next]_vars
  PROVE  HealthyInv'
<1> SUFFICES ASSUME Healthy'
             PROVE  broken' = {} /\ \A x \in 1 .. produced' : Somewhere(x)'
  BY DEF HealthyInv
<1>0. /\ Healthy /\ faults' = faults /\ faults \in Nat /\ broken = {}
      /\ \A x \in 1 .. produced : Somewhere(x)
  BY HealthyBefore, DeliveryAssumption DEF HealthyInv, TypeOK
<1>1. CASE Enqueue
  <2>1. UNCHANGED <<batch, wire, agg, broken>> /\ produced' = produced + 1
    BY <1>1 DEF Enqueue, Fifo!Put, streamVars, collectorVars
  <2>2. \A s \in Streams : Flow(s)' = Flow(s)
    BY <2>1, FlowKept
  <2>3. produced + 1 \in EventIds /\ queue \in Seq(EventIds) /\ produced \in Nat
    BY <1>1, DeliveryAssumption DEF Enqueue, TypeOK, EventIds
  <2>4. Range(queue) \cup dropped \cup {produced + 1} \subseteq Range(queue') \cup dropped'
    <3>1. CASE Len(queue) < Capacity
      <4>1. queue' = Append(queue, produced + 1) /\ dropped' = dropped
        BY <1>1, <3>1 DEF Enqueue, Fifo!Put, Fifo!PutInto, Fifo!DiscardedBy
      <4>2. Range(queue') = Range(queue) \cup {produced + 1}
        BY <2>3, <4>1, AppendFacts
      <4> QED BY <4>1, <4>2
    <3>2. CASE ~(Len(queue) < Capacity)
      <4>1. /\ queue' = Append(Tail(queue), produced + 1)
            /\ dropped' = dropped \cup {Head(queue)}
        BY <1>1, <3>2 DEF Enqueue, Fifo!Put, Fifo!PutInto, Fifo!DiscardedBy
      <4>2. queue # << >>
        BY <3>2, EmptyFacts, DeliveryAssumption
      <4>3. /\ Tail(queue) \in Seq(EventIds)
            /\ Range(queue) = {Head(queue)} \cup Range(Tail(queue))
        BY <2>3, <4>2, TailFacts
      <4>4. Range(queue') = Range(Tail(queue)) \cup {produced + 1}
        BY <2>3, <4>1, <4>3, AppendFacts
      <4> QED BY <4>1, <4>3, <4>4
    <3> QED BY <3>1, <3>2
  <2>5. \A x \in 1 .. produced' : x \in 1 .. produced \/ x = produced + 1
    BY <2>1, <2>3
  <2> QED BY <1>0, <2>1, <2>2, <2>4, <2>5 DEF Somewhere
<1>2. CASE Drain
  <2>1. /\ batch' = queue /\ batch = << >>
        /\ UNCHANGED <<produced, dropped, wire, agg, broken>>
    BY <1>2 DEF Drain, Fifo!TakeAll, TypeOK, streamVars, collectorVars
  <2>2. \A s \in Streams : Flow(s)' = Flow(s)
    BY <2>1, FlowKept
  <2> QED BY <1>0, <2>1, <2>2, EmptyFacts DEF Somewhere
<1>3. CASE SendAccepted
  <2>1. /\ \A s \in Streams : Flow(s) \subseteq Flow(s)'
        /\ \A s \in Streams : s = cur => Head(batch) \in Flow(s)'
        /\ cur \in Streams /\ Range(batch) = {Head(batch)} \cup Range(batch')
        /\ UNCHANGED <<produced, queue, dropped, broken>>
    BY <1>3, SendAcceptedMoves
  <2> QED BY <1>0, <2>1 DEF Somewhere
<1>4. CASE SendUnnoticed \/ SendFails
  BY <1>0, <1>4, HealthyAlive DEF SendUnnoticed, SendFails
<1>5. ASSUME NEW s \in Streams, Receive(s)
      PROVE  broken' = {} /\ \A x \in 1 .. produced' : Somewhere(x)'
  <2>1. CASE CountNow <= Limit
    <3>1. /\ \A t \in Streams : Flow(t)' = Flow(t)
          /\ UNCHANGED <<produced, queue, batch, dropped, broken>>
      BY <1>5, <2>1, AggregatedMoves
    <3> QED BY <1>0, <3>1 DEF Somewhere
  <2>2. CASE ~(CountNow <= Limit)
    <3>1. CountNow > Limit
      BY <2>2, DeliveryAssumption DEF TypeOK, CountNow
    <3>2. handler'[s] = "done"
      BY <1>5, <3>1 DEF Receive, Return, TypeOK
    <3> QED BY <3>2 DEF Healthy
  <2> QED BY <2>1, <2>2
<1>6. ASSUME NEW s \in Streams, HandlerEnds(s) PROVE FALSE
  BY <1>0, <1>6 DEF HandlerEnds
<1>7. CASE AgentRestart \/ CollectorStops \/ NetworkFails
  <2>1. faults' = faults + 1
    BY <1>7 DEF AgentRestart, CollectorStops, NetworkFails
  <2> QED BY <1>0, <2>1
<1>8. ASSUME NEW s \in Streams,
             OpenStream \/ MinutePasses \/ SendAck(s) \/ CollectorStarts \/ UNCHANGED vars
      PROVE  broken' = {} /\ \A x \in 1 .. produced' : Somewhere(x)'
  <2>1. UNCHANGED <<produced, queue, batch, dropped, wire, agg, broken>>
    BY <1>8 DEF OpenStream, MinutePasses, SendAck, CollectorStarts, vars,
                agentVars, streamVars, collectorVars
  <2>2. \A t \in Streams : Flow(t)' = Flow(t)
    BY <2>1, FlowKept
  <2> QED BY <1>0, <2>1, <2>2 DEF Somewhere
<1>9. 1 \in Streams
  BY DeliveryAssumption DEF Streams
<1> QED BY <1>1, <1>2, <1>3, <1>4, <1>5, <1>6, <1>7, <1>8, <1>9
        DEF Next, Agent, Collector, Environment

LEMMA HealthyIsLossless == TypeOK /\ OrderInv /\ HealthyInv => LosslessWhileHealthy
<1> SUFFICES ASSUME TypeOK, OrderInv, HealthyInv, Healthy
             PROVE  1 .. produced = OnTheWay \cup Aggregated \cup dropped
  BY DEF LosslessWhileHealthy
<1>1. ASSUME NEW x
      PROVE  x \in OnTheWay \cup Aggregated \cup dropped <=> Somewhere(x)
  <2>1. x \in Aggregated <=> \E s \in Streams : x \in CarriedBy(s)
    BY RecordTypes DEF Aggregated, CarriedBy
  <2>2. x \in OnTheWay <=> \/ x \in Range(queue) \cup Range(batch)
                           \/ \E s \in Streams : x \in Range(wire[s])
    BY DEF OnTheWay
  <2> QED BY <2>1, <2>2 DEF Somewhere, Flow
<1>2. \A x : Somewhere(x) => x \in 1 .. produced
  BY DEF Somewhere, OrderInv, NothingInvented
<1>3. \A x \in 1 .. produced : Somewhere(x)
  BY DEF HealthyInv
<1> QED BY <1>1, <1>2, <1>3

(* As long as no connection dies, no side restarts and the limiter rejects *)
(* nothing, the hand-over from buffer to batch to stream to handler loses  *)
(* nothing but what the full buffer overwrites.                            *)
THEOREM NothingLostWhileHealthy == Spec => []LosslessWhileHealthy
<1> DEFINE Inv == TypeOK /\ OrderInv /\ HealthyInv
<1>1. Init => Inv
  <2>1. Init => HealthyInv
    BY DEF Init, HealthyInv
  <2> QED BY <2>1, TypeInit, OrderInit
<1>2. Inv /\ [Next]_vars => Inv'
  BY TypeStep, OrderStep, HealthyStep
<1>3. Inv => LosslessWhileHealthy
  BY HealthyIsLossless
<1> HIDE DEF Inv
<1> QED BY <1>1, <1>2, <1>3, PTL DEF Spec

==============================================================================
