------------------------------ MODULE Delivery -------------------------------
(***************************************************************************)
(* The path of an energy event from the agent's buffer to the collector's  *)
(* aggregator: rb.Enqueue in collectAndEnqueue, the goroutine              *)
(* streamToCollector (agent/main.go), a gRPC stream, and one StreamEnergy  *)
(* handler per stream with the rate limiter (collector/grpc_handler.go).   *)
(*                                                                         *)
(* An event is its serial number.  The buffer is BoundedFifo, which        *)
(* RingBuffer implements; batch is the slice DequeueAll returned, consumed *)
(* by the send loop.  gRPC is modelled from what the code relies on: Send  *)
(* hands a message to the transport and returns before it is delivered,    *)
(* blocks when the stream's flow-control window is full, and reports a     *)
(* dead stream at some later Send.  The agent never calls Recv, so nothing *)
(* ever empties the window of the acks.                                    *)
(***************************************************************************)
EXTENDS Naturals, Sequences, FiniteSets, Functions

CONSTANTS
  Capacity,   \* slots of the agent's buffer (5000)
  Window,     \* events the transport accepts ahead of the handler
  AckWindow,  \* acks the transport accepts ahead of a client that never reads
  Limit,      \* events of one agent per minute (500)
  MaxEvents,  \* bound: events enqueued in a behaviour
  MaxFaults   \* bound: network failures, crashes and restarts in a behaviour

ASSUME DeliveryAssumption ==
  /\ Capacity \in Nat \ {0}
  /\ Window \in Nat \ {0}
  /\ AckWindow \in Nat
  /\ Limit \in Nat
  /\ MaxEvents \in Nat
  /\ MaxFaults \in Nat

EventIds == 1 .. MaxEvents

(* A stream is opened at start, after a Send that failed (which costs the  *)
(* batch at least one event) and after an agent restart: no behaviour      *)
(* within the two bounds needs more streams than this.                     *)
Streams == 1 .. MaxEvents + MaxFaults + 1

VARIABLES
  produced,   \* events enqueued so far
  queue,      \* the ring buffer
  dropped,    \* history: events overwritten in the full buffer
  pc,         \* where streamToCollector is: "connect", "drain" or "send"
  batch,      \* what is left of the slice DequeueAll returned
  cur,        \* the latest stream opened, 0 before the first
  broken,     \* streams whose connection is gone
  wire,       \* per stream, events sent and not yet received
  acks,       \* per stream, acks sent by the handler and never read
  handler,    \* per stream, where StreamEnergy is
  up,         \* the collector process runs
  rlCount,    \* rateLimiter.count of this agent
  rlExpired,  \* time.Now() is past rateLimiter.reset
  agg,        \* the AddEvent calls the collector's memory reflects, in order
  past,       \* history: events aggregated by collectors that are gone
  faults      \* faults so far

agentVars == <<produced, queue, dropped, pc, batch>>
streamVars == <<cur, broken, wire, acks, handler>>
collectorVars == <<up, rlCount, rlExpired, agg, past>>
vars == <<agentVars, streamVars, collectorVars, faults>>

Fifo == INSTANCE BoundedFifo
          WITH Size <- Capacity, Events <- EventIds, taken <- batch

Init ==
  /\ produced = 0
  /\ Fifo!Init
  /\ dropped = {}
  /\ pc = "connect"
  /\ cur = 0
  /\ broken = {}
  /\ wire = [s \in Streams |-> << >>]
  /\ acks = [s \in Streams |-> 0]
  /\ handler = [s \in Streams |-> "none"]
  /\ up = TRUE
  /\ rlCount = 0
  /\ rlExpired = FALSE
  /\ agg = << >>
  /\ past = {}
  /\ faults = 0

------------------------------------------------------------------------------
(* The agent.                                                              *)

(* Mutant: the full buffer grows instead of overwriting.                   *)
EnqueueUnbounded ==
  /\ produced < MaxEvents
  /\ produced' = produced + 1
  /\ queue' = Append(queue, produced + 1)
  /\ UNCHANGED <<dropped, pc, batch, streamVars, collectorVars, faults>>

(* rb.Enqueue(event) at the end of the measuring loop's iteration.         *)
Enqueue ==
  /\ produced < MaxEvents
  /\ produced' = produced + 1
  /\ Fifo!Put(produced + 1)
  /\ dropped' = dropped \cup Fifo!DiscardedBy(queue)
  /\ UNCHANGED <<pc, streamVars, collectorVars, faults>>

(* grpc.Dial and client.StreamEnergy succeed.  While the collector is down *)
(* they fail and the goroutine sleeps 5 s and tries again: no state.       *)
OpenStream ==
  /\ pc = "connect"
  /\ up
  /\ cur + 1 \in Streams
  /\ cur' = cur + 1
  /\ handler' = [handler EXCEPT ![cur + 1] = "recv"]
  /\ pc' = "drain"
  /\ UNCHANGED <<produced, queue, dropped, batch, broken, wire, acks,
                 collectorVars, faults>>

(* Mutants: the buffer hands out its events and keeps them; the goroutine  *)
(* waits for a full buffer.                                                *)
DrainKeepsQueue ==
  /\ pc = "drain"
  /\ queue # << >>
  /\ batch' = queue
  /\ pc' = "send"
  /\ UNCHANGED <<produced, queue, dropped, streamVars, collectorVars, faults>>

DrainWhenFull ==
  /\ pc = "drain"
  /\ Len(queue) = Capacity
  /\ Fifo!TakeAll
  /\ pc' = "send"
  /\ UNCHANGED <<produced, dropped, streamVars, collectorVars, faults>>

(* events := rb.DequeueAll().  On an empty buffer the loop sleeps 1 s.     *)
Drain ==
  /\ pc = "drain"
  /\ queue # << >>
  /\ Fifo!TakeAll
  /\ pc' = "send"
  /\ UNCHANGED <<produced, dropped, streamVars, collectorVars, faults>>

(* The stream can still carry an event to its handler.                     *)
Alive(s) == s \notin broken /\ handler[s] # "done"

(* The loop over the batch moves on; after its last event it sleeps and    *)
(* drains again.                                                           *)
NextOfBatch ==
  /\ batch' = Tail(batch)
  /\ pc' = IF Len(batch) = 1 THEN "drain" ELSE "send"

(* Mutants: the last event of the batch goes first; the loop stops after   *)
(* the first event of a batch.                                             *)
SendAcceptedLastFirst ==
  /\ pc = "send"
  /\ Alive(cur)
  /\ Len(wire[cur]) < Window
  /\ wire' = [wire EXCEPT ![cur] = Append(@, batch[Len(batch)])]
  /\ batch' = SubSeq(batch, 1, Len(batch) - 1)
  /\ pc' = IF Len(batch) = 1 THEN "drain" ELSE "send"
  /\ UNCHANGED <<produced, queue, dropped, cur, broken, acks, handler,
                 collectorVars, faults>>

SendAcceptedOnlyFirst ==
  /\ pc = "send"
  /\ Alive(cur)
  /\ Len(wire[cur]) < Window
  /\ wire' = [wire EXCEPT ![cur] = Append(@, Head(batch))]
  /\ batch' = << >>
  /\ pc' = "drain"
  /\ UNCHANGED <<produced, queue, dropped, cur, broken, acks, handler,
                 collectorVars, faults>>

(* stream.Send(ev) returns nil: the transport took the event.  While the   *)
(* window is full it does not return.                                      *)
SendAccepted ==
  /\ pc = "send"
  /\ Alive(cur)
  /\ Len(wire[cur]) < Window
  /\ wire' = [wire EXCEPT ![cur] = Append(@, Head(batch))]
  /\ NextOfBatch
  /\ UNCHANGED <<produced, queue, dropped, cur, broken, acks, handler,
                 collectorVars, faults>>

(* stream.Send(ev) returns nil although the stream is dead: the client's   *)
(* transport has not noticed, the event goes nowhere.                      *)
SendUnnoticed ==
  /\ pc = "send"
  /\ ~Alive(cur)
  /\ NextOfBatch
  /\ UNCHANGED <<produced, queue, dropped, streamVars, collectorVars, faults>>

(* Mutant: the goroutine ends instead of reconnecting.                     *)
SendFailsStops ==
  /\ pc = "send"
  /\ ~Alive(cur)
  /\ batch' = << >>
  /\ broken' = broken \cup {cur}
  /\ pc' = "stopped"
  /\ UNCHANGED <<produced, queue, dropped, cur, wire, acks, handler,
                 collectorVars, faults>>

(* stream.Send(ev) returns an error: the loop breaks, the rest of the      *)
(* slice goes out of scope, the connection is closed, and after 2 s the    *)
(* outer loop dials again.                                                 *)
SendFails ==
  /\ pc = "send"
  /\ ~Alive(cur)
  /\ batch' = << >>
  /\ broken' = broken \cup {cur}
  /\ pc' = "connect"
  /\ UNCHANGED <<produced, queue, dropped, cur, wire, acks, handler,
                 collectorVars, faults>>

(* A signal (the measuring loop returns without flushing), a crash, a      *)
(* service restart: a new process with an empty buffer.                    *)
AgentRestart ==
  /\ faults < MaxFaults
  /\ faults' = faults + 1
  /\ queue' = << >>
  /\ batch' = << >>
  /\ pc' = "connect"
  /\ broken' = broken \cup ({cur} \ {0})
  /\ UNCHANGED <<produced, dropped, cur, wire, acks, handler, collectorVars>>

------------------------------------------------------------------------------
(* The collector.                                                          *)

(* StreamEnergy returns: its stream is over, what was not received is lost.*)
Return(s) ==
  /\ handler' = [handler EXCEPT ![s] = "done"]
  /\ wire' = [wire EXCEPT ![s] = << >>]

(* checkRateLimit: a window that is over is replaced before counting.      *)
CountNow == IF rlExpired THEN 1 ELSE rlCount + 1

(* stream.Recv returns an event; checkRateLimit counts it; within the      *)
(* limit AddEvent aggregates it, above it the handler returns an error.    *)
(* Nothing else touches the event between the three calls, so a crash      *)
(* between them loses what a crash before them loses.                      *)
Receive(s) ==
  /\ handler[s] = "recv"
  /\ wire[s] # << >>
  /\ rlCount' = CountNow
  /\ rlExpired' = FALSE
  /\ IF CountNow > Limit
     THEN /\ Return(s)
          /\ UNCHANGED agg
     ELSE /\ agg' = Append(agg, [id |-> Head(wire[s]), via |-> s])
          /\ wire' = [wire EXCEPT ![s] = Tail(@)]
          /\ handler' = [handler EXCEPT ![s] = "ack"]
  /\ UNCHANGED <<agentVars, cur, broken, acks, up, past, faults>>

(* stream.Send(&pb.Ack) returns nil and the handler loops.  While the ack  *)
(* window is full it does not return.                                      *)
SendAck(s) ==
  /\ handler[s] = "ack"
  /\ acks[s] < AckWindow
  /\ acks' = [acks EXCEPT ![s] = @ + 1]
  /\ handler' = [handler EXCEPT ![s] = "recv"]
  /\ UNCHANGED <<agentVars, cur, broken, wire, collectorVars, faults>>

(* Recv or Send returns an error (or Recv io.EOF): the client is gone.     *)
HandlerEnds(s) ==
  /\ handler[s] \in {"recv", "ack"}
  /\ s \in broken
  /\ Return(s)
  /\ UNCHANGED <<agentVars, cur, broken, acks, collectorVars, faults>>

(* A minute has passed since the limiter's window was opened.              *)
MinutePasses ==
  /\ rlCount > 0
  /\ ~rlExpired
  /\ rlExpired' = TRUE
  /\ UNCHANGED <<agentVars, streamVars, up, rlCount, agg, past, faults>>

(* The collector stops or crashes: aggregator and limiters live in memory  *)
(* only, every stream ends.                                                *)
CollectorStops ==
  /\ up
  /\ faults < MaxFaults
  /\ faults' = faults + 1
  /\ up' = FALSE
  /\ agg' = << >>
  /\ past' = past \cup {agg[i].id : i \in DOMAIN agg}
  /\ rlCount' = 0
  /\ rlExpired' = FALSE
  /\ broken' = 1 .. cur
  /\ handler' = [s \in Streams |-> IF s <= cur THEN "done" ELSE "none"]
  /\ wire' = [s \in Streams |-> << >>]
  /\ UNCHANGED <<agentVars, cur, acks>>

(* systemd and docker compose start it again.                              *)
CollectorStarts ==
  /\ ~up
  /\ up' = TRUE
  /\ UNCHANGED <<agentVars, streamVars, rlCount, rlExpired, agg, past, faults>>

(* The connection under the latest stream dies; neither side knows yet.    *)
NetworkFails ==
  /\ cur # 0
  /\ cur \notin broken
  /\ faults < MaxFaults
  /\ faults' = faults + 1
  /\ broken' = broken \cup {cur}
  /\ UNCHANGED <<agentVars, cur, wire, acks, handler, collectorVars>>

------------------------------------------------------------------------------
Agent == \/ Enqueue \/ OpenStream \/ Drain
         \/ SendAccepted \/ SendUnnoticed \/ SendFails

Collector == \/ MinutePasses
             \/ \E s \in Streams : Receive(s) \/ SendAck(s) \/ HandlerEnds(s)

Environment == AgentRestart \/ CollectorStops \/ CollectorStarts \/ NetworkFails

Next == Agent \/ Collector \/ Environment

Spec == Init /\ [][Next]_vars

(* The goroutine and the handlers keep running, the supervisor restarts a  *)
(* stopped collector.  Nobody promises new events, the passing of a minute *)
(* at a given point, or faults.                                            *)
Fairness ==
  /\ WF_vars(OpenStream)
  /\ WF_vars(Drain)
  /\ WF_vars(SendAccepted)
  /\ WF_vars(SendUnnoticed \/ SendFails)
  /\ WF_vars(CollectorStarts)
  /\ \A s \in Streams :
       /\ WF_vars(Receive(s))
       /\ WF_vars(SendAck(s))
       /\ WF_vars(HandlerEnds(s))

FairSpec == Spec /\ Fairness

------------------------------------------------------------------------------
TypeOK ==
  /\ produced \in 0 .. MaxEvents
  /\ queue \in Seq(EventIds)
  /\ Len(queue) <= Capacity
  /\ dropped \in SUBSET EventIds
  /\ pc \in {"connect", "drain", "send"}
  /\ batch \in Seq(EventIds)
  /\ Len(batch) <= Capacity
  /\ batch # << >> <=> pc = "send"
  /\ cur \in Streams \cup {0}
  /\ pc # "connect" => cur # 0
  /\ broken \in SUBSET (1 .. cur)
  /\ wire \in [Streams -> Seq(EventIds)]
  /\ \A s \in Streams : Len(wire[s]) <= Window
  /\ acks \in [Streams -> 0 .. AckWindow]
  /\ handler \in [Streams -> {"none", "recv", "ack", "done"}]
  /\ up \in BOOLEAN
  /\ rlCount \in Nat
  /\ rlExpired \in BOOLEAN
  /\ agg \in Seq([id : EventIds, via : Streams])
  /\ past \in SUBSET EventIds
  /\ faults \in 0 .. MaxFaults

(* The events aggregated now, by their serial numbers.                     *)
Aggregated == {agg[i].id : i \in DOMAIN agg}

(* The events on their way.                                                *)
OnTheWay == Range(queue) \cup Range(batch) \cup UNION {Range(wire[s]) : s \in Streams}

(* The places, each holding any event at most once, that an event passes.  *)
PlacesOf(e) ==
  {<<"queue", i>> : i \in {j \in DOMAIN queue : queue[j] = e}}
  \cup {<<"batch", i>> : i \in {j \in DOMAIN batch : batch[j] = e}}
  \cup (UNION {{<<"wire", s, i>> : i \in {j \in DOMAIN wire[s] : wire[s][j] = e}} :
                 s \in Streams})
  \cup {<<"agg", i>> : i \in {j \in DOMAIN agg : agg[j].id = e}}
  \cup {<<"past">> : x \in {e} \cap past}
  \cup {<<"dropped">> : x \in {e} \cap dropped}

(* At-most-once: whatever fails and reconnects, an event is in one place   *)
(* at most.  In particular AddEvent, which adds the event's tokens to a    *)
(* counter, never sees it twice, not even across collector incarnations.   *)
AtMostOnce == \A e \in EventIds : Cardinality(PlacesOf(e)) <= 1

(* What has been aggregated, followed by what stream s is carrying and (if *)
(* it is the latest one) will carry.                                       *)
PathOf(s) ==
  LET ahead == wire[s] \o (IF s = cur THEN batch \o queue ELSE << >>)
  IN agg \o [i \in DOMAIN ahead |-> [id |-> ahead[i], via |-> s]]

(* Events of one stream are aggregated in the order they were measured,    *)
(* which the moving average and the last-seen metadata of AddEvent depend  *)
(* on; everything still in the agent is younger.                           *)
InOrder ==
  \A s \in Streams : \A i, j \in DOMAIN PathOf(s) :
    LET r == PathOf(s)[i]
        t == PathOf(s)[j]
    IN i < j /\ r.via = s /\ t.via = s => r.id < t.id

(* No fault so far, and no stream rejected by the rate limiter.            *)
Healthy == faults = 0 /\ \A s \in Streams : handler[s] # "done"

(* As long as it is healthy, every event ever enqueued is somewhere on the *)
(* way, aggregated, or was overwritten in a full buffer: the hand-over     *)
(* from buffer to batch to stream to handler has no gap.                   *)
LosslessWhileHealthy ==
  Healthy => 1 .. produced = OnTheWay \cup Aggregated \cup dropped

(* Every event in the buffer leaves it: after any outage within the bound  *)
(* the goroutine comes back to draining.                                   *)
BufferDrains == \A e \in EventIds : (e \in Range(queue)) ~> (e \notin Range(queue))

(* Between an agent and a collector that stay up, within the rate limit    *)
(* and before the acks fill their window, every event measured is          *)
(* eventually aggregated unless it was overwritten in the full buffer.     *)
EventuallyAggregated ==
  [](Healthy /\ \A s \in Streams : acks[s] < AckWindow) =>
    \A e \in EventIds : (e <= produced) ~> (e \in Aggregated \cup dropped)

(* "Continuamente, em tempo real": a Send that is called returns, so the   *)
(* goroutine gets back to draining the buffer.                             *)
SendReturns == (pc = "send") ~> (pc # "send")

==============================================================================
