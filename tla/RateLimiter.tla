----------------------------- MODULE RateLimiter -----------------------------
(***************************************************************************)
(* grpcServer.checkRateLimit (collector/grpc_handler.go): a counter per    *)
(* agent id, shared by every stream that names this id, in a window of a   *)
(* minute that is replaced lazily by the first call after its end.  A call *)
(* is two actions of the handler that makes it: LoadOrStore on the map of  *)
(* limiters, and what it does under the limiter's mutex, any time later.   *)
(* Time advances in ticks, Minute of them to the minute; any number of     *)
(* calls falls into one tick.                                              *)
(***************************************************************************)
EXTENDS Naturals, Sequences, FiniteSets

CONSTANTS
  AgentIds,   \* values of event.AgentId
  Empty,      \* the empty AgentId, which shares the limiter of Default
  Default,    \* "default-agent"
  Streams,    \* the StreamEnergy handlers
  NoCall,     \* of a handler that is not in a call
  Limit,      \* 500
  Minute,     \* ticks per minute
  MaxTime,    \* bound: ticks in a behaviour
  MaxAdmitted,  \* bound: admitted calls per limiter
  MaxRejected   \* bound: rejected calls per window

ASSUME LimiterAssumption ==
  /\ Default \in AgentIds
  /\ NoCall \notin AgentIds
  /\ Limit \in Nat \ {0}
  /\ Minute \in Nat \ {0}
  /\ MaxTime \in Nat
  /\ MaxAdmitted \in Nat
  /\ MaxRejected \in Nat

VARIABLES
  now,        \* the clock
  calling,    \* per handler, the limiter it has loaded and not yet locked
  limiters,   \* the ids with a limiter in s.rateLimits
  count,      \* rateLimiter.count
  reset,      \* rateLimiter.reset
  opened,     \* history: when the limiter's window was opened
  inWindow,   \* history: calls admitted since then
  admitted    \* history: the times of the admitted calls, per limiter

rateVars == <<now, calling, limiters, count, reset, opened, inWindow, admitted>>

(* The limiter an event is charged to.                                     *)
LimiterOf(a) == IF a = Empty THEN Default ELSE a

RateInit ==
  /\ now = 0
  /\ calling = [s \in Streams |-> NoCall]
  /\ limiters = {}
  /\ count = [a \in AgentIds |-> 0]
  /\ reset = [a \in AgentIds |-> 0]
  /\ opened = [a \in AgentIds |-> 0]
  /\ inWindow = [a \in AgentIds |-> 0]
  /\ admitted = [a \in AgentIds |-> << >>]

(* Mutant: every call stores a new limiter.                                *)
StoresAlways(a) == a \in AgentIds

(* LoadOrStore stores a limiter only when there is none.                   *)
Stores(a) == a \notin limiters

(* The handler has the limiter of the id, which it may have created, with  *)
(* a window that begins now and no call in it yet.                         *)
Load(s, id) ==
  LET a == LimiterOf(id)
  IN /\ calling[s] = NoCall
     /\ calling' = [calling EXCEPT ![s] = a]
     /\ limiters' = limiters \cup {a}
     /\ IF Stores(a)
        THEN /\ count' = [count EXCEPT ![a] = 0]
             /\ reset' = [reset EXCEPT ![a] = now + Minute]
             /\ opened' = [opened EXCEPT ![a] = now]
        ELSE UNCHANGED <<count, reset, opened>>
     /\ UNCHANGED <<now, inWindow, admitted>>

(* time.Now().After(rl.reset): the call replaces the window.               *)
Expired(a) == now > reset[a]

(* Mutant: every call moves the end of the window.                         *)
NewResetSliding(a) == now + Minute

(* rl.reset after the call: only replacing the window sets it.             *)
NewReset(a) == IF Expired(a) THEN now + Minute ELSE reset[a]

(* Mutant: a call at the limit is still admitted.                          *)
AdmitsOneMore(n) == n <= Limit + 1

(* rl.count > 500 is rejected; rejected calls are counted too.             *)
Admits(n) == n <= Limit

(* The call is counted as the n-th of its window.                          *)
Counted(a, n) ==
  /\ count' = [count EXCEPT ![a] = n]
  /\ reset' = [reset EXCEPT ![a] = NewReset(a)]
  /\ opened' = [opened EXCEPT ![a] = IF Expired(a) THEN now ELSE @]
  /\ inWindow' = [inWindow EXCEPT
                    ![a] = (IF Expired(a) THEN 0 ELSE @)
                           + (IF Admits(n) THEN 1 ELSE 0)]
  /\ admitted' = [admitted EXCEPT
                    ![a] = IF Admits(n) THEN Append(@, now) ELSE @]
  /\ UNCHANGED <<now, limiters>>

(* The section under rl.mu.                                                *)
Check(s) ==
  LET a == calling[s]
      n == IF Expired(a) THEN 1 ELSE count[a] + 1
  IN /\ a # NoCall
     /\ Len(admitted[a]) < MaxAdmitted
     /\ n <= Limit + MaxRejected
     /\ calling' = [calling EXCEPT ![s] = NoCall]
     /\ Counted(a, n)

Tick ==
  /\ now < MaxTime
  /\ now' = now + 1
  /\ UNCHANGED <<calling, limiters, count, reset, opened, inWindow, admitted>>

RateNext ==
  \/ Tick
  \/ \E s \in Streams :
       Check(s) \/ \E id \in AgentIds \cup {Empty} : Load(s, id)

RateSpec == RateInit /\ [][RateNext]_rateVars

------------------------------------------------------------------------------
RateTypeOK ==
  /\ now \in 0 .. MaxTime
  /\ calling \in [Streams -> limiters \cup {NoCall}]
  /\ limiters \in SUBSET AgentIds
  /\ count \in [AgentIds -> Nat]
  /\ reset \in [AgentIds -> Nat]
  /\ opened \in [AgentIds -> Nat]
  /\ inWindow \in [AgentIds -> Nat]
  /\ admitted \in [AgentIds -> Seq(Nat)]

(* Calls admitted to limiter a from tick t on for k ticks.                 *)
AdmittedIn(a, t, k) ==
  Cardinality({i \in DOMAIN admitted[a] : admitted[a][i] \in t .. t + k - 1})

(* In a window of the limiter, however its calls interleave with the clock *)
(* and with the creation of the limiter, and whichever ids share it, at    *)
(* most Limit calls are admitted.                                          *)
WindowBounded == \A a \in AgentIds : inWindow[a] <= Limit

(* The windows are replaced lazily and are not aligned to the minutes of a *)
(* clock: in an arbitrary minute up to two of them meet, never three.  So  *)
(* twice the limit is the most that the aggregator can see in a minute.    *)
AnyMinuteBounded ==
  \A a \in AgentIds, t \in 0 .. MaxTime : AdmittedIn(a, t, Minute) <= 2 * Limit

(* A burst that exhausted its window does not shut the agent out for good: *)
(* the first call after the window's end is admitted, for any number of    *)
(* rejected calls in between (they go on counting, but never move reset).  *)
RecoversAfterWindow ==
  [][\A a \in limiters :
       count'[a] # count[a] /\ ~Admits(count'[a]) => now <= opened[a] + Minute]_rateVars

==============================================================================
