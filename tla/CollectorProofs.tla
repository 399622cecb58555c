-------------------------- MODULE CollectorProofs ----------------------------
(***************************************************************************)
(* What the collector keeps of the agents' events, for every limit, every  *)
(* set of agent ids, any number of calls, any events and any number of     *)
(* scrapes: the rate limiter's bounds and its recovery, the aggregator's   *)
(* totals and moving averages, and what a scrape exposes of them.          *)
(***************************************************************************)
EXTENDS RateLimiter, Aggregator, SumLemmas

------------------------------------------------------------------------------
(* The rate limiter.                                                       *)

(* What the counters mean: the admitted calls of the window are among the  *)
(* counted ones, a window ends a minute after it was opened, and a handler *)
(* only holds a limiter that is stored.                                    *)
Counters ==
  /\ now \in Nat
  /\ limiters \subseteq AgentIds
  /\ calling \in [Streams -> limiters \cup {NoCall}]
  /\ count \in [AgentIds -> Nat]
  /\ reset \in [AgentIds -> Nat]
  /\ opened \in [AgentIds -> Nat]
  /\ inWindow \in [AgentIds -> Nat]

WindowsKept ==
  \A a \in AgentIds :
    /\ inWindow[a] <= count[a]
    /\ a \in limiters => reset[a] = opened[a] + Minute

LimiterInv == Counters /\ WindowsKept /\ WindowBounded

(* The number of calls admitted before the window was opened.              *)
Earlier(a) == Len(admitted[a]) - inWindow[a]

(* Where the calls lie: those before a window are no later than its        *)
(* opening, and those a whole limit before it over a minute earlier.       *)
WindowsApart ==
  \A a \in AgentIds :
    /\ opened[a] <= now
    /\ a \notin limiters => admitted[a] = << >> /\ inWindow[a] = 0
    /\ \A i \in DOMAIN admitted[a] :
         /\ admitted[a][i] <= now
         /\ i <= Earlier(a) => admitted[a][i] <= opened[a]
         /\ i + Limit <= Earlier(a) => admitted[a][i] + Minute < opened[a]

(* Twice the limit of calls and one more, however they were admitted, took *)
(* longer than a minute.                                                   *)
CallsApart ==
  \A a \in AgentIds : \A i, j \in DOMAIN admitted[a] :
    i + 2 * Limit <= j => admitted[a][i] + Minute < admitted[a][j]

TimesInv ==
  /\ LimiterInv
  /\ admitted \in [AgentIds -> Seq(Nat)]
  /\ WindowsApart
  /\ CallsApart

LEMMA LimiterInit == RateInit => LimiterInv
  BY LimiterAssumption DEF RateInit, LimiterInv, Counters, WindowsKept, WindowBounded

(* The calls are charged to a limiter of a known id. *)
LEMMA ChargedToAgent ==
  \A id \in AgentIds \cup {Empty} : LimiterOf(id) \in AgentIds
  BY LimiterAssumption DEF LimiterOf

(* A handler that has loaded a limiter has one of a known id.              *)
LEMMA LoadedLimiter ==
  ASSUME LimiterInv, NEW s \in Streams, calling[s] # NoCall
  PROVE  calling[s] \in limiters /\ calling[s] \in AgentIds
BY DEF LimiterInv, Counters

(* What a load leaves: the limiter, as it was or new.                      *)
LEMMA LoadStores ==
  ASSUME LimiterInv, NEW s \in Streams, NEW id \in AgentIds \cup {Empty}, Load(s, id)
  PROVE  /\ Counters'
         /\ \A b \in AgentIds :
              \/ b \in limiters /\ count'[b] = count[b] /\ reset'[b] = reset[b]
                                /\ opened'[b] = opened[b]
              \/ b \notin limiters /\ reset'[b] = now + Minute /\ opened'[b] = now
                                   /\ b \in limiters' /\ count'[b] = 0
              \/ b \notin limiters' /\ count'[b] = count[b] /\ opened'[b] = opened[b]
<1> DEFINE a == LimiterOf(id)
<1>1. a \in AgentIds
  BY ChargedToAgent
<1>2. /\ calling' = [calling EXCEPT ![s] = a]
      /\ limiters' = limiters \cup {a}
      /\ IF a \notin limiters
         THEN /\ count' = [count EXCEPT ![a] = 0]
              /\ reset' = [reset EXCEPT ![a] = now + Minute]
              /\ opened' = [opened EXCEPT ![a] = now]
         ELSE UNCHANGED <<count, reset, opened>>
      /\ UNCHANGED <<now, inWindow>>
  BY DEF Load, Stores
<1> HIDE DEF a
<1>3. now + Minute \in Nat
  BY LimiterAssumption DEF LimiterInv, Counters
<1>4. Counters'
  BY <1>1, <1>2, <1>3 DEF LimiterInv, Counters
<1>5. ASSUME NEW b \in AgentIds
      PROVE  \/ b \in limiters /\ count'[b] = count[b] /\ reset'[b] = reset[b]
                               /\ opened'[b] = opened[b]
             \/ b \notin limiters /\ reset'[b] = now + Minute /\ opened'[b] = now
                                  /\ b \in limiters' /\ count'[b] = 0
             \/ b \notin limiters' /\ count'[b] = count[b] /\ opened'[b] = opened[b]
  <2>1. CASE a \in limiters
    BY <1>2, <2>1
  <2>2. CASE a \notin limiters /\ b = a
    BY <1>2, <2>2 DEF LimiterInv, Counters
  <2>3. CASE a \notin limiters /\ b # a
    BY <1>2, <2>3 DEF LimiterInv, Counters
  <2> QED
    BY <2>1, <2>2, <2>3
<1> QED
  BY <1>4, <1>5

(* A new limiter has no call yet.                                          *)
LEMMA LoadKeeps ==
  ASSUME TimesInv, NEW s \in Streams, NEW id \in AgentIds \cup {Empty}, Load(s, id)
  PROVE  TimesInv'
<1>1. LimiterInv /\ UNCHANGED <<now, inWindow, admitted>> /\ limiters \subseteq limiters'
  BY DEF TimesInv, Load
<1>2. /\ Counters'
      /\ \A b \in AgentIds :
           \/ b \in limiters /\ count'[b] = count[b] /\ reset'[b] = reset[b]
                             /\ opened'[b] = opened[b]
           \/ b \notin limiters /\ reset'[b] = now + Minute /\ opened'[b] = now
                                /\ b \in limiters' /\ count'[b] = 0
           \/ b \notin limiters' /\ count'[b] = count[b] /\ opened'[b] = opened[b]
  BY <1>1, LoadStores
<1>3. now \in Nat /\ \A b \in AgentIds : b \notin limiters => inWindow[b] = 0
  BY <1>1 DEF TimesInv, WindowsApart, LimiterInv, Counters
<1>4. WindowsKept' /\ WindowBounded'
  BY <1>1, <1>2, <1>3 DEF LimiterInv, WindowsKept, WindowBounded
<1>5. WindowsApart'
  <2> SUFFICES ASSUME NEW b \in AgentIds
               PROVE  /\ opened'[b] <= now'
                      /\ b \notin limiters' => admitted'[b] = << >> /\ inWindow'[b] = 0
                      /\ \A i \in DOMAIN admitted'[b] :
                           /\ admitted'[b][i] <= now'
                           /\ i <= Earlier(b)' => admitted'[b][i] <= opened'[b]
                           /\ i + Limit <= Earlier(b)'
                                => admitted'[b][i] + Minute < opened'[b]
    BY DEF WindowsApart
  <2>1. CASE opened'[b] = opened[b]
    BY <1>1, <2>1 DEF TimesInv, WindowsApart, Earlier
  <2>2. CASE b \notin limiters /\ opened'[b] = now
    BY <1>1, <1>3, <2>2 DEF TimesInv, WindowsApart
  <2> QED
    BY <1>2, <2>1, <2>2
<1> QED
  BY <1>1, <1>2, <1>4, <1>5 DEF TimesInv, LimiterInv, CallsApart

(* A counted call keeps the invariant: replacing a window starts its       *)
(* counts afresh, and within a window no call after the Limit-th is        *)
(* admitted.                                                               *)
LEMMA CountedKeeps ==
  ASSUME LimiterInv, NEW a \in limiters, NEW s \in Streams,
         calling' = [calling EXCEPT ![s] = NoCall],
         Counted(a, IF Expired(a) THEN 1 ELSE count[a] + 1)
  PROVE  LimiterInv'
<1> DEFINE n == IF Expired(a) THEN 1 ELSE count[a] + 1
           w == (IF Expired(a) THEN 0 ELSE inWindow[a])
                + (IF Admits(n) THEN 1 ELSE 0)
<1>0. a \in AgentIds
  BY DEF LimiterInv, Counters
<1>1. n \in Nat /\ w \in Nat /\ NewReset(a) \in Nat
  BY <1>0, LimiterAssumption DEF LimiterInv, Counters, NewReset
<1>2. w <= n
  BY <1>0, LimiterAssumption DEF LimiterInv, Counters, WindowsKept
<1>3. w <= Limit
  BY <1>0, <1>2, LimiterAssumption DEF LimiterInv, Counters, WindowBounded, Admits
<1>4. NewReset(a) = (IF Expired(a) THEN now ELSE opened[a]) + Minute
  BY <1>0 DEF LimiterInv, WindowsKept, NewReset
<1> HIDE DEF n, w
<1>5. /\ count' = [count EXCEPT ![a] = n]
      /\ inWindow' = [inWindow EXCEPT ![a] = w]
      /\ reset' = [reset EXCEPT ![a] = NewReset(a)]
      /\ opened' = [opened EXCEPT ![a] = IF Expired(a) THEN now ELSE opened[a]]
      /\ UNCHANGED <<now, limiters>>
  BY DEF Counted, n, w
<1>6. Counters'
  BY <1>0, <1>1, <1>5 DEF LimiterInv, Counters
<1>7. WindowsKept'
  <2> SUFFICES ASSUME NEW b \in AgentIds
               PROVE  /\ inWindow'[b] <= count'[b]
                      /\ b \in limiters' => reset'[b] = opened'[b] + Minute
    BY DEF WindowsKept
  <2>1. CASE b = a
    BY <2>1, <1>2, <1>4, <1>5 DEF LimiterInv, Counters
  <2>2. CASE b # a
    BY <2>2, <1>5 DEF LimiterInv, Counters, WindowsKept
  <2> QED BY <2>1, <2>2
<1>8. WindowBounded'
  <2> SUFFICES ASSUME NEW b \in AgentIds PROVE inWindow'[b] <= Limit
    BY DEF WindowBounded
  <2>1. CASE b = a
    BY <2>1, <1>3, <1>5 DEF LimiterInv, Counters
  <2>2. CASE b # a
    BY <2>2, <1>5 DEF LimiterInv, Counters, WindowBounded
  <2> QED BY <2>1, <2>2
<1> QED BY <1>6, <1>7, <1>8 DEF LimiterInv

LEMMA TimesInit == RateInit => TimesInv
<1> SUFFICES ASSUME RateInit PROVE TimesInv
  OBVIOUS
<1>1. LimiterInv
  BY LimiterInit
<1> QED
  BY <1>1 DEF RateInit, TimesInv, WindowsApart, CallsApart

(* A call keeps the windows and the calls apart: it goes to the window     *)
(* that is open, or opens one later than a minute after the last opened.   *)
LEMMA CountedKeepsApart ==
  ASSUME TimesInv, NEW a \in limiters, NEW s \in Streams,
         calling' = [calling EXCEPT ![s] = NoCall],
         Counted(a, IF Expired(a) THEN 1 ELSE count[a] + 1)
  PROVE  TimesInv'
<1> DEFINE n == IF Expired(a) THEN 1 ELSE count[a] + 1
           w == (IF Expired(a) THEN 0 ELSE inWindow[a])
                + (IF Admits(n) THEN 1 ELSE 0)
           times == IF Admits(n) THEN Append(admitted[a], now) ELSE admitted[a]
           start == IF Expired(a) THEN now ELSE opened[a]
           first == Len(times) - w
<1>0. /\ LimiterInv /\ LimiterInv' /\ a \in AgentIds
      /\ Limit \in Nat \ {0} /\ Minute \in Nat \ {0} /\ 2 * Limit = Limit + Limit
  <2>1. LimiterInv /\ a \in AgentIds
    BY DEF TimesInv, LimiterInv, Counters
  <2>2. LimiterInv'
    BY <2>1, CountedKeeps
  <2> QED
    BY <2>1, <2>2, LimiterAssumption
<1>1. /\ now \in Nat /\ opened[a] \in Nat /\ count[a] \in Nat /\ inWindow[a] \in Nat
      /\ admitted[a] \in Seq(Nat) /\ inWindow[a] <= Limit
  BY <1>0 DEF TimesInv, LimiterInv, Counters, WindowBounded
<1>2. Expired(a) => n = 1 /\ Admits(n) /\ opened[a] + Minute < now
  BY <1>0 DEF Admits, Expired, LimiterInv, WindowsKept
<1>3. /\ opened[a] <= now
      /\ \A i \in DOMAIN admitted[a] :
           /\ admitted[a][i] <= now /\ admitted[a][i] \in Nat
           /\ i <= Earlier(a) => admitted[a][i] <= opened[a]
           /\ i + Limit <= Earlier(a) => admitted[a][i] + Minute < opened[a]
  BY <1>0, <1>1 DEF TimesInv, WindowsApart
<1>4. \A i, j \in DOMAIN admitted[a] :
        i + 2 * Limit <= j => admitted[a][i] + Minute < admitted[a][j]
  BY <1>0 DEF TimesInv, CallsApart
<1>5. /\ inWindow' = [inWindow EXCEPT ![a] = w]
      /\ opened' = [opened EXCEPT ![a] = start]
      /\ admitted' = [admitted EXCEPT ![a] = times]
      /\ UNCHANGED <<now, limiters>>
  BY DEF Counted
<1>6. /\ inWindow'[a] = w /\ opened'[a] = start /\ admitted'[a] = times
      /\ \A b \in AgentIds : b # a =>
           /\ inWindow'[b] = inWindow[b] /\ opened'[b] = opened[b]
           /\ admitted'[b] = admitted[b]
  BY <1>0, <1>5 DEF TimesInv, LimiterInv, Counters
<1>7. w <= Limit
  BY <1>0, <1>6 DEF LimiterInv, WindowBounded
<1>8. /\ times \in Seq(Nat) /\ start \in Nat /\ start <= now /\ w \in Nat
      /\ DOMAIN times = 1 .. Len(times) /\ Len(times) \in Nat
      /\ Len(admitted[a]) \in Nat /\ DOMAIN admitted[a] = 1 .. Len(admitted[a])
      /\ first = Len(times) - w /\ first \in Int
      /\ Earlier(a) = Len(admitted[a]) - inWindow[a] /\ Earlier(a) \in Int
  <2>1. times \in Seq(Nat)
    BY <1>1
  <2>2. start \in Nat /\ start <= now
    BY <1>1, <1>3
  <2>3. w \in Nat
    BY <1>1
  <2>4. Len(admitted[a]) \in Nat /\ DOMAIN admitted[a] = 1 .. Len(admitted[a])
    BY <1>1
  <2>5. Earlier(a) = Len(admitted[a]) - inWindow[a] /\ Earlier(a) \in Int
    BY <1>1, <2>4 DEF Earlier
  <2> HIDE DEF times, w, start
  <2>6. DOMAIN times = 1 .. Len(times) /\ Len(times) \in Nat
    BY <2>1
  <2>7. first = Len(times) - w /\ first \in Int
    BY <2>3, <2>6
  <2> QED
    BY <2>1, <2>2, <2>3, <2>4, <2>5, <2>6, <2>7
<1>9. \A i \in DOMAIN admitted[a] : i \in DOMAIN times /\ times[i] = admitted[a][i]
  BY <1>1
<1>10. ASSUME Admits(n)
       PROVE  /\ Len(times) = Len(admitted[a]) + 1 /\ times[Len(times)] = now
              /\ \A i \in DOMAIN times : i \in DOMAIN admitted[a] \/ i = Len(times)
              /\ w = (IF Expired(a) THEN 0 ELSE inWindow[a]) + 1
  BY <1>1, <1>10
<1> DEFINE Placed == \A i \in DOMAIN times :
                       /\ times[i] <= now
                       /\ i <= first => times[i] <= start
                       /\ i + Limit <= first => times[i] + Minute < start
<1> HIDE DEF n, w, start, times, first
<1>a. \A l, k \in Int : (l + 1) - (k + 1) = l - k /\ (l + 1) - 1 = l /\ 0 + 1 = 1
  OBVIOUS
<1>b. \A x, l, k, m \in Int : x + l <= m /\ k <= l => x <= m - k
  OBVIOUS
<1>c. \A l, k, m \in Int : k >= 0 /\ m >= 1 =>
        ~((l + 1) <= l - k) /\ ~((l + 1) + m <= l) /\ ~((l + 1) + m <= l - k)
  OBVIOUS
<1>11. ASSUME Expired(a) PROVE Placed
  <2>1. w = 1 /\ start = now /\ first = Len(admitted[a])
    <3>1. w = 0 + 1 /\ start = now /\ Len(times) = Len(admitted[a]) + 1
      BY <1>2, <1>10, <1>11 DEF start
    <3>2. Len(admitted[a]) \in Int
      BY <1>8
    <3> QED
      BY <1>8, <1>a, <3>1, <3>2
  <2> SUFFICES ASSUME NEW i \in DOMAIN times
               PROVE  /\ times[i] <= now
                      /\ i + Limit <= first => times[i] + Minute < now
    BY <2>1
  <2>2. CASE i \in DOMAIN admitted[a]
    <3>1. times[i] <= now /\ times[i] = admitted[a][i] /\ i \in Nat
      BY <1>3, <1>8, <1>9, <2>2
    <3>2. ASSUME i + Limit <= Len(admitted[a]) PROVE i <= Earlier(a)
      <4>1. i \in Int /\ Limit \in Int /\ inWindow[a] \in Int /\ Len(admitted[a]) \in Int
        BY <1>0, <1>1, <1>8, <3>1
      <4> QED
        BY <1>1, <1>8, <1>b, <3>2, <4>1
    <3>3. ASSUME i + Limit <= Len(admitted[a]) PROVE times[i] + Minute < now
      <4>1. times[i] <= opened[a] /\ times[i] \in Nat
        BY <1>3, <2>2, <3>1, <3>2, <3>3
      <4>2. opened[a] + Minute < now
        BY <1>2, <1>11
      <4> QED
        BY <1>0, <1>1, <4>1, <4>2
    <3> QED
      BY <2>1, <3>1, <3>3
  <2>3. CASE i = Len(times)
    <3>1. times[i] = now /\ ~(i + Limit <= first)
      <4>1. i = Len(admitted[a]) + 1 /\ times[i] = now
        BY <1>2, <1>10, <1>11, <2>3
      <4>2. Len(admitted[a]) \in Int /\ Limit \in Int /\ Limit >= 1 /\ 0 \in Int /\ 0 >= 0
        BY <1>0, <1>8
      <4> QED
        BY <1>c, <2>1, <4>1, <4>2
    <3> QED
      BY <1>1, <3>1
  <2> QED
    BY <1>2, <1>10, <1>11, <2>2, <2>3
<1>12. ASSUME ~Expired(a), Admits(n) PROVE Placed
  <2>1. w = inWindow[a] + 1 /\ start = opened[a] /\ first = Earlier(a)
    <3>1. /\ w = inWindow[a] + 1 /\ start = opened[a]
          /\ Len(times) = Len(admitted[a]) + 1
      BY <1>10, <1>12 DEF start
    <3>2. Len(admitted[a]) \in Int /\ inWindow[a] \in Int
      BY <1>1, <1>8
    <3> QED
      BY <1>8, <1>a, <3>1, <3>2
  <2> SUFFICES ASSUME NEW i \in DOMAIN times
               PROVE  /\ times[i] <= now
                      /\ i <= first => times[i] <= start
                      /\ i + Limit <= first => times[i] + Minute < start
    OBVIOUS
  <2>3. CASE i \in DOMAIN admitted[a]
    BY <1>3, <1>9, <2>1, <2>3
  <2>4. CASE i = Len(times)
    <3>1. times[i] = now /\ ~(i <= first) /\ ~(i + Limit <= first)
      <4>1. i = Len(admitted[a]) + 1 /\ times[i] = now
        BY <1>10, <1>12, <2>4
      <4>2. /\ Len(admitted[a]) \in Int /\ inWindow[a] \in Int /\ inWindow[a] >= 0
            /\ Limit \in Int /\ Limit >= 1
        BY <1>0, <1>1, <1>8
      <4> QED
        BY <1>8, <1>c, <2>1, <4>1, <4>2
    <3> QED
      BY <1>1, <3>1
  <2> QED
    BY <1>10, <1>12, <2>3, <2>4
<1>13. ASSUME ~Admits(n)
       PROVE  Placed /\ times = admitted[a]
  <2>1. ~Expired(a)
    BY <1>2, <1>13
  <2>2. w = inWindow[a] /\ times = admitted[a] /\ start = opened[a] /\ first = Earlier(a)
    BY <1>1, <1>8, <1>13, <2>1 DEF w, start, times
  <2> QED
    BY <1>3, <2>2
<1>14. Placed
  BY <1>11, <1>12, <1>13
<1>15. \A i, j \in DOMAIN times : i + 2 * Limit <= j => times[i] + Minute < times[j]
  <2> SUFFICES ASSUME NEW i \in DOMAIN times, NEW j \in DOMAIN times,
                      i + 2 * Limit <= j
               PROVE  times[i] + Minute < times[j]
    OBVIOUS
  <2>1. i \in Nat /\ j \in Nat /\ i < j /\ j <= Len(times)
    BY <1>0, <1>8
  <2>2. CASE j \in DOMAIN admitted[a]
    <3>1. i \in DOMAIN admitted[a]
      BY <1>8, <2>1, <2>2
    <3> QED
      BY <1>4, <1>9, <2>2, <3>1
  <2>3. CASE j = Len(times) /\ Admits(n)
    <3>1. i + Limit <= first
      BY <1>0, <1>7, <1>8, <2>1, <2>3
    <3>2. times[i] + Minute < start
      BY <1>14, <3>1
    <3>3. times[i] \in Nat
      BY <1>8
    <3> QED
      <4>1. start \in Nat /\ start <= now /\ now \in Nat /\ Minute \in Nat
        BY <1>0, <1>1, <1>8
      <4>2. times[j] = now
        BY <1>10, <2>3
      <4> QED
        BY <3>2, <3>3, <4>1, <4>2
  <2> QED
    BY <1>10, <1>13, <2>2, <2>3
<1>16. WindowsApart'
  <2> SUFFICES ASSUME NEW b \in AgentIds
               PROVE  /\ opened'[b] <= now'
                      /\ b \notin limiters' => admitted'[b] = << >> /\ inWindow'[b] = 0
                      /\ \A i \in DOMAIN admitted'[b] :
                           /\ admitted'[b][i] <= now'
                           /\ i <= Earlier(b)' => admitted'[b][i] <= opened'[b]
                           /\ i + Limit <= Earlier(b)'
                                => admitted'[b][i] + Minute < opened'[b]
    BY DEF WindowsApart
  <2>1. CASE b = a
    BY <1>5, <1>6, <1>8, <1>14, <2>1 DEF Earlier
  <2>2. CASE b # a
    BY <1>5, <1>6, <2>2 DEF Earlier, TimesInv, WindowsApart
  <2> QED
    BY <2>1, <2>2
<1>17. CallsApart'
  <2> SUFFICES ASSUME NEW b \in AgentIds, NEW i \in DOMAIN admitted'[b],
                      NEW j \in DOMAIN admitted'[b], i + 2 * Limit <= j
               PROVE  admitted'[b][i] + Minute < admitted'[b][j]
    BY DEF CallsApart
  <2>1. CASE b = a
    BY <1>6, <1>15, <2>1
  <2>2. CASE b # a
    BY <1>6, <2>2 DEF TimesInv, CallsApart
  <2> QED
    BY <2>1, <2>2
<1>18. admitted' \in [AgentIds -> Seq(Nat)]
  BY <1>5, <1>8 DEF TimesInv
<1> QED
  BY <1>0, <1>16, <1>17, <1>18 DEF TimesInv

LEMMA TimesStep == TimesInv /\ [RateNext]_rateVars => TimesInv'
<1> SUFFICES ASSUME TimesInv, [RateNext]_rateVars PROVE TimesInv'
  OBVIOUS
<1>1. CASE Tick
  <2>1. now \in Nat /\ opened \in [AgentIds -> Nat]
    BY DEF TimesInv, LimiterInv, Counters
  <2>2. LimiterInv'
    BY <1>1 DEF Tick, TimesInv, LimiterInv, Counters, WindowsKept, WindowBounded
  <2>3. WindowsApart'
    BY <1>1, <2>1 DEF Tick, TimesInv, WindowsApart, Earlier
  <2> QED
    BY <1>1, <2>2, <2>3 DEF Tick, TimesInv, CallsApart
<1>2. ASSUME NEW s \in Streams, Check(s) PROVE TimesInv'
  <2>1. calling[s] \in limiters
    BY <1>2, LoadedLimiter DEF Check, TimesInv
  <2> QED
    BY <1>2, <2>1, CountedKeepsApart DEF Check
<1>3. ASSUME NEW s \in Streams, NEW id \in AgentIds \cup {Empty}, Load(s, id)
      PROVE  TimesInv'
  BY <1>3, LoadKeeps
<1>4. CASE UNCHANGED rateVars
  BY <1>4 DEF rateVars, TimesInv, LimiterInv, Counters, WindowsKept, WindowBounded,
              WindowsApart, CallsApart, Earlier
<1> QED
  BY <1>1, <1>2, <1>3, <1>4 DEF RateNext

(* In no window, of however many streams' interleaved calls, are more than *)
(* Limit calls of an agent admitted.                                       *)
THEOREM LimitHolds == RateSpec => []WindowBounded
<1>1. TimesInv => WindowBounded
  BY DEF TimesInv, LimiterInv
<1> QED BY TimesInit, TimesStep, <1>1, PTL DEF RateSpec

(* A call is only rejected within the minute of the window that exhausted  *)
(* the limit: rejected calls never push the end of the window away.        *)
THEOREM Recovery == RateSpec => RecoversAfterWindow
<1> DEFINE Rejected(a) ==
      count'[a] # count[a] /\ ~Admits(count'[a]) => now <= opened[a] + Minute
<1>1. ASSUME TimesInv, [RateNext]_rateVars
      PROVE  [\A a \in limiters : Rejected(a)]_rateVars
  <2> SUFFICES ASSUME NEW a \in limiters, RateNext PROVE Rejected(a)
    BY <1>1
  <2>1. LimiterInv /\ a \in AgentIds
    BY <1>1 DEF TimesInv, LimiterInv, Counters
  <2>2. CASE Tick
    BY <2>2 DEF Tick
  <2>3. ASSUME NEW s \in Streams, NEW id \in AgentIds \cup {Empty}, Load(s, id)
        PROVE  Rejected(a)
    BY <2>1, <2>3 DEF Load, Stores, LimiterInv, Counters
  <2>4. ASSUME NEW s \in Streams, Check(s) PROVE Rejected(a)
    <3> DEFINE b == calling[s]
               n == IF Expired(b) THEN 1 ELSE count[b] + 1
    <3>1. b \in AgentIds
      BY <2>1, <2>4, LoadedLimiter DEF Check
    <3>2. count' = [count EXCEPT ![b] = n]
      BY <2>4 DEF Check, Counted
    <3> HIDE DEF b
    <3>3. CASE a # b
      BY <2>1, <3>1, <3>2, <3>3 DEF LimiterInv, Counters
    <3>4. CASE a = b /\ Expired(b)
      BY <2>1, <3>1, <3>2, <3>4, LimiterAssumption DEF LimiterInv, Counters, Admits
    <3>5. CASE a = b /\ ~Expired(b)
      BY <2>1, <3>5, LimiterAssumption DEF LimiterInv, Counters, WindowsKept, Expired
    <3> QED BY <3>3, <3>4, <3>5
  <2> QED BY <2>2, <2>3, <2>4 DEF RateNext
<1> QED BY TimesInit, TimesStep, <1>1, PTL DEF RateSpec, RecoversAfterWindow

(* The calls admitted in some minute are at most twice the limit.          *)
LEMMA FewInAMinute ==
  ASSUME TimesInv, NEW a \in AgentIds, NEW t \in Nat
  PROVE  AdmittedIn(a, t, Minute) <= 2 * Limit
<1> DEFINE S == {i \in DOMAIN admitted[a] : admitted[a][i] \in t .. t + Minute - 1}
<1>1. /\ Limit \in Nat \ {0} /\ Minute \in Nat \ {0} /\ admitted[a] \in Seq(Nat)
      /\ S \subseteq Nat
  BY LimiterAssumption DEF TimesInv
<1>2. CASE S = {}
  <2>1. Cardinality(S) = 0
    BY <1>2, FS_EmptySet
  <2> QED
    BY <1>1, <2>1 DEF AdmittedIn
<1>3. CASE S # {}
  <2>1. PICK m \in S : \A i \in S : m <= i
    BY <1>1, <1>3, LeastElement
  <2>2. ASSUME NEW i \in S PROVE i \in m .. m + 2 * Limit - 1
    <3>1. m <= i /\ m \in Nat /\ i \in Nat
      BY <1>1, <2>1
    <3>2. ~(admitted[a][m] + Minute < admitted[a][i])
      BY <1>1
    <3>3. ~(m + 2 * Limit <= i)
      BY <3>2 DEF TimesInv, CallsApart
    <3> QED
      BY <1>1, <3>1, <3>3
  <2>3. /\ IsFiniteSet(m .. m + 2 * Limit - 1)
        /\ Cardinality(m .. m + 2 * Limit - 1) = 2 * Limit
    <3>1. /\ m \in Int /\ m + 2 * Limit - 1 \in Int /\ ~(m > m + 2 * Limit - 1)
          /\ (m + 2 * Limit - 1) - m + 1 = 2 * Limit
      BY <1>1
    <3> HIDE DEF S
    <3> QED
      BY <1>1, <3>1, FS_Interval
  <2>4. Cardinality(S) <= 2 * Limit /\ IsFiniteSet(S)
    <3> DEFINE I == m .. m + 2 * Limit - 1
    <3>1. S \in SUBSET I /\ IsFiniteSet(I) /\ Cardinality(I) = 2 * Limit
      BY <2>2, <2>3
    <3> HIDE DEF S, I
    <3>2. IsFiniteSet(S) /\ Cardinality(S) <= Cardinality(I)
      BY <3>1, FS_Subset
    <3> QED
      BY <3>1, <3>2
  <2> QED
    BY <2>4 DEF AdmittedIn
<1> QED
  BY <1>2, <1>3

(* Windows replaced lazily, on whichever calls: in no minute, wherever it  *)
(* begins, does the aggregator see more than twice the limit from one      *)
(* agent (grpc_handler.go:52-63).                                          *)
THEOREM TwoWindowsInAMinute == RateSpec => []AnyMinuteBounded
<1>1. TimesInv => AnyMinuteBounded
  BY FewInAMinute, LimiterAssumption DEF AnyMinuteBounded
<1> QED
  BY TimesInit, TimesStep, <1>1, PTL DEF RateSpec

------------------------------------------------------------------------------
(* The aggregator: arithmetic of a window.                                 *)

(* An event an agent may send.                                             *)
Event == [pid : Nat, workload : Seq(STRING), model : Seq(STRING), agent : STRING,
          gpuIndex : Int, cpu : Nat, dram : Nat, gpu : Nat, tokens : Nat]

(* What the assumption says of a single event.                             *)
LEMMA EventTypes == \A e \in Events : e \in Event /\ Joules(e) \in Nat
<1> SUFFICES ASSUME NEW e \in Events PROVE e \in Event /\ Joules(e) \in Nat
  OBVIOUS
<1>1. e \in Event
  BY AggregatorAssumption DEF Event
<1>2. /\ e.cpu \in Nat /\ e.dram \in Nat /\ e.gpu \in Nat /\ Window \in Nat
  BY <1>1, AggregatorAssumption DEF Event
<1>3. \A a, b \in Nat : a * b \in Nat
  OBVIOUS
<1>4. e.cpu + e.dram + e.gpu \in Nat
  BY <1>2
<1> QED
  BY <1>1, <1>2, <1>3, <1>4 DEF Joules

(* Products and quotients of natural numbers, each on its own: beside      *)
(* other arithmetic the solver does not find them.                         *)
LEMMA ProductNat == \A a, b \in Nat : a * b \in Nat
  OBVIOUS

LEMMA QuotientNat == \A a \in Nat, b \in Nat \ {0} : a \div b \in Nat
<1> SUFFICES ASSUME NEW a \in Nat, NEW b \in Nat \ {0} PROVE a \div b \in Nat
  OBVIOUS
<1> QED
  BY Z3

(* The cost of a window with tokens is a number.                           *)
LEMMA CostNat == \A e \in Events : e.tokens > 0 => CostPerToken(e) \in Nat
<1> SUFFICES ASSUME NEW e \in Events, e.tokens > 0 PROVE CostPerToken(e) \in Nat
  OBVIOUS
<1>1. /\ Joules(e) \in Nat /\ e.tokens \in Nat \ {0}
      /\ Price \in Nat /\ Scale \in Nat
  BY EventTypes, AggregatorAssumption DEF Event
<1>2. Joules(e) * Price \in Nat
  BY <1>1, ProductNat
<1>3. Joules(e) * Price * Scale \in Nat
  BY <1>1, <1>2, ProductNat
<1> QED
  BY <1>1, <1>3, QuotientNat DEF CostPerToken

(* A moving average lies between its old value and the new one.            *)
LEMMA SmoothBetween ==
  \A old, new, a, b \in Nat : a <= old /\ old <= b /\ a <= new /\ new <= b =>
    Smooth(old, new) \in Nat /\ a <= Smooth(old, new) /\ Smooth(old, new) <= b
  BY DEF Smooth

(* What one more event makes of each field of a state.                     *)
LEMMA NextStateFields ==
  ASSUME NEW s \in State, NEW e \in Events
  PROVE  LET n == NextState(s, e)
         IN /\ n.pid = s.pid /\ n.workload = s.workload /\ n.model = s.model
            /\ n.agent = e.agent /\ n.gpuIndex = e.gpuIndex
            /\ n.cpu = Smooth(s.cpu, e.cpu * Scale)
            /\ n.dram = Smooth(s.dram, e.dram * Scale)
            /\ n.gpu = Smooth(s.gpu, e.gpu * Scale)
            /\ n.joules = Smooth(s.joules, Joules(e) * Scale)
            /\ n.cost = SmoothCost(s.cost, e)
            /\ n.tokens = s.tokens + e.tokens
            /\ DOMAIN n = DOMAIN s
  BY DEF NextState, State

------------------------------------------------------------------------------
(* AddEvent: types, keys and the log.                                      *)

(* A moving average is a number, and so is that of the cost.               *)
LEMMA SmoothNat == \A old, new \in Nat : Smooth(old, new) \in Nat
  BY DEF Smooth

LEMMA SmoothCostNat == \A old \in Nat, e \in Events : SmoothCost(old, e) \in Nat
<1> SUFFICES ASSUME NEW old \in Nat, NEW e \in Events PROVE SmoothCost(old, e) \in Nat
  OBVIOUS
<1>1. e.tokens \in Nat
  BY EventTypes DEF Event
<1> QED
  BY <1>1, CostNat, SmoothNat DEF SmoothCost

(* A new and a renewed state are well formed,                              *)
LEMMA StatesTyped ==
  ASSUME NEW e \in Events
  PROVE  /\ FirstState(e) \in State
         /\ \A s \in State : NextState(s, e) \in State
<1>1. e \in Event /\ Joules(e) \in Nat /\ Scale \in Nat
  BY EventTypes, AggregatorAssumption
<1>2. /\ e.cpu * Scale \in Nat /\ e.dram * Scale \in Nat /\ e.gpu * Scale \in Nat
      /\ Joules(e) * Scale \in Nat
  BY <1>1, ProductNat DEF Event
<1>3. (IF e.tokens > 0 THEN CostPerToken(e) ELSE 0) \in Nat
  BY CostNat
<1>4. FirstState(e) \in State
  BY <1>1, <1>2, <1>3 DEF FirstState, State, Event
<1>5. ASSUME NEW s \in State PROVE NextState(s, e) \in State
  <2>1. /\ Smooth(s.cpu, e.cpu * Scale) \in Nat /\ Smooth(s.dram, e.dram * Scale) \in Nat
        /\ Smooth(s.gpu, e.gpu * Scale) \in Nat
        /\ Smooth(s.joules, Joules(e) * Scale) \in Nat
        /\ SmoothCost(s.cost, e) \in Nat
    BY <1>2, SmoothNat, SmoothCostNat DEF State
  <2>2. s.tokens + e.tokens \in Nat
    <3>1. s.tokens \in Nat
      BY DEF State
    <3>2. e.tokens \in Nat
      BY <1>1 DEF Event
    <3> QED
      BY <3>1, <3>2
  <2> QED
    BY <1>1, <2>1, <2>2 DEF NextState, State, Event
<1> QED
  BY <1>4, <1>5

(* and of the key of the event.                                            *)
LEMMA SameKey ==
  ASSUME NEW e \in Events
  PROVE  /\ Key(FirstState(e)) = Key(e)
         /\ \A s \in State : Key(NextState(s, e)) = Key(s)
<1>1. Key(FirstState(e)) = Key(e)
  BY DEF FirstState, Key
<1>2. ASSUME NEW s \in State PROVE Key(NextState(s, e)) = Key(s)
  BY NextStateFields DEF Key
<1> QED
  BY <1>1, <1>2

(* States whose labels agree are of the same key.                          *)
LEMMA SeriesKey ==
  \A s, t \in State : Series(s) = Series(t) => Key(s) = Key(t)
  BY DEF Series, Key

(* The states as AddEvent finds and leaves them.                           *)
Keyed(c) ==
  /\ IsFiniteSet(DOMAIN c)
  /\ c = [k \in DOMAIN c |-> c[k]]
  /\ \A k \in DOMAIN c : c[k] \in State /\ Key(c[k]) = k

(* The state under the key of an event after it.                           *)
Renewed(e) ==
  IF Key(e) \in DOMAIN states THEN NextState(states[Key(e)], e) ELSE FirstState(e)

(* AddEvent replaces or adds the state of one key                          *)
LEMMA AddEventStates ==
  ASSUME Keyed(states), NEW e \in Events, AddEvent(e)
  PROVE  /\ DOMAIN states' = DOMAIN states \cup {Key(e)}
         /\ states'[Key(e)] = Renewed(e)
         /\ \A j \in DOMAIN states \ {Key(e)} : states'[j] = states[j]
         /\ Renewed(e) \in State
         /\ Key(Renewed(e)) = Key(e)
         /\ Keyed(states')
<1>1. states' = [j \in DOMAIN states \cup {Key(e)} |->
                   IF j = Key(e) THEN Renewed(e) ELSE states[j]]
  BY DEF AddEvent, Renewed
<1>2. Renewed(e) \in State /\ Key(Renewed(e)) = Key(e)
  BY StatesTyped, SameKey DEF Renewed, Keyed
<1>3. IsFiniteSet(DOMAIN states \cup {Key(e)})
  BY FS_AddElement DEF Keyed
<1>4. Keyed(states')
  BY <1>1, <1>2, <1>3 DEF Keyed
<1> QED
  BY <1>1, <1>2, <1>4

(* and appends to the log.                                                 *)
LEMMA AddEventLog ==
  ASSUME log \in Seq(Events), NEW e \in Events, AddEvent(e)
  PROVE  /\ log' \in Seq(Events)
         /\ Len(log') = Len(log) + 1 /\ Len(log) < MaxEvents
         /\ DOMAIN log' = DOMAIN log \cup {Len(log) + 1}
         /\ Len(log) + 1 \notin DOMAIN log
         /\ log'[Len(log) + 1] = e
         /\ \A i \in DOMAIN log : log'[i] = log[i]
  BY DEF AddEvent

------------------------------------------------------------------------------
(* Tokens.                                                                 *)

(* TokensOfLog, of any log.                                                *)
LogTokens(l, n) == SumFunctionOnSet([i \in DOMAIN l |-> l[i].tokens], 1 .. n)

(* An event appended adds its tokens to the sum over the log,              *)
LEMMA LogTokensAppend ==
  ASSUME log \in Seq(Events), NEW e \in Events, AddEvent(e)
  PROVE  /\ \A n \in 0 .. Len(log) : LogTokens(log', n) = LogTokens(log, n)
         /\ LogTokens(log', Len(log')) = LogTokens(log, Len(log)) + e.tokens
<1> DEFINE f == [i \in DOMAIN log |-> log[i].tokens]
           g == [i \in DOMAIN log' |-> log'[i].tokens]
           m == Len(log) + 1
<1>1. /\ DOMAIN log' = DOMAIN log \cup {m} /\ m \notin DOMAIN log
      /\ log'[m] = e /\ \A i \in DOMAIN log : log'[i] = log[i]
      /\ Len(log') = m
  BY AddEventLog
<1>0. Len(log) \in Nat /\ DOMAIN log = 1 .. Len(log)
  OBVIOUS
<1>2. \A i \in DOMAIN log : log[i].tokens \in Nat
  BY EventTypes DEF Event
<1>3. e.tokens \in Nat
  BY EventTypes DEF Event
<1>4. \A i \in DOMAIN log : g[i] = f[i] /\ f[i] \in Int
  BY <1>1, <1>2
<1>5. g[m] = e.tokens
  BY <1>1
<1>6. ASSUME NEW n \in 0 .. Len(log)
      PROVE  SumFunctionOnSet(g, 1 .. n) = SumFunctionOnSet(f, 1 .. n)
  <2>1. IsFiniteSet(1 .. n)
    BY <1>0, FS_Interval
  <2>2. \A i \in 1 .. n : g[i] = f[i]
    BY <1>0, <1>1, <1>4
  <2> HIDE DEF f, g
  <2> QED
    BY <2>1, <2>2, SumEqual
<1>7. SumFunctionOnSet(g, 1 .. m) = SumFunctionOnSet(f, 1 .. Len(log)) + e.tokens
  <2>1. IsFiniteSet(1 .. Len(log)) /\ m \notin 1 .. Len(log)
        /\ 1 .. m = (1 .. Len(log)) \cup {m}
    <3>1. IsFiniteSet(1 .. Len(log))
      BY <1>0, FS_Interval
    <3> QED
      BY <1>0, <3>1
  <2>2. \A i \in (1 .. Len(log)) \cup {m} : g[i] \in Int
    <3>1. g[m] \in Int
      BY <1>3, <1>5
    <3> HIDE DEF f, g, m
    <3> QED
      BY <1>0, <1>4, <3>1
  <2>3. SumFunctionOnSet(f, 1 .. Len(log)) \in Int
    <3> HIDE DEF f
    <3> QED
      BY <1>0, <1>4, <2>1, SumType
  <2>4. SumFunctionOnSet(g, 1 .. Len(log)) = SumFunctionOnSet(f, 1 .. Len(log))
    BY <1>0, <1>6
  <2>5. SumFunctionOnSet(g, (1 .. Len(log)) \cup {m})
          = g[m] + SumFunctionOnSet(g, 1 .. Len(log))
    <3> HIDE DEF f, g, m
    <3> QED
      BY <2>1, <2>2, SumAdd
  <2>6. SumFunctionOnSet(g, 1 .. m) = e.tokens + SumFunctionOnSet(f, 1 .. Len(log))
    <3> HIDE DEF f, g, m
    <3> QED
      BY <1>5, <2>1, <2>4, <2>5, Zenon
  <2> HIDE DEF f, g, m
  <2> QED
    BY <1>3, <2>3, <2>6
<1> QED
  BY <1>1, <1>6, <1>7 DEF LogTokens

(* and to that over the states, whether its key is new or known.           *)
LEMMA StatesTokensAdd ==
  ASSUME Keyed(states), NEW e \in Events, AddEvent(e)
  PROVE  TokensOfStates(states') = TokensOfStates(states) + e.tokens
<1> DEFINE D == DOMAIN states
           k == Key(e)
           f == [j \in DOMAIN states |-> states[j].tokens]
           g == [j \in DOMAIN states' |-> states'[j].tokens]
<1>1. /\ DOMAIN states' = D \cup {k} /\ states'[k] = Renewed(e)
      /\ \A j \in D \ {k} : states'[j] = states[j]
      /\ Renewed(e) \in State /\ IsFiniteSet(D)
  BY AddEventStates DEF Keyed
<1>2. \A j \in D : f[j] \in Int
  BY DEF Keyed, State
<1>3. g[k] \in Int /\ e.tokens \in Int
  BY <1>1, EventTypes DEF State, Event
<1>4. \A j \in D \ {k} : g[j] = f[j]
  BY <1>1
<1>5. CASE k \in D
  <2>1. states[k] \in State
    BY <1>5 DEF Keyed
  <2>2. g[k] = f[k] + e.tokens
    BY <1>1, <1>5, <2>1, NextStateFields DEF Renewed
  <2>3. \A j \in D : f[j] \in Int /\ g[j] \in Int
    BY <1>2, <1>3, <1>4
  <2>4. SumFunctionOnSet(f, D) \in Int
    <3> HIDE DEF f, D
    <3> QED
      BY <1>1, <1>2, SumType
  <2>5. SumFunctionOnSet(g, D) = SumFunctionOnSet(f, D) + (g[k] - f[k])
    <3> HIDE DEF f, g, D, k
    <3> QED
      BY <1>1, <1>4, <1>5, <2>3, SumUpdate
  <2>6. DOMAIN f = D /\ DOMAIN g = D
    BY <1>1, <1>5
  <2>7. f[k] \in Int
    BY <1>2, <1>5
  <2> HIDE DEF f, g, D, k
  <2>8. SumFunctionOnSet(g, D) = SumFunctionOnSet(f, D) + e.tokens
    BY <1>3, <2>2, <2>4, <2>5, <2>7
  <2> QED
    BY <2>6, <2>8 DEF TokensOfStates, SumFunction, f, g
<1>6. CASE k \notin D
  <2>1. g[k] = e.tokens
    BY <1>1, <1>6 DEF Renewed, FirstState
  <2>2. \A j \in D \cup {k} : g[j] \in Int
    BY <1>2, <1>3, <1>4
  <2>3. DOMAIN f = D /\ DOMAIN g = D \cup {k}
    BY <1>1
  <2>4. \A j \in D : g[j] = f[j]
    BY <1>4, <1>6
  <2> HIDE DEF f, g, D, k
  <2>5. SumFunctionOnSet(g, D \cup {k}) = g[k] + SumFunctionOnSet(g, D)
    BY <1>1, <1>6, <2>2, SumAdd
  <2>6. SumFunctionOnSet(g, D) = SumFunctionOnSet(f, D)
    BY <1>1, <2>4, SumEqual
  <2>7. SumFunctionOnSet(f, D) \in Int
    BY <1>1, <1>2, SumType
  <2> QED
    BY <1>3, <2>1, <2>3, <2>5, <2>6, <2>7 DEF TokensOfStates, SumFunction, f, g
<1> QED
  BY <1>5, <1>6

------------------------------------------------------------------------------
(* Moving averages stay among the values they average.                     *)

(* A value lies between two members of a set.                              *)
BetweenSome(v, S) == \E a, b \in S : a <= v /\ v <= b

(* A finite set of natural numbers that is not empty has a greatest one.   *)
LEMMA GreatestElement ==
  ASSUME NEW S, IsFiniteSet(S)
  PROVE  S \subseteq Nat /\ S # {} => \E x \in S : \A y \in S : x >= y
<1> DEFINE B == {T \in SUBSET S : /\ T \subseteq Nat /\ T # {}
                                /\ ~ \E x \in T : \A y \in T : x >= y}
<1>1. ASSUME B # {} PROVE FALSE
  <2>1. PICK m \in B : \A s \in B : s \subseteq m => s = m
    <3> HIDE DEF B
    <3>1. B \subseteq SUBSET S
      BY DEF B
    <3> QED
      BY <1>1, <3>1, MinimalSubset
  <2>2. PICK x \in m : x \in Nat
    OBVIOUS
  <2>3. m \ {x} \notin B /\ m \subseteq Nat
    BY <2>1
  <2>4. CASE m \ {x} = {}
    BY <2>2, <2>4
  <2>5. CASE m \ {x} # {}
    <3>1. PICK y \in m \ {x} : \A z \in m \ {x} : y >= z
      BY <2>3, <2>5
    <3>2. y \in Nat
      BY <2>3
    <3>3. CASE y >= x
      BY <3>1, <3>3
    <3>4. CASE y < x
      BY <2>2, <2>3, <3>1, <3>2, <3>4
    <3> QED
      BY <2>2, <3>2, <3>3, <3>4
  <2> QED
    BY <2>4, <2>5
<1>2. B = {}
  <2> HIDE DEF B
  <2> QED
    BY <1>1
<1>3. S \notin B
  BY <1>2
<1> QED
  BY <1>3

(* The image of a finite set under a function is finite.                   *)
LEMMA ImageFinite ==
  ASSUME NEW S, IsFiniteSet(S), NEW f
  PROVE  IsFiniteSet({f[x] : x \in S})
<1> DEFINE T == {f[x] : x \in S}
           h == [x \in S |-> f[x]]
<1>1. h \in Surjection(S, T)
  BY DEF Surjection
<1> HIDE DEF T, h
<1>2. IsFiniteSet(T)
  BY <1>1, FS_Surjection
<1> QED
  BY <1>2 DEF T

(* Between two members is between the least and the greatest.              *)
LEMMA BetweenExtremes ==
  ASSUME NEW S, IsFiniteSet(S), S \subseteq Nat, NEW v \in Nat, BetweenSome(v, S)
  PROVE  Between(v, S)
<1>1. PICK a \in S, b \in S : a <= v /\ v <= b
  BY DEF BetweenSome
<1>2. Min(S) \in S /\ \A y \in S : Min(S) <= y
  BY <1>1, LeastElement DEF Min
<1>3. Max(S) \in S /\ \A y \in S : Max(S) >= y
  <2>1. \E x \in S : \A y \in S : x >= y
    BY <1>1, GreatestElement
  <2> QED
    BY <2>1 DEF Max
<1>4. /\ Min(S) \in Nat /\ Max(S) \in Nat /\ a \in Nat /\ b \in Nat
      /\ Min(S) <= a /\ b <= Max(S)
  BY <1>1, <1>2, <1>3
<1> QED
  BY <1>1, <1>4 DEF Between

(* A moving average stays between members once the new value is one.       *)
LEMMA AverageMoves ==
  ASSUME NEW S, S \subseteq Nat, NEW old \in Nat, NEW new \in Nat, BetweenSome(old, S)
  PROVE  BetweenSome(Smooth(old, new), S \cup {new})
<1>1. PICK a \in S, b \in S : a <= old /\ old <= b
  BY DEF BetweenSome
<1>2. a \in Nat /\ b \in Nat
  OBVIOUS
<1> DEFINE lo == IF a <= new THEN a ELSE new
           hi == IF new <= b THEN b ELSE new
<1>3. /\ lo \in Nat /\ hi \in Nat /\ lo \in S \cup {new} /\ hi \in S \cup {new}
      /\ lo <= old /\ old <= hi /\ lo <= new /\ new <= hi
  BY <1>1, <1>2
<1> HIDE DEF lo, hi
<1>4. lo <= Smooth(old, new) /\ Smooth(old, new) <= hi
  BY <1>3, SmoothBetween
<1> QED
  BY <1>3, <1>4 DEF BetweenSome

(* The windows with tokens of the state of key k.                          *)
Busy(k) == {i \in WindowsOf(k) : log[i].tokens > 0}

(* AveragesBounded, with the extremes as witnesses,                        *)
AveragesAmong ==
  \A k \in DOMAIN states :
    /\ BetweenSome(states[k].cpu, {log[i].cpu * Scale : i \in WindowsOf(k)})
    /\ BetweenSome(states[k].dram, {log[i].dram * Scale : i \in WindowsOf(k)})
    /\ BetweenSome(states[k].gpu, {log[i].gpu * Scale : i \in WindowsOf(k)})
    /\ IF Busy(k) = {} THEN states[k].cost = 0
       ELSE BetweenSome(states[k].cost, {CostPerToken(log[i]) : i \in Busy(k)})

(* and every window belongs to a state.                                    *)
WindowsKnown == \A i \in DOMAIN log : Key(log[i]) \in DOMAIN states

(* AveragesBounded follows.                                                *)
LEMMA AveragesFromAmong ==
  ASSUME log \in Seq(Events), Keyed(states), AveragesAmong
  PROVE  AveragesBounded
<1> SUFFICES ASSUME NEW k \in DOMAIN states
             PROVE  LET s == states[k]
                        busy == {i \in WindowsOf(k) : log[i].tokens > 0}
                    IN /\ Between(s.cpu, {log[i].cpu * Scale : i \in WindowsOf(k)})
                       /\ Between(s.dram, {log[i].dram * Scale : i \in WindowsOf(k)})
                       /\ Between(s.gpu, {log[i].gpu * Scale : i \in WindowsOf(k)})
                       /\ Between(s.cost, IF busy = {} THEN {0}
                                          ELSE {CostPerToken(log[i]) : i \in busy})
  BY DEF AveragesBounded
<1> DEFINE W == WindowsOf(k)
           A == {log[i].cpu * Scale : i \in W}
           D == {log[i].dram * Scale : i \in W}
           G == {log[i].gpu * Scale : i \in W}
           C == {CostPerToken(log[i]) : i \in Busy(k)}
<1>1. IsFiniteSet(W) /\ IsFiniteSet(Busy(k))
  <2>1. IsFiniteSet(1 .. Len(log)) /\ DOMAIN log = 1 .. Len(log)
    BY FS_Interval
  <2>2. W \subseteq DOMAIN log /\ Busy(k) \subseteq DOMAIN log
    BY DEF WindowsOf, Busy
  <2> QED
    BY <2>1, <2>2, FS_Subset
<1>2. \A i \in W : log[i] \in Events /\ log[i] \in Event
  BY EventTypes DEF WindowsOf
<1>3. IsFiniteSet(A) /\ IsFiniteSet(D) /\ IsFiniteSet(G) /\ IsFiniteSet(C)
  <2> DEFINE a == [i \in W |-> log[i].cpu * Scale]
             d == [i \in W |-> log[i].dram * Scale]
             g == [i \in W |-> log[i].gpu * Scale]
             c == [i \in Busy(k) |-> CostPerToken(log[i])]
  <2>1. A = {a[i] : i \in W} /\ D = {d[i] : i \in W} /\ G = {g[i] : i \in W}
        /\ C = {c[i] : i \in Busy(k)}
    OBVIOUS
  <2> HIDE DEF a, d, g, c, A, D, G, C, W
  <2> QED
    BY <1>1, <2>1, ImageFinite
<1>4. A \subseteq Nat /\ D \subseteq Nat /\ G \subseteq Nat
  <2>1. ASSUME NEW i \in W
        PROVE  log[i].cpu \in Nat /\ log[i].dram \in Nat /\ log[i].gpu \in Nat
    BY <1>2 DEF Event
  <2>2. Scale \in Nat
    BY AggregatorAssumption
  <2> QED
    BY <2>1, <2>2, ProductNat
<1>5. C \subseteq Nat
  BY <1>2, CostNat DEF Busy
<1>6. /\ states[k].cpu \in Nat /\ states[k].dram \in Nat /\ states[k].gpu \in Nat
      /\ states[k].cost \in Nat
  BY DEF Keyed, State
<1>7. Between(states[k].cpu, A)
  BY <1>3, <1>4, <1>6, BetweenExtremes DEF AveragesAmong
<1>8. Between(states[k].dram, D)
  BY <1>3, <1>4, <1>6, BetweenExtremes DEF AveragesAmong
<1>9. Between(states[k].gpu, G)
  BY <1>3, <1>4, <1>6, BetweenExtremes DEF AveragesAmong
<1>10. Between(states[k].cost, IF Busy(k) = {} THEN {0} ELSE C)
  <2>1. CASE Busy(k) = {}
    <3>1. BetweenSome(0, {0}) /\ {0} \subseteq Nat
      BY DEF BetweenSome
    <3>2. IsFiniteSet({0})
      BY FS_Singleton
    <3>3. Between(0, {0})
      BY <3>1, <3>2, BetweenExtremes
    <3> QED
      BY <2>1, <3>3 DEF AveragesAmong
  <2>2. CASE Busy(k) # {}
    <3>1. Between(states[k].cost, C)
      BY <1>3, <1>5, <1>6, <2>2, BetweenExtremes DEF AveragesAmong
    <3> QED
      BY <2>2, <3>1
  <2> QED
    BY <2>1, <2>2
<1> QED
  BY <1>7, <1>8, <1>9, <1>10 DEF Busy

(* One more event adds a window to its key and to no other.                *)
LEMMA WindowsAdd ==
  ASSUME log \in Seq(Events), NEW e \in Events, AddEvent(e), NEW k
  PROVE  LET m == Len(log) + 1
         IN /\ WindowsOf(k)' = WindowsOf(k) \cup (IF Key(e) = k THEN {m} ELSE {})
            /\ Busy(k)' = Busy(k) \cup (IF Key(e) = k /\ e.tokens > 0 THEN {m} ELSE {})
            /\ m \notin WindowsOf(k)
            /\ log'[m] = e
            /\ \A i \in WindowsOf(k) : log'[i] = log[i]
            /\ Busy(k) \subseteq WindowsOf(k)
<1> DEFINE m == Len(log) + 1
<1>1. /\ DOMAIN log' = DOMAIN log \cup {m} /\ m \notin DOMAIN log
      /\ log'[m] = e /\ \A i \in DOMAIN log : log'[i] = log[i]
  BY AddEventLog
<1> HIDE DEF m
<1>2. WindowsOf(k)' = WindowsOf(k) \cup (IF Key(e) = k THEN {m} ELSE {})
  <2>1. WindowsOf(k)' = {i \in DOMAIN log' : Key(log'[i]) = k}
    BY DEF WindowsOf, Key
  <2> QED
    BY <1>1, <2>1 DEF WindowsOf
<1>3. m \notin WindowsOf(k) /\ \A i \in WindowsOf(k) : log'[i] = log[i]
  BY <1>1 DEF WindowsOf
<1>4. Busy(k)' = Busy(k) \cup (IF Key(e) = k /\ e.tokens > 0 THEN {m} ELSE {})
  <2>1. Busy(k)' = {i \in WindowsOf(k)' : log'[i].tokens > 0}
    BY DEF Busy
  <2> QED
    BY <1>1, <1>2, <1>3, <2>1 DEF Busy
<1> QED
  BY <1>1, <1>2, <1>3, <1>4 DEF Busy, m

(* The same for the average of the cost, which idle windows leave alone    *)
(* and whose zero stands for none yet.                                     *)
LEMMA CostMoves ==
  ASSUME NEW e \in Events, NEW old \in Nat, NEW C, C \subseteq Nat,
         C = {} => old = 0, C # {} => BetweenSome(old, C)
  PROVE  IF e.tokens = 0
         THEN SmoothCost(old, e) = old
         ELSE BetweenSome(SmoothCost(old, e), C \cup {CostPerToken(e)})
<1>1. e.tokens \in Nat
  BY EventTypes DEF Event
<1>2. CASE e.tokens = 0
  BY <1>2 DEF SmoothCost
<1>3. CASE e.tokens > 0 /\ old = 0
  <2>1. SmoothCost(old, e) = CostPerToken(e) /\ CostPerToken(e) \in Nat
    BY <1>3, CostNat DEF SmoothCost
  <2> QED
    BY <1>3, <2>1 DEF BetweenSome
<1>4. CASE e.tokens > 0 /\ old # 0
  <2>1. SmoothCost(old, e) = Smooth(old, CostPerToken(e)) /\ CostPerToken(e) \in Nat
    BY <1>4, CostNat DEF SmoothCost
  <2>2. C # {}
    BY <1>4
  <2>3. BetweenSome(old, C)
    BY <2>2
  <2>4. BetweenSome(Smooth(old, CostPerToken(e)), C \cup {CostPerToken(e)})
    BY <2>1, <2>3, AverageMoves
  <2>5. e.tokens # 0
    BY <1>4
  <2> QED
    BY <2>1, <2>4, <2>5
<1> QED
  BY <1>1, <1>2, <1>3, <1>4

(* A member lies between members.                                          *)
LEMMA BetweenItself ==
  ASSUME NEW v \in Nat, NEW S, v \in S
  PROVE  BetweenSome(v, S)
<1>1. v <= v
  OBVIOUS
<1> QED
  BY <1>1 DEF BetweenSome

(* AddEvent keeps every average among the values that went into it.        *)
LEMMA AveragesKeep ==
  ASSUME log \in Seq(Events), Keyed(states), AveragesAmong, WindowsKnown,
         NEW e \in Events, AddEvent(e)
  PROVE  AveragesAmong' /\ WindowsKnown'
<1> DEFINE m == Len(log) + 1
<1>1. /\ DOMAIN states' = DOMAIN states \cup {Key(e)}
      /\ states'[Key(e)] = Renewed(e)
      /\ \A j \in DOMAIN states \ {Key(e)} : states'[j] = states[j]
  BY AddEventStates
<1>2. /\ DOMAIN log' = DOMAIN log \cup {m}
      /\ log'[m] = e /\ \A i \in DOMAIN log : log'[i] = log[i]
  BY AddEventLog
<1>3. WindowsKnown'
  BY <1>1, <1>2 DEF WindowsKnown, Key
<1>4. e \in Event /\ Scale \in Nat
  BY EventTypes, AggregatorAssumption
<1>5. ASSUME NEW k \in DOMAIN states'
      PROVE  /\ BetweenSome(states'[k].cpu, {log'[i].cpu * Scale : i \in WindowsOf(k)'})
             /\ BetweenSome(states'[k].dram, {log'[i].dram * Scale : i \in WindowsOf(k)'})
             /\ BetweenSome(states'[k].gpu, {log'[i].gpu * Scale : i \in WindowsOf(k)'})
             /\ IF Busy(k)' = {} THEN states'[k].cost = 0
                ELSE BetweenSome(states'[k].cost,
                                 {CostPerToken(log'[i]) : i \in Busy(k)'})
  <2> DEFINE W == WindowsOf(k)
             A == {log[i].cpu * Scale : i \in W}
             D == {log[i].dram * Scale : i \in W}
             G == {log[i].gpu * Scale : i \in W}
             C == {CostPerToken(log[i]) : i \in Busy(k)}
             A2 == {log'[i].cpu * Scale : i \in WindowsOf(k)'}
             D2 == {log'[i].dram * Scale : i \in WindowsOf(k)'}
             G2 == {log'[i].gpu * Scale : i \in WindowsOf(k)'}
             C2 == {CostPerToken(log'[i]) : i \in Busy(k)'}
  <2>1. /\ WindowsOf(k)' = W \cup (IF Key(e) = k THEN {m} ELSE {})
        /\ Busy(k)' = Busy(k) \cup (IF Key(e) = k /\ e.tokens > 0 THEN {m} ELSE {})
        /\ m \notin W /\ log'[m] = e
        /\ \A i \in W : log'[i] = log[i]
        /\ Busy(k) \subseteq W
    BY WindowsAdd
  <2>2. CASE k # Key(e)
    <3>1. k \in DOMAIN states /\ states'[k] = states[k]
      BY <1>1, <2>2
    <3>2. WindowsOf(k)' = W /\ Busy(k)' = Busy(k)
      BY <2>1, <2>2
    <3>3. A2 = A /\ D2 = D /\ G2 = G /\ C2 = C
      BY <2>1, <3>2
    <3>4. /\ BetweenSome(states[k].cpu, A) /\ BetweenSome(states[k].dram, D)
          /\ BetweenSome(states[k].gpu, G)
          /\ IF Busy(k) = {} THEN states[k].cost = 0 ELSE BetweenSome(states[k].cost, C)
      BY <3>1 DEF AveragesAmong
    <3> HIDE DEF A, D, G, C, A2, D2, G2, C2, W
    <3>5. /\ BetweenSome(states'[k].cpu, A2) /\ BetweenSome(states'[k].dram, D2)
          /\ BetweenSome(states'[k].gpu, G2)
          /\ IF Busy(k)' = {} THEN states'[k].cost = 0
             ELSE BetweenSome(states'[k].cost, C2)
      BY <3>1, <3>2, <3>3, <3>4
    <3> QED
      BY <3>5 DEF A2, D2, G2, C2
  <2>3. CASE k = Key(e)
    <3>1. WindowsOf(k)' = W \cup {m}
      BY <2>1, <2>3
    <3>2. Busy(k)' = Busy(k) \cup (IF e.tokens > 0 THEN {m} ELSE {})
      BY <2>1, <2>3
    <3>3. /\ A2 = A \cup {e.cpu * Scale} /\ D2 = D \cup {e.dram * Scale}
          /\ G2 = G \cup {e.gpu * Scale}
      BY <2>1, <3>1
    <3>4. C2 = C \cup (IF e.tokens > 0 THEN {CostPerToken(e)} ELSE {})
      BY <2>1, <3>2
    <3>5. \A i \in W : log[i] \in Events /\ log[i] \in Event
      BY EventTypes DEF WindowsOf
    <3>6. A \subseteq Nat /\ D \subseteq Nat /\ G \subseteq Nat
      <4>1. ASSUME NEW i \in W
            PROVE  log[i].cpu \in Nat /\ log[i].dram \in Nat /\ log[i].gpu \in Nat
        BY <3>5 DEF Event
      <4> QED
        BY <1>4, <4>1, ProductNat
    <3>7. C \subseteq Nat
      BY <3>5, CostNat DEF Busy
    <3>8. e.cpu \in Nat /\ e.dram \in Nat /\ e.gpu \in Nat /\ e.tokens \in Nat
      BY <1>4 DEF Event
    <3>9. /\ e.cpu * Scale \in Nat /\ e.dram * Scale \in Nat /\ e.gpu * Scale \in Nat
      BY <1>4, <3>8, ProductNat
    <3>10. C2 = {} <=> Busy(k)' = {}
      OBVIOUS
    <3>11. C = {} <=> Busy(k) = {}
      OBVIOUS
    <3>12. CASE k \notin DOMAIN states
      <4>1. states'[k] = FirstState(e)
        BY <1>1, <2>3, <3>12 DEF Renewed
      <4>2. /\ states'[k].cpu = e.cpu * Scale /\ states'[k].dram = e.dram * Scale
            /\ states'[k].gpu = e.gpu * Scale
            /\ states'[k].cost = IF e.tokens > 0 THEN CostPerToken(e) ELSE 0
        BY <4>1 DEF FirstState
      <4>3. W = {}
        BY <3>12 DEF WindowsOf, WindowsKnown
      <4>4. Busy(k) = {}
        BY <2>1, <4>3
      <4>5. /\ BetweenSome(states'[k].cpu, A2) /\ BetweenSome(states'[k].dram, D2)
            /\ BetweenSome(states'[k].gpu, G2)
        <5> HIDE DEF A2, D2, G2, A, D, G
        <5> QED
          BY <3>3, <3>9, <4>2, BetweenItself
      <4>6. CASE e.tokens > 0
        <5>1. C2 = {CostPerToken(e)} /\ Busy(k)' # {} /\ CostPerToken(e) \in Nat
          BY <3>2, <3>4, <3>11, <4>4, <4>6, CostNat
        <5>2. BetweenSome(states'[k].cost, C2)
          <6> HIDE DEF C2
          <6> QED
            BY <4>2, <4>6, <5>1 DEF BetweenSome
        <5> QED
          BY <4>5, <5>1, <5>2
      <4>7. CASE e.tokens = 0
        <5>1. Busy(k)' = {} /\ states'[k].cost = 0
          BY <3>2, <4>2, <4>4, <4>7
        <5> QED
          BY <4>5, <5>1
      <4> QED
        BY <3>8, <4>6, <4>7
    <3>13. CASE k \in DOMAIN states
      <4>1. states[k] \in State
        BY <3>13 DEF Keyed
      <4>2. states'[k] = NextState(states[k], e)
        BY <1>1, <2>3, <3>13 DEF Renewed
      <4>3. /\ states'[k].cpu = Smooth(states[k].cpu, e.cpu * Scale)
            /\ states'[k].dram = Smooth(states[k].dram, e.dram * Scale)
            /\ states'[k].gpu = Smooth(states[k].gpu, e.gpu * Scale)
            /\ states'[k].cost = SmoothCost(states[k].cost, e)
        BY <4>1, <4>2, NextStateFields
      <4>4. /\ states[k].cpu \in Nat /\ states[k].dram \in Nat /\ states[k].gpu \in Nat
            /\ states[k].cost \in Nat
        BY <4>1 DEF State
      <4>5. /\ BetweenSome(states[k].cpu, A) /\ BetweenSome(states[k].dram, D)
            /\ BetweenSome(states[k].gpu, G)
            /\ IF Busy(k) = {} THEN states[k].cost = 0
               ELSE BetweenSome(states[k].cost, C)
        BY <3>13 DEF AveragesAmong
      <4> HIDE DEF A, D, G, C, A2, D2, G2, C2
      <4>6. /\ BetweenSome(states'[k].cpu, A2) /\ BetweenSome(states'[k].dram, D2)
            /\ BetweenSome(states'[k].gpu, G2)
        <5>1. BetweenSome(Smooth(states[k].cpu, e.cpu * Scale), A \cup {e.cpu * Scale})
          BY <3>6, <3>9, <4>4, <4>5, AverageMoves
        <5>2. BetweenSome(Smooth(states[k].dram, e.dram * Scale), D \cup {e.dram * Scale})
          BY <3>6, <3>9, <4>4, <4>5, AverageMoves
        <5>3. BetweenSome(Smooth(states[k].gpu, e.gpu * Scale), G \cup {e.gpu * Scale})
          BY <3>6, <3>9, <4>4, <4>5, AverageMoves
        <5> QED
          BY <3>3, <4>3, <5>1, <5>2, <5>3
      <4>7. IF e.tokens = 0 THEN SmoothCost(states[k].cost, e) = states[k].cost
            ELSE BetweenSome(SmoothCost(states[k].cost, e), C \cup {CostPerToken(e)})
        BY <3>7, <3>11, <4>4, <4>5, CostMoves
      <4>8. CASE e.tokens = 0
        <5>1. Busy(k)' = Busy(k) /\ C2 = C
          BY <3>2, <3>4, <4>8
        <5>2. states'[k].cost = states[k].cost
          BY <4>3, <4>7, <4>8
        <5>3. IF Busy(k)' = {} THEN states'[k].cost = 0
              ELSE BetweenSome(states'[k].cost, C2)
          BY <4>5, <5>1, <5>2
        <5> QED
          BY <4>6, <5>3 DEF A2, D2, G2, C2
      <4>9. CASE e.tokens > 0
        <5>1. C2 = C \cup {CostPerToken(e)} /\ Busy(k)' # {}
          BY <3>2, <3>4, <4>9
        <5>2. BetweenSome(states'[k].cost, C2)
          BY <4>3, <4>7, <4>9, <5>1
        <5> QED
          BY <4>6, <5>1, <5>2 DEF A2, D2, G2, C2
      <4> QED
        BY <3>8, <4>8, <4>9
    <3> QED
      BY <3>12, <3>13
  <2> QED
    BY <2>2, <2>3
<1>6. AveragesAmong'
  BY <1>5 DEF AveragesAmong
<1> QED
  BY <1>3, <1>6

------------------------------------------------------------------------------
(* The averages are exact.                                                 *)

(* The powers of 5 are what their recursion says.                          *)
FivesUpto(g, n) == g = [i \in 0 .. n |-> IF i = 0 THEN 1 ELSE 5 * g[i - 1]]

(* The recursion has a solution,                                           *)
LEMMA FivesExist ==
  ASSUME NEW n \in Nat
  PROVE  \E g : FivesUpto(g, n)
<1> DEFINE Bad == {m \in Nat : ~ \E g : FivesUpto(g, m)}
<1>1. 0 \notin Bad
  <2> DEFINE g == [i \in 0 .. 0 |-> 1]
  <2>1. g = [i \in 0 .. 0 |-> IF i = 0 THEN 1 ELSE 5 * g[i - 1]]
    OBVIOUS
  <2> HIDE DEF g
  <2> QED
    BY <2>1 DEF FivesUpto
<1>2. ASSUME Bad # {} PROVE FALSE
  <2>1. PICK m \in Bad : \A k \in Bad : m <= k
    BY <1>2, LeastElement
  <2>2. m \in Nat \ {0} /\ m - 1 \in Nat /\ m - 1 \notin Bad
    BY <1>1, <2>1
  <2>3. PICK g : FivesUpto(g, m - 1)
    BY <2>2
  <2> DEFINE h == [i \in 0 .. m |-> IF i = 0 THEN 1 ELSE 5 * g[i - 1]]
  <2>4. \A i \in 0 .. m - 1 : h[i] = g[i]
    <3>1. \A i \in 0 .. m - 1 : i \in 0 .. m
      BY <2>2
    <3>2. \A i \in 0 .. m - 1 : g[i] = IF i = 0 THEN 1 ELSE 5 * g[i - 1]
      BY <2>3 DEF FivesUpto
    <3> QED
      BY <3>1, <3>2
  <2>5. \A i \in 0 .. m : i # 0 => i - 1 \in 0 .. m - 1
    BY <2>2
  <2>6. h = [i \in 0 .. m |-> IF i = 0 THEN 1 ELSE 5 * h[i - 1]]
    BY <2>4, <2>5
  <2> HIDE DEF h
  <2>7. FivesUpto(h, m)
    BY <2>6 DEF FivesUpto
  <2> QED
    BY <2>1, <2>7
<1> QED
  BY <1>2

(* which the definition therefore satisfies,                               *)
LEMMA FivesUnfold ==
  /\ Fives[0] = 1
  /\ \A n \in 1 .. MaxEvents : Fives[n] = 5 * Fives[n - 1]
<1>1. MaxEvents \in Nat
  BY AggregatorAssumption
<1>2. Fives = [n \in 0 .. MaxEvents |-> IF n = 0 THEN 1 ELSE 5 * Fives[n - 1]]
  BY <1>1, FivesExist DEF Fives, FivesUpto
<1>3. 0 \in 0 .. MaxEvents /\ \A n \in 1 .. MaxEvents : n \in 0 .. MaxEvents /\ n # 0
  BY <1>1
<1> QED
  BY <1>2, <1>3

(* and its values are positive.                                            *)
LEMMA FivesNat == \A n \in 0 .. MaxEvents : Fives[n] \in Nat \ {0}
<1> DEFINE Bad == {n \in 0 .. MaxEvents : Fives[n] \notin Nat \ {0}}
<1>1. ASSUME Bad # {} PROVE FALSE
  <2>0. Bad \subseteq Nat
    BY AggregatorAssumption
  <2>1. PICK m \in Bad : \A k \in Bad : m <= k
    <3> HIDE DEF Bad
    <3> QED
      BY <1>1, <2>0, LeastElement
  <2>2. m # 0
    BY FivesUnfold
  <2>3. m \in 1 .. MaxEvents /\ m - 1 \in 0 .. MaxEvents /\ m - 1 \notin Bad
    BY <2>1, <2>2, AggregatorAssumption
  <2>4. Fives[m - 1] \in Nat \ {0} /\ Fives[m] = 5 * Fives[m - 1]
    BY <2>3, FivesUnfold
  <2>5. \A v \in Nat \ {0} : 5 * v \in Nat \ {0}
    OBVIOUS
  <2> QED
    BY <2>4, <2>5
<1> QED
  BY <1>1

(* A division without a remainder.                                         *)
LEMMA DivisionExact ==
  ASSUME NEW v \in Nat, NEW d \in Nat \ {0}, v % d = 0
  PROVE  \E q \in Nat : v = q * d
<1>1. ASSUME NEW q, q = v \div d, NEW r, r = v % d PROVE v = d * q + r
  BY <1>1, SMT
<1>2. PICK q \in Nat : q = v \div d
  BY QuotientNat
<1>3. v = d * q + 0
  BY <1>1, <1>2
<1>4. v = q * d
  BY <1>2, <1>3
<1> QED
  BY <1>4

(* A number is a multiple of another.                                      *)
Multiple(v, d) == \E q \in Nat : v = q * d

(* Every power of 5 divides the scale.                                     *)
LEMMA ScaleMultiple == \A n \in 0 .. MaxEvents : Multiple(Scale, Fives[n])
<1> DEFINE Bad == {n \in 0 .. MaxEvents : ~ Multiple(Scale, Fives[MaxEvents - n])}
<1>0. MaxEvents \in Nat /\ Scale \in Nat
  BY AggregatorAssumption
<1>1. ASSUME Bad # {} PROVE FALSE
  <2>0. Bad \subseteq Nat
    BY <1>0
  <2>1. PICK m \in Bad : \A k \in Bad : m <= k
    <3> HIDE DEF Bad
    <3> QED
      BY <1>1, <2>0, LeastElement
  <2>2. CASE m = 0
    <3> DEFINE d == Fives[MaxEvents]
    <3>1. MaxEvents \in 0 .. MaxEvents
      BY <1>0
    <3>2. d \in Nat \ {0} /\ Scale % d = 0
      BY <3>1, FivesNat, AggregatorAssumption
    <3> HIDE DEF d
    <3>3. PICK q \in Nat : Scale = q * d
      BY <1>0, <3>2, DivisionExact
    <3>6. Multiple(Scale, Fives[MaxEvents])
      BY <3>3 DEF Multiple, d
    <3>7. MaxEvents - m = MaxEvents
      BY <1>0, <2>2
    <3> QED
      BY <2>1, <3>6, <3>7
  <2>3. CASE m # 0
    <3>1. m - 1 \in 0 .. MaxEvents /\ m - 1 \notin Bad
      BY <1>0, <2>1, <2>3
    <3> DEFINE j == MaxEvents - m
    <3>2. j \in 0 .. MaxEvents /\ MaxEvents - (m - 1) = j + 1 /\ j + 1 \in 1 .. MaxEvents
          /\ j + 1 - 1 = j
      BY <1>0, <2>1, <2>3
    <3>3. Multiple(Scale, Fives[j + 1]) /\ Fives[j + 1] = 5 * Fives[j]
      BY <3>1, <3>2, FivesUnfold
    <3>4. PICK q \in Nat : Scale = q * (5 * Fives[j])
      BY <3>3 DEF Multiple
    <3>5. Fives[j] \in Nat
      BY <3>2, FivesNat
    <3> DEFINE d == Fives[j]
    <3>6. Scale = (5 * q) * d
      <4>1. d \in Nat /\ Scale = q * (5 * d)
        BY <3>4, <3>5
      <4> HIDE DEF d
      <4> QED
        BY <4>1, Z3
    <3>7. 5 * q \in Nat
      OBVIOUS
    <3>8. Multiple(Scale, Fives[j])
      BY <3>6, <3>7 DEF Multiple
    <3> QED
      BY <2>1, <3>8
  <2> QED
    BY <2>2, <2>3
<1>2. ASSUME NEW n \in 0 .. MaxEvents
      PROVE  MaxEvents - n \in 0 .. MaxEvents /\ MaxEvents - (MaxEvents - n) = n
  BY <1>0
<1>3. \A n \in 0 .. MaxEvents : n \notin Bad
  BY <1>1
<1> QED
  BY <1>2, <1>3

(* What 5 * d divides, d divides.                                          *)
LEMMA MultipleOfFive ==
  ASSUME NEW v, NEW d \in Nat, Multiple(v, 5 * d)
  PROVE  Multiple(v, d)
<1>1. PICK q \in Nat : v = q * (5 * d)
  BY DEF Multiple
<1>2. v = (5 * q) * d
  BY <1>1, Z3
<1>3. 5 * q \in Nat
  OBVIOUS
<1> QED
  BY <1>2, <1>3 DEF Multiple

(* A multiple times a number is a multiple.                                *)
LEMMA MultipleTimes ==
  ASSUME NEW v, NEW d \in Nat, NEW n \in Nat, Multiple(v, d)
  PROVE  Multiple(n * v, d)
<1>1. PICK q \in Nat : v = q * d
  BY DEF Multiple
<1>2. n * v = (n * q) * d
  BY <1>1, Z3
<1>3. n * q \in Nat
  BY ProductNat
<1> QED
  BY <1>2, <1>3 DEF Multiple

(* An average of multiples of 5 is exact.                                  *)
LEMMA SmoothExact ==
  ASSUME NEW old, NEW new, NEW d \in Nat, Multiple(old, 5 * d), Multiple(new, 5 * d)
  PROVE  /\ 5 * Smooth(old, new) = 4 * old + new
         /\ Multiple(Smooth(old, new), d)
<1>1. PICK p \in Nat : old = p * (5 * d)
  BY DEF Multiple
<1>2. PICK q \in Nat : new = q * (5 * d)
  BY DEF Multiple
<1> DEFINE a == p * d
           b == q * d
<1>3. a \in Nat /\ b \in Nat
  BY ProductNat
<1>4. old = 5 * a /\ new = 5 * b
  BY <1>1, <1>2, Z3
<1>5. (4 * p + q) * d = 4 * a + b
  BY Z3
<1> HIDE DEF a, b
<1>6. Smooth(old, new) = 4 * a + b
  <2>1. Smooth(old, new) = (4 * (5 * a) + 5 * b) \div 5
    BY <1>4 DEF Smooth
  <2> QED
    BY <1>3, <2>1
<1>7. 4 * p + q \in Nat
  OBVIOUS
<1>8. Multiple(Smooth(old, new), d)
  BY <1>5, <1>6, <1>7 DEF Multiple
<1>9. 5 * Smooth(old, new) = 4 * old + new
  BY <1>3, <1>4, <1>6
<1> QED
  BY <1>8, <1>9

(* The energy of a state is its power over the window; its averages are    *)
(* multiples of d.                                                         *)
Powered(s) == s.joules = Window * (s.cpu + s.dram + s.gpu)

Divided(s, d) ==
  Multiple(s.cpu, d) /\ Multiple(s.dram, d) /\ Multiple(s.gpu, d) /\ Multiple(s.joules, d)

(* No average has lost a remainder: the powers of 5 that divide it are at  *)
(* least as many as the events that may still come.                        *)
ExactInv ==
  \A k \in DOMAIN states :
    Powered(states[k]) /\ Divided(states[k], Fives[MaxEvents - Len(log)])

(* A single window is exact,                                               *)
LEMMA WindowDivided ==
  ASSUME NEW e \in Events, NEW d \in Nat, Multiple(Scale, d)
  PROVE  /\ Multiple(e.cpu * Scale, d) /\ Multiple(e.dram * Scale, d)
         /\ Multiple(e.gpu * Scale, d) /\ Multiple(Joules(e) * Scale, d)
         /\ Joules(e) * Scale = Window * (e.cpu * Scale + e.dram * Scale + e.gpu * Scale)
<1>1. /\ e.cpu \in Nat /\ e.dram \in Nat /\ e.gpu \in Nat /\ Joules(e) \in Nat
  BY EventTypes DEF Event
<1>2. Window \in Nat /\ Scale \in Nat
  BY AggregatorAssumption
<1>3. /\ Multiple(e.cpu * Scale, d) /\ Multiple(e.dram * Scale, d)
      /\ Multiple(e.gpu * Scale, d) /\ Multiple(Joules(e) * Scale, d)
  BY <1>1, MultipleTimes
<1>4. \A c, r, g, w, s \in Nat : (c + r + g) * w * s = w * (c * s + r * s + g * s)
  BY Z3
<1>5. Joules(e) * Scale = Window * (e.cpu * Scale + e.dram * Scale + e.gpu * Scale)
  BY <1>1, <1>2, <1>4 DEF Joules
<1> QED
  BY <1>3, <1>5

(* The average of products with the same factor.                           *)
LEMMA AverageOfProducts ==
  ASSUME NEW w \in Nat, NEW t \in Nat, NEW t1 \in Nat, NEW t2 \in Nat, NEW j \in Nat,
         5 * t = 4 * t1 + t2, 5 * j = 4 * (w * t1) + w * t2
  PROVE  j = w * t
<1>1. w * (5 * t) = w * (4 * t1 + t2)
  OBVIOUS
<1>2. w * (5 * t) = 5 * (w * t) /\ w * (4 * t1 + t2) = 4 * (w * t1) + w * t2
  BY Z3
<1>3. w * t \in Nat
  BY ProductNat
<1>4. 5 * j = 5 * (w * t)
  BY <1>1, <1>2
<1> QED
  BY <1>3, <1>4

(* and an exact state averaged with one is exact to one power of 5 less.   *)
LEMMA RenewedExact ==
  ASSUME NEW s \in State, NEW e \in Events, NEW d \in Nat, Multiple(Scale, 5 * d),
         Powered(s), Divided(s, 5 * d)
  PROVE  Powered(NextState(s, e)) /\ Divided(NextState(s, e), d)
<1> DEFINE n == NextState(s, e)
<1>1. /\ n.cpu = Smooth(s.cpu, e.cpu * Scale)
      /\ n.dram = Smooth(s.dram, e.dram * Scale)
      /\ n.gpu = Smooth(s.gpu, e.gpu * Scale)
      /\ n.joules = Smooth(s.joules, Joules(e) * Scale)
  BY NextStateFields
<1>2. 5 * d \in Nat
  OBVIOUS
<1>3. /\ Multiple(e.cpu * Scale, 5 * d) /\ Multiple(e.dram * Scale, 5 * d)
      /\ Multiple(e.gpu * Scale, 5 * d) /\ Multiple(Joules(e) * Scale, 5 * d)
      /\ Joules(e) * Scale = Window * (e.cpu * Scale + e.dram * Scale + e.gpu * Scale)
  BY <1>2, WindowDivided
<1>4. /\ 5 * n.cpu = 4 * s.cpu + e.cpu * Scale /\ Multiple(n.cpu, d)
      /\ 5 * n.dram = 4 * s.dram + e.dram * Scale /\ Multiple(n.dram, d)
      /\ 5 * n.gpu = 4 * s.gpu + e.gpu * Scale /\ Multiple(n.gpu, d)
      /\ 5 * n.joules = 4 * s.joules + Joules(e) * Scale /\ Multiple(n.joules, d)
  BY <1>1, <1>3, SmoothExact DEF Divided
<1>5. n \in State
  BY StatesTyped
<1>6. /\ n.cpu \in Nat /\ n.dram \in Nat /\ n.gpu \in Nat /\ n.joules \in Nat
      /\ s.cpu \in Nat /\ s.dram \in Nat /\ s.gpu \in Nat /\ s.joules \in Nat
  BY <1>5 DEF State
<1>8. Window \in Nat
  BY AggregatorAssumption
<1>9. e.cpu * Scale \in Nat /\ e.dram * Scale \in Nat /\ e.gpu * Scale \in Nat
      /\ Joules(e) * Scale \in Nat
  BY EventTypes, AggregatorAssumption, ProductNat DEF Event
<1>10. s.joules = Window * (s.cpu + s.dram + s.gpu)
  BY DEF Powered
<1> HIDE DEF n
<1>11. n.joules = Window * (n.cpu + n.dram + n.gpu)
  <2>1. PICK c2 \in Nat : c2 = e.cpu * Scale
    BY <1>9
  <2>2. PICK r2 \in Nat : r2 = e.dram * Scale
    BY <1>9
  <2>3. PICK g2 \in Nat : g2 = e.gpu * Scale
    BY <1>9
  <2>4. PICK j2 \in Nat : j2 = Joules(e) * Scale
    BY <1>9
  <2>5. /\ 5 * n.cpu = 4 * s.cpu + c2 /\ 5 * n.dram = 4 * s.dram + r2
        /\ 5 * n.gpu = 4 * s.gpu + g2
    BY <1>4, <2>1, <2>2, <2>3
  <2>6. 5 * n.joules = 4 * s.joules + j2
    BY <1>4, <2>4
  <2>7. s.joules = Window * (s.cpu + s.dram + s.gpu) /\ j2 = Window * (c2 + r2 + g2)
    BY <1>3, <1>10, <2>1, <2>2, <2>3, <2>4
  <2>8. 5 * (n.cpu + n.dram + n.gpu) = 4 * (s.cpu + s.dram + s.gpu) + (c2 + r2 + g2)
    <3>1. PICK c \in Nat, r \in Nat, g \in Nat : c = n.cpu /\ r = n.dram /\ g = n.gpu
      BY <1>6
    <3>2. PICK c1 \in Nat, r1 \in Nat, g1 \in Nat : c1 = s.cpu /\ r1 = s.dram /\ g1 = s.gpu
      BY <1>6
    <3>3. 5 * c = 4 * c1 + c2 /\ 5 * r = 4 * r1 + r2 /\ 5 * g = 4 * g1 + g2
      BY <2>5, <3>1, <3>2
    <3>4. 5 * (c + r + g) = 4 * (c1 + r1 + g1) + (c2 + r2 + g2)
      BY <3>3
    <3> QED
      BY <3>1, <3>2, <3>4
  <2>9. PICK t \in Nat : t = n.cpu + n.dram + n.gpu
    BY <1>6
  <2>10. PICK t1 \in Nat : t1 = s.cpu + s.dram + s.gpu
    BY <1>6
  <2>11. PICK t2 \in Nat : t2 = c2 + r2 + g2
    OBVIOUS
  <2>12. 5 * t = 4 * t1 + t2
    BY <2>8, <2>9, <2>10, <2>11
  <2>13. 5 * n.joules = 4 * (Window * t1) + Window * t2
    BY <2>6, <2>7, <2>10, <2>11
  <2>14. n.joules = Window * t
    BY <1>6, <1>8, <2>12, <2>13, AverageOfProducts
  <2> QED
    BY <2>9, <2>14
<1>12. Powered(n) /\ Divided(n, d)
  BY <1>4, <1>11 DEF Powered, Divided
<1> QED
  BY <1>12 DEF n

(* AddEvent keeps the states exact.                                        *)
LEMMA ExactKept ==
  ASSUME log \in Seq(Events), Keyed(states), ExactInv, NEW e \in Events, AddEvent(e)
  PROVE  ExactInv'
<1> DEFINE n == MaxEvents - Len(log) - 1
           d == Fives[n]
<1>1. /\ DOMAIN states' = DOMAIN states \cup {Key(e)}
      /\ states'[Key(e)] = Renewed(e)
      /\ \A j \in DOMAIN states \ {Key(e)} : states'[j] = states[j]
  BY AddEventStates
<1>2. Len(log') = Len(log) + 1 /\ Len(log) < MaxEvents /\ Len(log) \in Nat
  BY AddEventLog
<1>3. /\ n \in 0 .. MaxEvents /\ n + 1 \in 1 .. MaxEvents /\ n + 1 \in 0 .. MaxEvents
      /\ n + 1 - 1 = n
      /\ MaxEvents - Len(log) = n + 1 /\ MaxEvents - Len(log') = n
  BY <1>2, AggregatorAssumption
<1> HIDE DEF n
<1>4. d \in Nat /\ Fives[n + 1] = 5 * d
  BY <1>3, FivesNat, FivesUnfold
<1>5. Multiple(Scale, d) /\ Multiple(Scale, 5 * d)
  BY <1>3, <1>4, ScaleMultiple
<1>6. \A j \in DOMAIN states : Powered(states[j]) /\ Divided(states[j], 5 * d)
  BY <1>3, <1>4 DEF ExactInv
<1> HIDE DEF d
<1>7. ASSUME NEW j \in DOMAIN states'
      PROVE  Powered(states'[j]) /\ Divided(states'[j], d)
  <2>1. CASE j # Key(e)
    <3>1. j \in DOMAIN states /\ states'[j] = states[j]
      BY <1>1, <2>1
    <3>2. Divided(states[j], d)
      BY <1>4, <1>6, <3>1, MultipleOfFive DEF Divided
    <3> QED
      BY <1>6, <3>1, <3>2
  <2>2. CASE j = Key(e) /\ j \in DOMAIN states
    <3>1. states'[j] = NextState(states[j], e) /\ states[j] \in State
      BY <1>1, <2>2 DEF Renewed, Keyed
    <3> QED
      BY <1>4, <1>5, <1>6, <2>2, <3>1, RenewedExact
  <2>3. CASE j = Key(e) /\ j \notin DOMAIN states
    <3>1. states'[j] = FirstState(e)
      BY <1>1, <2>3 DEF Renewed
    <3>2. LET f == FirstState(e)
          IN /\ f.cpu = e.cpu * Scale /\ f.dram = e.dram * Scale
             /\ f.gpu = e.gpu * Scale /\ f.joules = Joules(e) * Scale
      BY DEF FirstState
    <3> QED
      BY <1>4, <1>5, <3>1, <3>2, WindowDivided DEF Powered, Divided
  <2> QED
    BY <2>1, <2>2, <2>3
<1>8. d = Fives[MaxEvents - Len(log')]
  BY <1>3 DEF d
<1> QED
  BY <1>7, <1>8 DEF ExactInv, Powered, Divided, Multiple

------------------------------------------------------------------------------
(* Rounding.                                                               *)

(* Half of a number.                                                       *)
LEMMA HalfNat ==
  \A v \in Nat :
    v \div 2 \in Nat /\ 2 * (v \div 2) <= v /\ v <= 2 * (v \div 2) + 1
  OBVIOUS

(* Rounding moves a value by half a grain at most.                         *)
LEMMA RoundNear ==
  ASSUME NEW v \in Nat
  PROVE  /\ Round(v) \in Nat
         /\ -Grain <= 2 * Round(v) - 2 * v
         /\ 2 * Round(v) - 2 * v <= Grain
<1>1. Grain \in Nat \ {0}
  BY AggregatorAssumption
<1>2. PICK h \in Nat : h = Grain \div 2
  BY <1>1, HalfNat
<1>3. 2 * h <= Grain /\ Grain <= 2 * h + 1
  BY <1>1, <1>2, HalfNat
<1>4. PICK w \in Nat : w = v + h
  OBVIOUS
<1>5. PICK q \in Nat : q = w \div Grain
  BY <1>1, QuotientNat
<1>6. PICK r \in 0 .. Grain - 1 : r = w % Grain
  BY <1>1
<1>7. w = Grain * q + r
  BY <1>1, <1>5, <1>6, SMT
<1>8. Round(v) = q * Grain
  BY <1>2, <1>4, <1>5 DEF Round
<1>9. PICK p \in Nat : p = q * Grain
  BY <1>1, ProductNat
<1>10. q * Grain = Grain * q
  BY <1>1
<1>11. v + h = p + r
  BY <1>4, <1>7, <1>9, <1>10
<1>12. -Grain <= 2 * p - 2 * v /\ 2 * p - 2 * v <= Grain
  BY <1>1, <1>3, <1>6, <1>11
<1> QED
  BY <1>8, <1>9, <1>12

(* A rounded value is a number.                                            *)
LEMMA RoundNat == \A v \in Nat : Round(v) \in Nat
  BY RoundNear

(* A product lies between the products of the bounds.                      *)
LEMMA ProductBetween ==
  ASSUME NEW w \in Nat, NEW a \in Nat, NEW x \in Int, -a <= x, x <= a
  PROVE  -(w * a) <= w * x /\ w * x <= w * a
<1>1. a - x \in Nat /\ a + x \in Nat
  OBVIOUS
<1>2. w * (a - x) \in Nat /\ w * (a + x) \in Nat
  BY <1>1, ProductNat
<1>3. w * (a - x) = w * a - w * x /\ w * (a + x) = w * a + w * x
  BY Z3
<1>4. w * a \in Int /\ w * x \in Int
  OBVIOUS
<1>5. 0 <= w * a - w * x /\ 0 <= w * a + w * x
  BY <1>2, <1>3
<1> QED
  BY <1>4, <1>5

(* Energy and power that agree differ after rounding by what rounding      *)
(* explains.                                                               *)
LEMMA RoundedGap ==
  ASSUME NEW w \in Nat, NEW G \in Nat, NEW j \in Nat, NEW t \in Nat, j = w * t,
         NEW J \in Nat, NEW T \in Nat,
         -G <= 2 * J - 2 * j, 2 * J - 2 * j <= G,
         -(3 * G) <= 2 * T - 2 * t, 2 * T - 2 * t <= 3 * G
  PROVE  2 * (J - w * T) \in -G * (1 + 3 * w) .. G * (1 + 3 * w)
<1> DEFINE x == 2 * T - 2 * t
<1>1. x \in Int /\ x = 2 * T - 2 * t
  OBVIOUS
<1>2. PICK a \in Nat : a = 3 * G
  OBVIOUS
<1>12. -a <= x /\ x <= a
  BY <1>2
<1> HIDE DEF x
<1>3. -(w * a) <= w * x /\ w * x <= w * a
  BY <1>12, <1>1, <1>2, ProductBetween
<1>4. w * x = 2 * (w * T) - 2 * (w * t) /\ w * a = 3 * (w * G)
  BY <1>1, <1>2, Z3
<1>5. PICK wT \in Nat, wG \in Nat : wT = w * T /\ wG = w * G
  BY ProductNat
<1>6. -(3 * wG) <= 2 * wT - 2 * j /\ 2 * wT - 2 * j <= 3 * wG
  BY <1>3, <1>4, <1>5
<1>7. -(G + 3 * wG) <= 2 * (J - wT) /\ 2 * (J - wT) <= G + 3 * wG
  BY <1>6
<1>8. G * (1 + 3 * w) = G + 3 * wG
  BY <1>5, Z3
<1>9. 2 * (J - w * T) = 2 * (J - wT)
  BY <1>5
<1>10. 2 * (J - w * T) \in -(G + 3 * wG) .. G + 3 * wG
  BY <1>7, <1>9
<1>11. -G * (1 + 3 * w) = -(G + 3 * wG)
  BY <1>8, <1>5
<1> QED
  BY <1>8, <1>10, <1>11

(* Three rounded values together.                                          *)
LEMMA ThreeRounded ==
  ASSUME NEW G \in Nat, NEW a \in Nat, NEW b \in Nat, NEW c \in Nat,
         NEW A \in Nat, NEW B \in Nat, NEW C \in Nat,
         -G <= 2 * A - 2 * a, 2 * A - 2 * a <= G,
         -G <= 2 * B - 2 * b, 2 * B - 2 * b <= G,
         -G <= 2 * C - 2 * c, 2 * C - 2 * c <= G
  PROVE  /\ -(3 * G) <= 2 * (A + B + C) - 2 * (a + b + c)
         /\ 2 * (A + B + C) - 2 * (a + b + c) <= 3 * G
  OBVIOUS

(* The rounded energy of a state and its rounded power over the window.    *)
LEMMA EnergyNearPower ==
  ASSUME NEW s \in State, Powered(s)
  PROVE  2 * (Round(s.joules) - Window * (Round(s.cpu) + Round(s.dram) + Round(s.gpu)))
           \in -Grain * (1 + 3 * Window) .. Grain * (1 + 3 * Window)
<1>1. PICK G \in Nat : G = Grain
  BY AggregatorAssumption
<1>2. PICK a \in Nat, b \in Nat, c \in Nat, j \in Nat :
        a = s.cpu /\ b = s.dram /\ c = s.gpu /\ j = s.joules
  BY DEF State
<1>3. PICK A \in Nat, B \in Nat, C \in Nat, J \in Nat :
        A = Round(a) /\ B = Round(b) /\ C = Round(c) /\ J = Round(j)
  BY RoundNat
<1>4. /\ -G <= 2 * A - 2 * a /\ 2 * A - 2 * a <= G
      /\ -G <= 2 * B - 2 * b /\ 2 * B - 2 * b <= G
      /\ -G <= 2 * C - 2 * c /\ 2 * C - 2 * c <= G
      /\ -G <= 2 * J - 2 * j /\ 2 * J - 2 * j <= G
  BY <1>1, <1>3, RoundNear
<1>5. /\ -(3 * G) <= 2 * (A + B + C) - 2 * (a + b + c)
      /\ 2 * (A + B + C) - 2 * (a + b + c) <= 3 * G
  BY <1>4, ThreeRounded
<1>6. PICK t \in Nat, T \in Nat : t = a + b + c /\ T = A + B + C
  OBVIOUS
<1>7. Window \in Nat /\ j = Window * t
  BY <1>2, <1>6, AggregatorAssumption DEF Powered
<1>8. -(3 * G) <= 2 * T - 2 * t /\ 2 * T - 2 * t <= 3 * G
  BY <1>5, <1>6
<1>9. 2 * (J - Window * T) \in -G * (1 + 3 * Window) .. G * (1 + 3 * Window)
  BY <1>4, <1>7, <1>8, RoundedGap
<1> QED
  BY <1>1, <1>2, <1>3, <1>6, <1>9

------------------------------------------------------------------------------
(* Pages.                                                                  *)

(* The six metrics, by name and by place.                                  *)
LEMMA MetricsSix ==
  /\ Len(Metrics) = 6
  /\ ToSet(Metrics) = {"watts_cpu", "watts_dram", "watts_gpu", "tokens_total",
                       "cost_per_token", "joules_per_request"}
  /\ ToSet(Metrics) = {Metrics[r + 1] : r \in 0 .. 5}
<1>1. Len(Metrics) = 6 /\ DOMAIN Metrics = 1 .. 6
  BY DEF Metrics
<1>2. ToSet(Metrics) = {Metrics[r + 1] : r \in 0 .. 5}
  <2>1. \A r \in 0 .. 5 : r + 1 \in 1 .. 6
    OBVIOUS
  <2>2. \A i \in 1 .. 6 : i - 1 \in 0 .. 5 /\ i - 1 + 1 = i
    OBVIOUS
  <2> QED
    BY <1>1, <2>1, <2>2 DEF ToSet
<1>3. ToSet(Metrics) = {Metrics[1], Metrics[2], Metrics[3], Metrics[4], Metrics[5],
                        Metrics[6]}
  <2>1. 1 .. 6 = {1, 2, 3, 4, 5, 6}
    OBVIOUS
  <2> QED
    BY <1>1, <2>1 DEF ToSet
<1>4. /\ Metrics[1] = "watts_cpu" /\ Metrics[2] = "watts_dram" /\ Metrics[3] = "watts_gpu"
      /\ Metrics[4] = "tokens_total" /\ Metrics[5] = "cost_per_token"
      /\ Metrics[6] = "joules_per_request"
  BY DEF Metrics
<1> QED
  BY <1>1, <1>2, <1>3, <1>4

(* A metric of a state is a number.                                        *)
LEMMA ValueNat == \A s \in State, metric \in ToSet(Metrics) : ValueOf(s, metric) \in Nat
<1> SUFFICES ASSUME NEW s \in State, NEW metric \in ToSet(Metrics)
             PROVE  ValueOf(s, metric) \in Nat
  OBVIOUS
<1>1. /\ s.cpu \in Nat /\ s.dram \in Nat /\ s.gpu \in Nat /\ s.joules \in Nat
      /\ s.cost \in Nat /\ s.tokens \in Nat
  BY DEF State
<1>2. /\ Round(s.cpu) \in Nat /\ Round(s.dram) \in Nat /\ Round(s.gpu) \in Nat
      /\ Round(s.joules) \in Nat /\ Round(s.cost) \in Nat
  BY <1>1, RoundNat
<1> QED
  BY <1>1, <1>2, MetricsSix DEF ValueOf

(* The order of a map iteration visits every key.                          *)
LEMMA OrderVisits ==
  ASSUME NEW S, IsFiniteSet(S), NEW order \in SetToSeqs(S)
  PROVE  order \in Seq(S) /\ ToSet(order) = S
<1> DEFINE D == 1 .. Cardinality(S)
<1>1. Cardinality(S) \in Nat
  BY FS_CardinalityType
<1>2. order \in [D -> S] /\ \A i, j \in D : i # j => order[i] # order[j]
  BY DEF SetToSeqs
<1>3. IsFiniteSet(D) /\ Cardinality(D) = Cardinality(S)
  BY <1>1, FS_Interval
<1>4. order \in Injection(D, S)
  BY <1>2 DEF Injection, IsInjective
<1>5. order \in Surjection(D, S)
  <2> HIDE DEF D
  <2> QED
    BY <1>3, <1>4, FS_Injection
<1>6. ToSet(order) = S
  BY <1>2, <1>5 DEF Surjection, ToSet
<1> QED
  BY <1>1, <1>2, <1>6

(* What a scrape of the states c sends for one of them, and altogether.    *)
Sent(c, k, metric) ==
  [series |-> Series(c[k]), metric |-> metric, value |-> ValueOf(c[k], metric)]

PageOf(c) == {Sent(c, k, metric) : k \in DOMAIN c, metric \in ToSet(Metrics)}

(* No total of c is above that of d.                                       *)
Below(c, d) == \A k \in DOMAIN c : k \in DOMAIN d /\ c[k].tokens <= d[k].tokens

(* States as the aggregator has them at one instant.                       *)
Snapshot(c, l) ==
  /\ Keyed(c)
  /\ \A k \in DOMAIN c : Powered(c[k])
  /\ \E n \in 0 .. Len(l) : LogTokens(l, n) = TokensOfStates(c)

(* What is on a page is well formed.                                       *)
LEMMA PageTyped ==
  ASSUME NEW c, Keyed(c), NEW m \in PageOf(c)
  PROVE  m.metric \in ToSet(Metrics) /\ m.value \in Nat
<1>1. PICK k \in DOMAIN c, metric \in ToSet(Metrics) : m = Sent(c, k, metric)
  BY DEF PageOf
<1>2. ValueOf(c[k], metric) \in Nat
  BY ValueNat DEF Keyed
<1> QED
  BY <1>1, <1>2 DEF Sent

(* A page has one value for a series and a metric.                         *)
LEMMA PageFunctional ==
  ASSUME NEW c, Keyed(c), NEW k \in DOMAIN c, NEW m \in PageOf(c), m.series = Series(c[k])
  PROVE  m.value = ValueOf(c[k], m.metric)
<1>1. PICK j \in DOMAIN c, metric \in ToSet(Metrics) : m = Sent(c, j, metric)
  BY DEF PageOf
<1>2. m.series = Series(c[j]) /\ m.metric = metric /\ m.value = ValueOf(c[j], metric)
  BY <1>1 DEF Sent
<1>3. c[j] \in State /\ c[k] \in State /\ Key(c[j]) = j /\ Key(c[k]) = k
  BY DEF Keyed
<1>4. j = k
  BY <1>2, <1>3, SeriesKey
<1> QED
  BY <1>2, <1>4

(* Where totals have only grown, no series of the page has fallen.         *)
LEMMA PageNeverFalls ==
  ASSUME NEW c, NEW d, Keyed(c), Keyed(d), Below(c, d),
         NEW m \in PageOf(c), NEW n \in PageOf(d),
         m.series = n.series, m.metric = "tokens_total", n.metric = m.metric
  PROVE  n.value >= m.value
<1>1. PICK j \in DOMAIN c, metric \in ToSet(Metrics) : m = Sent(c, j, metric)
  BY DEF PageOf
<1>2. m.series = Series(c[j]) /\ m.value = c[j].tokens
  BY <1>1 DEF Sent, ValueOf
<1>3. PICK k \in DOMAIN d, other \in ToSet(Metrics) : n = Sent(d, k, other)
  BY DEF PageOf
<1>4. n.series = Series(d[k]) /\ n.value = d[k].tokens
  BY <1>3 DEF Sent, ValueOf
<1>5. c[j] \in State /\ d[k] \in State /\ Key(c[j]) = j /\ Key(d[k]) = k
  BY DEF Keyed
<1>6. j = k
  BY <1>2, <1>4, <1>5, SeriesKey
<1>7. c[j].tokens <= d[j].tokens /\ c[j].tokens \in Nat /\ d[k].tokens \in Nat
  BY <1>5 DEF Below, State
<1> QED
  BY <1>2, <1>4, <1>6, <1>7

(* The totals of a page add up to those of its states.                     *)
LEMMA PageTotal ==
  ASSUME NEW c, Keyed(c)
  PROVE  LET totals == {m \in PageOf(c) : m.metric = "tokens_total"}
         IN  SumFunction([m \in totals |-> m.value]) = TokensOfStates(c)
<1> DEFINE totals == {m \in PageOf(c) : m.metric = "tokens_total"}
           D == DOMAIN c
           f == [k \in D |-> c[k].tokens]
           g == [m \in totals |-> m.value]
           h == [m \in totals |-> <<m.series[3]>> \o m.series[1] \o m.series[2]]
           Total(k) == Sent(c, k, "tokens_total")
<1>1. ASSUME NEW k \in D
      PROVE  /\ Total(k) \in totals /\ h[Total(k)] = k
             /\ g[Total(k)] = f[k] /\ f[k] \in Int
  <2>1. Total(k) \in totals
    <3>1. "tokens_total" \in ToSet(Metrics)
      BY MetricsSix
    <3> QED
      BY <3>1 DEF PageOf, Sent
  <2>2. c[k] \in State /\ Key(c[k]) = k
    BY DEF Keyed
  <2>3. Total(k).value = c[k].tokens /\ Total(k).series = Series(c[k])
    BY DEF Sent, ValueOf
  <2>4. h[Total(k)] = Key(c[k])
    <3> HIDE DEF totals
    <3>1. h[Total(k)] = <<Series(c[k])[3]>> \o Series(c[k])[1] \o Series(c[k])[2]
      BY <2>1, <2>3
    <3>2. /\ Series(c[k])[3] = c[k].pid /\ Series(c[k])[1] = c[k].workload
          /\ Series(c[k])[2] = c[k].model
      BY DEF Series
    <3> QED
      BY <3>1, <3>2 DEF Key
  <2>5. c[k].tokens \in Int
    BY <2>2 DEF State
  <2> HIDE DEF totals
  <2>6. g[Total(k)] = Total(k).value
    BY <2>1
  <2> QED
    BY <2>1, <2>2, <2>3, <2>4, <2>5, <2>6
<1>2. ASSUME NEW m \in totals PROVE \E k \in D : m = Total(k)
  <2>1. PICK k \in D, metric \in ToSet(Metrics) : m = Sent(c, k, metric)
    BY DEF PageOf
  <2> QED
    BY <2>1 DEF Sent
<1>3. IsFiniteSet(D)
  BY DEF Keyed
<1>4. IsFiniteSet(totals)
  <2> DEFINE t == [k \in D |-> Total(k)]
  <2>1. totals = {t[k] : k \in D}
    BY <1>1, <1>2
  <2> HIDE DEF t, totals, D
  <2> QED
    BY <1>3, <2>1, ImageFinite
<1>5. DOMAIN f = D /\ DOMAIN g = totals
  OBVIOUS
<1>6. h = [m \in totals |-> h[m]]
  OBVIOUS
<1> HIDE DEF D, f, g, h, totals, Total
<1>7. \A m \in totals : h[m] \in D /\ m = Total(h[m]) /\ g[m] = f[h[m]]
  BY <1>1, <1>2
<1>8. h \in [totals -> D]
  BY <1>6, <1>7
<1>9. \A m, n \in totals : h[m] = h[n] => m = n
  BY <1>7
<1>10. SumFunctionOnSet(g, totals) = SumFunctionOnSet(f, D)
  BY <1>1, <1>3, <1>4, <1>7, <1>8, <1>9, SumRenamed
<1>11. SumFunction(g) = SumFunction(f)
  BY <1>5, <1>10 DEF SumFunction
<1> QED
  BY <1>11 DEF f, g, totals, D, TokensOfStates

------------------------------------------------------------------------------
(* The invariant.                                                          *)

(* What a queue loses with its head.                                       *)
LEMMA TailSet ==
  ASSUME NEW S, NEW s \in Seq(S), s # << >>
  PROVE  ToSet(s) = {Head(s)} \cup ToSet(Tail(s))
<1>1. /\ DOMAIN s = 1 .. Len(s) /\ Len(s) \in Nat \ {0} /\ Head(s) = s[1]
      /\ DOMAIN Tail(s) = 1 .. Len(s) - 1
      /\ \A i \in 1 .. Len(s) - 1 : Tail(s)[i] = s[i + 1]
  OBVIOUS
<1>2. ASSUME NEW i \in 1 .. Len(s)
      PROVE  i = 1 \/ (i - 1 \in 1 .. Len(s) - 1 /\ i - 1 + 1 = i)
  BY <1>1
<1>3. ASSUME NEW i \in 1 .. Len(s) - 1 PROVE i + 1 \in 1 .. Len(s)
  BY <1>1
<1>4. ASSUME NEW i \in 1 .. Len(s) PROVE s[i] \in {Head(s)} \cup ToSet(Tail(s))
  <2>1. CASE i = 1
    BY <1>1, <2>1
  <2>2. CASE i - 1 \in 1 .. Len(s) - 1 /\ i - 1 + 1 = i
    <3>1. Tail(s)[i - 1] = s[i] /\ i - 1 \in DOMAIN Tail(s)
      BY <1>1, <2>2
    <3> QED
      BY <3>1 DEF ToSet
  <2> QED
    BY <1>2, <2>1, <2>2
<1>5. Head(s) \in ToSet(s)
  BY <1>1 DEF ToSet
<1>6. ToSet(Tail(s)) \subseteq ToSet(s)
  BY <1>1, <1>3 DEF ToSet
<1>7. ToSet(s) = {s[i] : i \in 1 .. Len(s)}
  BY <1>1 DEF ToSet
<1> QED
  BY <1>4, <1>5, <1>6, <1>7

(* The memory: the states account for every event of the log.              *)
MemoryInv ==
  /\ log \in Seq(Events) /\ Len(log) <= MaxEvents
  /\ Keyed(states)
  /\ TokensConserved
  /\ ExactInv
  /\ AveragesAmong /\ WindowsKnown

(* The running scrape: its copies are of one instant, and the page has of  *)
(* the copies already rendered every metric, and of the first of the       *)
(* others those sent so far.                                               *)
PageInv ==
  /\ Snapshot(copies, log) /\ Below(copies, states)
  /\ todo \in Seq(DOMAIN copies)
  /\ rendered \in 0 .. 5
  /\ scrapes \in 0 .. MaxScrapes
  /\ page \subseteq PageOf(copies)
  /\ \A k \in DOMAIN copies, r \in 0 .. 5 :
       k \notin ToSet(todo) \/ (k = Head(todo) /\ r < rendered) =>
         Sent(copies, k, Metrics[r + 1]) \in page

(* The finished page is that of an earlier instant.                        *)
ExposedInv ==
  \E c : /\ Snapshot(c, log)
         /\ exposed = PageOf(c)
         /\ Below(c, states)
         /\ ~Idle => Below(c, copies)

(* AddEvent keeps the memory consistent, and instants and bounds of        *)
(* earlier scrapes remain what they were.                                  *)
LEMMA MemoryKept ==
  ASSUME MemoryInv, NEW e \in Events, AddEvent(e)
  PROVE  /\ MemoryInv'
         /\ \A c : Snapshot(c, log) => Snapshot(c, log')
         /\ \A c : Keyed(c) /\ Below(c, states) => Below(c, states')
<1>1. log \in Seq(Events) /\ Keyed(states)
  BY DEF MemoryInv
<1>2. log' \in Seq(Events) /\ Len(log') = Len(log) + 1 /\ Len(log) < MaxEvents
  BY <1>1, AddEventLog
<1>3. /\ \A n \in 0 .. Len(log) : LogTokens(log', n) = LogTokens(log, n)
      /\ LogTokens(log', Len(log')) = LogTokens(log, Len(log)) + e.tokens
  BY <1>1, LogTokensAppend
<1>4. Keyed(states')
  BY <1>1, AddEventStates
<1>5. TokensConserved'
  <2>1. TokensOfStates(states) = LogTokens(log, Len(log))
    BY DEF MemoryInv, TokensConserved, TokensOfLog, LogTokens
  <2>2. TokensOfStates(states') = LogTokens(log', Len(log'))
    BY <1>1, <1>3, <2>1, StatesTokensAdd
  <2> QED
    BY <2>2 DEF TokensConserved, TokensOfLog, LogTokens, TokensOfStates
<1>6. ExactInv'
  BY <1>1, ExactKept DEF MemoryInv
<1>7. AveragesAmong' /\ WindowsKnown'
  BY <1>1, AveragesKeep DEF MemoryInv
<1>8. Len(log') <= MaxEvents
  BY <1>1, <1>2, AggregatorAssumption
<1>9. MemoryInv'
  BY <1>2, <1>4, <1>5, <1>6, <1>7, <1>8 DEF MemoryInv, Keyed, Key, State
<1>10. ASSUME NEW c, Snapshot(c, log) PROVE Snapshot(c, log')
  <2>1. PICK n \in 0 .. Len(log) : LogTokens(log, n) = TokensOfStates(c)
    BY <1>10 DEF Snapshot
  <2>2. n \in 0 .. Len(log') /\ LogTokens(log', n) = TokensOfStates(c)
    BY <1>1, <1>2, <1>3, <2>1
  <2> QED
    BY <1>10, <2>2 DEF Snapshot
<1>11. ASSUME NEW c, Keyed(c), Below(c, states) PROVE Below(c, states')
  <2>1. /\ DOMAIN states' = DOMAIN states \cup {Key(e)}
        /\ states'[Key(e)] = Renewed(e)
        /\ \A j \in DOMAIN states \ {Key(e)} : states'[j] = states[j]
    BY <1>1, AddEventStates
  <2>2. ASSUME NEW k \in DOMAIN c
        PROVE  k \in DOMAIN states' /\ c[k].tokens <= states'[k].tokens
    <3>1. k \in DOMAIN states /\ c[k].tokens <= states[k].tokens
      BY <1>11 DEF Below
    <3>2. CASE k # Key(e)
      BY <2>1, <3>1, <3>2
    <3>3. CASE k = Key(e)
      <4>1. states[k] \in State /\ c[k] \in State /\ e.tokens \in Nat
        BY <1>1, <1>11, <3>1, EventTypes DEF Keyed, Event
      <4>3. states[k].tokens \in Nat /\ c[k].tokens \in Nat
        BY <4>1 DEF State
      <4>2. states'[k].tokens = states[k].tokens + e.tokens
        BY <2>1, <3>1, <3>3, <4>1, NextStateFields DEF Renewed
      <4>4. \A x, y, z \in Nat : x <= y => x <= y + z
        OBVIOUS
      <4>5. c[k].tokens <= states[k].tokens + e.tokens
        BY <3>1, <4>1, <4>3, <4>4, Zenon
      <4> QED
        BY <2>1, <3>1, <3>3, <4>2, <4>5
    <3> QED
      BY <3>2, <3>3
  <2> QED
    BY <2>2 DEF Below
<1> QED
  BY <1>9, <1>10, <1>11

(* Totals are not above themselves.                                        *)
LEMMA BelowItself == \A c : Keyed(c) => Below(c, c)
<1> SUFFICES ASSUME NEW c, Keyed(c), NEW k \in DOMAIN c PROVE c[k].tokens <= c[k].tokens
  BY DEF Below
<1>1. c[k].tokens \in Nat
  BY DEF Keyed, State
<1> QED
  BY <1>1

(* A scrape starts with the copies of this instant.                        *)
LEMMA ScrapeStarts ==
  ASSUME MemoryInv, PageInv, ExposedInv, StartScrape
  PROVE  PageInv' /\ ExposedInv'
<1>1. /\ copies' = states /\ states' = states /\ log' = log
      /\ page' = {} /\ exposed' = exposed
      /\ rendered' = 0 /\ scrapes' = scrapes + 1 /\ scrapes < MaxScrapes
      /\ todo' \in SetToSeqs(DOMAIN states)
  BY DEF StartScrape
<1>2. Snapshot(states, log)
  <2>1. Len(log) \in 0 .. Len(log)
    BY DEF MemoryInv
  <2>2. LogTokens(log, Len(log)) = TokensOfStates(states)
    BY DEF MemoryInv, TokensConserved, TokensOfLog, LogTokens
  <2> QED
    BY <2>1, <2>2 DEF MemoryInv, ExactInv, Snapshot
<1>3. Below(states, states)
  BY BelowItself DEF MemoryInv
<1>4. todo' \in Seq(DOMAIN states) /\ ToSet(todo') = DOMAIN states
  BY <1>1, OrderVisits DEF MemoryInv, Keyed
<1>5. scrapes' \in 0 .. MaxScrapes /\ 0 \in 0 .. 5
  BY <1>1, AggregatorAssumption DEF PageInv
<1>6. \A r \in 0 .. 5 : ~(r < 0)
  OBVIOUS
<1>7. PageInv'
  BY <1>1, <1>2, <1>3, <1>4, <1>5, <1>6 DEF PageInv
<1>8. PICK c : Snapshot(c, log) /\ exposed = PageOf(c) /\ Below(c, states)
  BY DEF ExposedInv
<1>9. Snapshot(c, log') /\ exposed' = PageOf(c) /\ Below(c, states') /\ Below(c, copies')
  BY <1>1, <1>8
<1>10. ExposedInv'
  BY <1>9 DEF ExposedInv
<1> QED
  BY <1>7, <1>10

(* A metric sent: what the page and the finished page become.              *)
LEMMA MetricSent ==
  ASSUME PageInv, ExposedInv, SendMetric
  PROVE  /\ PageInv' /\ ExposedInv'
         /\ ~Idle
         /\ exposed' = exposed \/ exposed' = PageOf(copies)
<1> DEFINE k == Head(todo)
           metric == Metrics[rendered + 1]
<1>1. /\ ~Idle /\ page' = page \cup {Sent(copies, k, metric)}
      /\ rendered' = (rendered + 1) % Len(Metrics)
      /\ todo' = IF rendered' = 0 THEN Tail(todo) ELSE todo
      /\ exposed' = IF todo' = << >> THEN page' ELSE exposed
      /\ copies' = copies /\ states' = states /\ log' = log /\ scrapes' = scrapes
  BY DEF SendMetric, Held, Sent
<1>2. todo # << >> /\ todo \in Seq(DOMAIN copies) /\ rendered \in 0 .. 5
  BY <1>1 DEF Idle, PageInv
<1>3. k \in DOMAIN copies /\ Tail(todo) \in Seq(DOMAIN copies)
  BY <1>2
<1>4. ToSet(todo) = {k} \cup ToSet(Tail(todo))
  BY <1>2, TailSet
<1>5. metric \in ToSet(Metrics)
  BY <1>2, MetricsSix
<1>6. rendered' = IF rendered = 5 THEN 0 ELSE rendered + 1
  <2>1. rendered' = (rendered + 1) % 6
    BY <1>1, MetricsSix
  <2> QED
    BY <1>2, <2>1
<1>7. rendered' \in 0 .. 5 /\ todo' \in Seq(DOMAIN copies)
  <2>1. rendered' \in 0 .. 5
    BY <1>2, <1>6
  <2> QED
    BY <1>1, <1>2, <1>3, <2>1
<1>8. page' \subseteq PageOf(copies)
  BY <1>1, <1>3, <1>5 DEF PageInv, PageOf
<1>9. ASSUME NEW j \in DOMAIN copies, NEW r \in 0 .. 5,
             j \notin ToSet(todo') \/ (j = Head(todo') /\ r < rendered')
      PROVE  Sent(copies, j, Metrics[r + 1]) \in page'
  <2>1. CASE j \notin ToSet(todo) \/ (j = k /\ r < rendered)
    BY <1>1, <2>1 DEF PageInv
  <2>2. CASE j = k /\ r = rendered
    BY <1>1, <2>2
  <2>3. CASE j \in ToSet(todo) /\ ~(j = k /\ r < rendered) /\ ~(j = k /\ r = rendered)
    <3>1. CASE rendered = 5
      <4>1. rendered' = 0 /\ todo' = Tail(todo)
        BY <1>1, <1>6, <3>1
      <4>2. ~(r < rendered')
        BY <4>1
      <4>3. j = k
        BY <1>4, <1>9, <2>3, <4>1, <4>2
      <4>4. r < rendered \/ r = rendered
        BY <3>1
      <4> QED
        BY <2>3, <4>3, <4>4
    <3>2. CASE rendered # 5
      <4>1. rendered' = rendered + 1 /\ rendered' # 0 /\ todo' = todo
        BY <1>1, <1>2, <1>6, <3>2
      <4>2. j = k /\ r < rendered + 1
        BY <1>9, <2>3, <4>1
      <4>3. r < rendered \/ r = rendered
        BY <1>2, <4>2
      <4> QED
        BY <2>3, <4>2, <4>3
    <3> QED
      BY <3>1, <3>2
  <2> QED
    BY <2>1, <2>2, <2>3
<1>10. PageInv'
  BY <1>1, <1>7, <1>8, <1>9 DEF PageInv
<1>11. PICK c : Snapshot(c, log) /\ exposed = PageOf(c) /\ Below(c, states)
                /\ Below(c, copies)
  BY <1>1 DEF ExposedInv
<1>12. CASE todo' = << >>
  <2>1. exposed' = page'
    BY <1>1, <1>12
  <2>2. ToSet(todo') = {}
    BY <1>12 DEF ToSet
  <2>3. ASSUME NEW j \in DOMAIN copies, NEW other \in ToSet(Metrics)
        PROVE  Sent(copies, j, other) \in page'
    <3>1. PICK r \in 0 .. 5 : other = Metrics[r + 1]
      BY MetricsSix
    <3> QED
      BY <1>9, <2>2, <3>1
  <2>4. page' = PageOf(copies)
    BY <1>8, <2>3 DEF PageOf
  <2>5. Snapshot(copies, log') /\ Below(copies, states') /\ Idle'
    BY <1>1, <1>12 DEF PageInv, Idle
  <2> QED
    BY <1>1, <1>10, <2>1, <2>4, <2>5 DEF ExposedInv
<1>13. CASE todo' # << >>
  <2>1. exposed' = exposed
    BY <1>1, <1>13
  <2>2. Snapshot(c, log') /\ exposed' = PageOf(c) /\ Below(c, states') /\ Below(c, copies')
    BY <1>1, <1>11, <2>1
  <2> QED
    BY <1>1, <1>10, <2>1, <2>2 DEF ExposedInv
<1> QED
  BY <1>12, <1>13

(* Events added while a page is rendered do not touch it.                  *)
LEMMA AddKeepsPages ==
  ASSUME MemoryInv, PageInv, ExposedInv, NEW e \in Events, AddEvent(e)
  PROVE  PageInv' /\ ExposedInv' /\ exposed' = exposed
<1>1. /\ copies' = copies /\ todo' = todo /\ rendered' = rendered /\ page' = page
      /\ scrapes' = scrapes /\ exposed' = exposed
  BY DEF AddEvent, scrapeVars
<1>2. /\ \A c : Snapshot(c, log) => Snapshot(c, log')
      /\ \A c : Keyed(c) /\ Below(c, states) => Below(c, states')
  BY MemoryKept
<1>3. Snapshot(copies, log') /\ Below(copies, states')
  BY <1>2 DEF PageInv, Snapshot
<1>4. PageInv'
  BY <1>1, <1>3 DEF PageInv
<1>5. PICK c : /\ Snapshot(c, log) /\ exposed = PageOf(c) /\ Below(c, states)
               /\ ~Idle => Below(c, copies)
  BY DEF ExposedInv
<1>6. Keyed(c)
  BY <1>5 DEF Snapshot
<1>7. Snapshot(c, log') /\ Below(c, states')
  BY <1>2, <1>5, <1>6
<1>8. exposed' = PageOf(c) /\ (~Idle' => Below(c, copies'))
  BY <1>1, <1>5 DEF Idle
<1>9. ExposedInv'
  BY <1>7, <1>8 DEF ExposedInv
<1> QED
  BY <1>1, <1>4, <1>9

------------------------------------------------------------------------------
(* The theorems.                                                           *)

(* The empty map of states is one of an instant at which there was no      *)
(* event.                                                                  *)
LEMMA EmptyMap == DOMAIN << >> = {} /\ Keyed(<< >>) /\ TokensOfStates(<< >>) = 0
<1>1. DOMAIN << >> = {}
  OBVIOUS
<1>2. IsFiniteSet({})
  BY FS_EmptySet
<1>3. Keyed(<< >>)
  BY <1>1, <1>2 DEF Keyed
<1>4. TokensOfStates(<< >>) = 0
  <2> DEFINE f == [k \in DOMAIN << >> |-> << >>[k].tokens]
  <2>1. DOMAIN f = {}
    BY <1>1
  <2> HIDE DEF f
  <2>2. SumFunction(f) = 0
    BY <2>1, SumEmpty DEF SumFunction
  <2> QED
    BY <2>2 DEF TokensOfStates, f
<1> QED
  BY <1>1, <1>3, <1>4

(* A log of which nothing counts has no tokens.                            *)
LEMMA NoTokensYet == \A l : LogTokens(l, 0) = 0
<1> SUFFICES ASSUME NEW l PROVE LogTokens(l, 0) = 0
  OBVIOUS
<1> DEFINE f == [i \in DOMAIN l |-> l[i].tokens]
<1>1. 1 .. 0 = {}
  OBVIOUS
<1> HIDE DEF f
<1>2. SumFunctionOnSet(f, 1 .. 0) = 0
  BY <1>1, SumEmpty
<1> QED
  BY <1>2 DEF LogTokens, f

(* The inductive invariant of the aggregator and its scrapes.              *)
AggregatorInv == MemoryInv /\ PageInv /\ ExposedInv

(* It holds at the start                                                   *)
LEMMA AggregatorInvInit == Init => AggregatorInv
<1> SUFFICES ASSUME Init PROVE AggregatorInv
  OBVIOUS
<1>1. /\ states = << >> /\ log = << >> /\ copies = << >> /\ todo = << >>
      /\ rendered = 0 /\ page = {} /\ scrapes = 0 /\ exposed = {}
  BY DEF Init
<1>2. DOMAIN states = {} /\ DOMAIN log = {} /\ Len(log) = 0 /\ DOMAIN copies = {}
  BY <1>1, EmptyMap
<1>3. TokensOfStates(states) = LogTokens(log, 0)
  BY <1>1, EmptyMap, NoTokensYet
<1>4. TokensConserved
  BY <1>2, <1>3 DEF TokensConserved, TokensOfLog, LogTokens
<1>5. log \in Seq(Events) /\ Len(log) <= MaxEvents
  BY <1>1, <1>2, AggregatorAssumption
<1>6. MemoryInv
  BY <1>1, <1>2, <1>4, <1>5, EmptyMap
     DEF MemoryInv, ExactInv, AveragesAmong, WindowsKnown
<1>7. Snapshot(<< >>, log)
  <2>1. 0 \in 0 .. Len(log) /\ LogTokens(log, 0) = TokensOfStates(<< >>)
    BY <1>2, EmptyMap, NoTokensYet
  <2> QED
    BY <2>1, EmptyMap DEF Snapshot
<1>8. PageOf(<< >>) = {}
  BY EmptyMap DEF PageOf
<1>9. Below(<< >>, states) /\ Below(<< >>, copies)
  BY EmptyMap DEF Below
<1>10. PageInv
  <2>1. scrapes \in 0 .. MaxScrapes /\ rendered \in 0 .. 5 /\ todo \in Seq(DOMAIN copies)
    BY <1>1, AggregatorAssumption
  <2> QED
    BY <1>1, <1>2, <1>7, <1>9, <2>1 DEF PageInv
<1>11. ExposedInv
  BY <1>1, <1>7, <1>8, <1>9 DEF ExposedInv
<1> QED
  BY <1>6, <1>10, <1>11 DEF AggregatorInv

(* and every step keeps it.                                                *)
LEMMA AggregatorInvNext == AggregatorInv /\ [Next]_vars => AggregatorInv'
<1> SUFFICES ASSUME AggregatorInv, [Next]_vars PROVE AggregatorInv'
  OBVIOUS
<1>0. MemoryInv /\ PageInv /\ ExposedInv
  BY DEF AggregatorInv
<1>1. ASSUME log' = log, states' = states PROVE MemoryInv'
  <2>1. TokensConserved'
    BY <1>0, <1>1 DEF MemoryInv, TokensConserved, TokensOfLog
  <2>2. ExactInv'
    BY <1>0, <1>1 DEF MemoryInv, ExactInv
  <2>3. AveragesAmong'
    <3>1. ASSUME NEW k PROVE WindowsOf(k)' = WindowsOf(k)
      BY <1>1 DEF WindowsOf
    <3>2. ASSUME NEW k PROVE Busy(k)' = Busy(k)
      BY <1>1, <3>1 DEF Busy
    <3>3. ASSUME NEW k \in DOMAIN states
          PROVE  /\ {log'[i].cpu * Scale : i \in WindowsOf(k)'}
                     = {log[i].cpu * Scale : i \in WindowsOf(k)}
                 /\ {log'[i].dram * Scale : i \in WindowsOf(k)'}
                     = {log[i].dram * Scale : i \in WindowsOf(k)}
                 /\ {log'[i].gpu * Scale : i \in WindowsOf(k)'}
                     = {log[i].gpu * Scale : i \in WindowsOf(k)}
                 /\ {CostPerToken(log'[i]) : i \in Busy(k)'}
                     = {CostPerToken(log[i]) : i \in Busy(k)}
      BY <1>1, <3>1, <3>2
    <3> QED
      BY <1>0, <1>1, <3>2, <3>3 DEF MemoryInv, AveragesAmong
  <2>4. WindowsKnown'
    BY <1>0, <1>1 DEF MemoryInv, WindowsKnown
  <2> QED
    BY <1>0, <1>1, <2>1, <2>2, <2>3, <2>4 DEF MemoryInv
<1>2. CASE StartScrape
  BY <1>0, <1>1, <1>2, ScrapeStarts DEF StartScrape, AggregatorInv
<1>3. CASE SendMetric
  BY <1>0, <1>1, <1>3, MetricSent DEF SendMetric, AggregatorInv
<1>4. ASSUME NEW e \in Events, AddEvent(e) PROVE AggregatorInv'
  BY <1>0, <1>4, MemoryKept, AddKeepsPages DEF AggregatorInv
<1>5. CASE UNCHANGED vars
  <2>1. /\ states' = states /\ log' = log /\ copies' = copies /\ todo' = todo
        /\ rendered' = rendered /\ page' = page /\ scrapes' = scrapes
        /\ exposed' = exposed
    BY <1>5 DEF vars, scrapeVars
  <2>2. PageInv'
    BY <1>0, <2>1 DEF PageInv
  <2>3. ExposedInv'
    BY <1>0, <2>1 DEF ExposedInv, Idle
  <2> QED
    BY <1>1, <2>1, <2>2, <2>3 DEF AggregatorInv
<1> QED
  BY <1>2, <1>3, <1>4, <1>5 DEF Next

(* Whatever events come in whatever order, the totals of the states add up *)
(* to the tokens of all events: AddEvent loses and repeats none.           *)
THEOREM AggregatorTokensConserved == Spec => []TokensConserved
<1>1. AggregatorInv => TokensConserved
  BY DEF AggregatorInv, MemoryInv
<1> QED
  BY <1>1, AggregatorInvInit, AggregatorInvNext, PTL DEF Spec

(* Every moving average lies between the least and the greatest of the     *)
(* values that AddEvent averaged; that of the cost, of the windows with    *)
(* tokens.                                                                 *)
THEOREM AveragesAlwaysBounded == Spec => []AveragesBounded
<1>1. AggregatorInv => AveragesBounded
  BY AveragesFromAmong DEF AggregatorInv, MemoryInv
<1> QED
  BY <1>1, AggregatorInvInit, AggregatorInvNext, PTL DEF Spec

(* StatesInv follows.                                                      *)
LEMMA StatesInvHolds == AggregatorInv => StatesInv
<1> SUFFICES ASSUME AggregatorInv PROVE TypeOK /\ SeriesDistinct
  BY DEF StatesInv
<1>0. MemoryInv /\ PageInv /\ ExposedInv
  BY DEF AggregatorInv
<1>1. Keyed(states) /\ Keyed(copies)
  BY <1>0 DEF MemoryInv, PageInv, Snapshot
<1>2. PICK c : Keyed(c) /\ exposed = PageOf(c)
  BY <1>0 DEF ExposedInv, Snapshot
<1>3. \A m \in page \cup exposed : m.metric \in ToSet(Metrics) /\ m.value \in Nat
  BY <1>0, <1>1, <1>2, PageTyped DEF PageInv
<1>4. rendered \in 0 .. Len(Metrics) - 1
  BY <1>0, MetricsSix DEF PageInv
<1>5. TypeOK
  BY <1>0, <1>1, <1>3, <1>4 DEF TypeOK, MemoryInv, PageInv, Keyed
<1>6. SeriesDistinct
  BY <1>1, SeriesKey DEF SeriesDistinct, Keyed
<1> QED
  BY <1>5, <1>6

(* The states are well formed, and no two of them have the same label      *)
(* values, so that a scrape never sends the same series twice.             *)
THEOREM StatesAlwaysDistinct == Spec => []StatesInv
  BY StatesInvHolds, AggregatorInvInit, AggregatorInvNext, PTL DEF Spec

(* No series of tokens_total is lower on a page than on the one before it. *)
THEOREM CountersNeverFall == Spec => CounterNeverFalls
<1> DEFINE Rises ==
      \A m \in exposed, n \in exposed' :
        m.series = n.series /\ m.metric = "tokens_total" /\ n.metric = m.metric
          => n.value >= m.value
<1>1. AggregatorInv /\ [Next]_vars => [Rises]_vars
  <2> SUFFICES ASSUME AggregatorInv, Next PROVE Rises
    OBVIOUS
  <2>0. MemoryInv /\ PageInv /\ ExposedInv
    BY DEF AggregatorInv
  <2>1. PICK c : /\ Keyed(c) /\ exposed = PageOf(c)
                 /\ ~Idle => Below(c, copies)
    BY <2>0 DEF ExposedInv, Snapshot
  <2>2. CASE exposed' = exposed
    BY <2>1, <2>2, BelowItself, PageNeverFalls
  <2>3. CASE ~Idle /\ exposed' = PageOf(copies)
    <3>1. Keyed(copies)
      BY <2>0 DEF PageInv, Snapshot
    <3> QED
      BY <2>1, <2>3, <3>1, PageNeverFalls
  <2>4. CASE StartScrape
    BY <2>2, <2>4 DEF StartScrape
  <2>5. CASE SendMetric
    BY <2>0, <2>2, <2>3, <2>5, MetricSent
  <2>6. ASSUME NEW e \in Events, AddEvent(e) PROVE Rises
    BY <2>2, <2>6 DEF AddEvent, scrapeVars
  <2> QED
    BY <2>4, <2>5, <2>6 DEF Next
<1> QED
  BY <1>1, AggregatorInvInit, AggregatorInvNext, PTL DEF Spec, CounterNeverFalls

(* The value a reader finds on a finished page is that of the state.       *)
LEMMA PageValues ==
  ASSUME NEW c, Keyed(c), exposed = PageOf(c), NEW k \in DOMAIN c,
         NEW metric \in ToSet(Metrics)
  PROVE  PageValue(Series(c[k]), metric) = ValueOf(c[k], metric)
<1> DEFINE P(m) == m.series = Series(c[k]) /\ m.metric = metric
<1>1. Sent(c, k, metric) \in exposed /\ P(Sent(c, k, metric))
  BY DEF PageOf, Sent
<1>2. (CHOOSE m \in exposed : P(m)) \in exposed /\ P(CHOOSE m \in exposed : P(m))
  BY <1>1
<1>3. (CHOOSE m \in exposed : P(m)).value = ValueOf(c[k], metric)
  BY <1>2, PageFunctional
<1> QED
  BY <1>3 DEF PageValue

(* The finished page shows the instant of its copies.                      *)
LEMMA OneInstant == AggregatorInv => PageOfOneInstant
<1> SUFFICES ASSUME AggregatorInv PROVE PageOfOneInstant
  OBVIOUS
<1>1. PICK c : Snapshot(c, log) /\ exposed = PageOf(c)
  BY DEF AggregatorInv, ExposedInv
<1>2. Keyed(c)
  BY <1>1 DEF Snapshot
<1>3. ASSUME NEW series \in {m.series : m \in exposed}
      PROVE  /\ {m.metric : m \in {n \in exposed : n.series = series}} = ToSet(Metrics)
             /\ TwiceGap(series) \in -Grain * (1 + 3 * Window) .. Grain * (1 + 3 * Window)
  <2>1. PICK k \in DOMAIN c : series = Series(c[k])
    <3>1. PICK m \in PageOf(c) : series = m.series
      BY <1>1
    <3>2. PICK k \in DOMAIN c, metric \in ToSet(Metrics) : m = Sent(c, k, metric)
      BY DEF PageOf
    <3> QED
      BY <3>1, <3>2 DEF Sent
  <2>2. {m.metric : m \in {n \in exposed : n.series = series}} = ToSet(Metrics)
    <3>1. ASSUME NEW metric \in ToSet(Metrics)
          PROVE  /\ Sent(c, k, metric) \in exposed
                 /\ Sent(c, k, metric).series = series
                 /\ Sent(c, k, metric).metric = metric
      BY <1>1, <2>1 DEF PageOf, Sent
    <3>2. \A m \in exposed : m.metric \in ToSet(Metrics)
      BY <1>1, <1>2, PageTyped
    <3> QED
      BY <3>1, <3>2
  <2>3. /\ "joules_per_request" \in ToSet(Metrics) /\ "watts_cpu" \in ToSet(Metrics)
        /\ "watts_dram" \in ToSet(Metrics) /\ "watts_gpu" \in ToSet(Metrics)
    BY MetricsSix
  <2>4. /\ PageValue(series, "joules_per_request") = Round(c[k].joules)
        /\ PageValue(series, "watts_cpu") = Round(c[k].cpu)
        /\ PageValue(series, "watts_dram") = Round(c[k].dram)
        /\ PageValue(series, "watts_gpu") = Round(c[k].gpu)
    BY <1>1, <1>2, <2>1, <2>3, PageValues DEF ValueOf
  <2>5. c[k] \in State /\ Powered(c[k])
    BY <1>1, <1>2 DEF Snapshot, Keyed
  <2>6. TwiceGap(series)
          = 2 * (Round(c[k].joules)
                 - Window * (Round(c[k].cpu) + Round(c[k].dram) + Round(c[k].gpu)))
    BY <2>4 DEF TwiceGap
  <2> QED
    BY <2>2, <2>5, <2>6, EnergyNearPower
<1> DEFINE totals == {m \in exposed : m.metric = "tokens_total"}
<1>4. \E n \in 0 .. Len(log) : TokensOfLog(n) = SumFunction([m \in totals |-> m.value])
  <2>1. SumFunction([m \in totals |-> m.value]) = TokensOfStates(c)
    BY <1>1, <1>2, PageTotal
  <2>2. PICK n \in 0 .. Len(log) : LogTokens(log, n) = TokensOfStates(c)
    BY <1>1 DEF Snapshot
  <2>3. TokensOfLog(n) = LogTokens(log, n)
    BY DEF TokensOfLog, LogTokens
  <2> QED
    BY <2>1, <2>2, <2>3
<1> QED
  BY <1>3, <1>4 DEF PageOfOneInstant

(* A finished page shows all metrics of the states of one instant, however *)
(* many events AddEvent took while Collect was sending it.                 *)
THEOREM PagesOfOneInstant == Spec => []PageOfOneInstant
  BY OneInstant, AggregatorInvInit, AggregatorInvNext, PTL DEF Spec

==============================================================================
