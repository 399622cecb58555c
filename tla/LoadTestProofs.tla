---------------------------- MODULE LoadTestProofs ----------------------------
(***************************************************************************)
(* The mock counts exactly, for every number of requests, of threads, of   *)
(* runs of the test and of crashes, and a load that is called consistent   *)
(* was counted to the last request.                                        *)
(***************************************************************************)
EXTENDS LoadTest, FiniteSetTheorems, TLAPS

(* Handlers that have added their tokens, the lock still held or not.      *)
Written == {c \in Calls : at[c] \in {"prompt", "respond", "ended"}}
Inside == {"add", "prompt"}

Shape ==
  /\ load \in 1 .. MaxLoads
  /\ client \in [Requests -> {"queued", "waiting", "got", "failed", "cancelled"}]
  /\ next \in Nat
  /\ at \in [Calls -> {"none", "sleep", "add", "prompt", "respond", "ended"}]
  /\ reg \in [Calls -> Nat]
  /\ total \in Nat /\ prompts \in Nat /\ seen \in Nat

(* Who is inside holds the lock, and what it read is still true.           *)
Locked ==
  /\ \A c \in Calls : at[c] \in Inside => lock = c
  /\ \A c \in Calls : at[c] = "add" => reg[c] = total
  /\ \A c \in Calls : at[c] = "prompt" => reg[c] = prompts
  /\ lock = Metrics => seen = total

Sums ==
  /\ total = Tokens * Cardinality(Written)
  /\ Cardinality(Counted) <= prompts /\ prompts <= Cardinality(Counted) * MaxPrompt

(* A request that was not posted has no handler.                           *)
Unfired ==
  \A c \in Calls :
    c[1] > load \/ (c[1] = load /\ client[c[2]] = "queued") => at[c] = "none"

(* What the test holds for answered was answered by this mock, or the mock *)
(* has died since and knows of this load only.                             *)
Answered ==
  /\ \/ \A r \in Requests : client[r] = "got" => at[<<load, r>>] = "ended"
     \/ \A c \in Calls : c[1] # load => at[c] = "none"
  /\ \A r \in Requests : r < next => client[r] = "got"
  /\ phase = "debug" => next = N + 1

CountInv == Shape /\ Locked /\ Sums
TestInv == CountInv /\ Unfired /\ Answered

LEMMA CallsFinite ==
  /\ IsFiniteSet(Calls)
  /\ \A S \in SUBSET Calls : IsFiniteSet(S) /\ Cardinality(S) \in Nat
  /\ \A S \in SUBSET Calls : Cardinality(S) <= Cardinality(Calls)
<1>1. IsFiniteSet(1 .. MaxLoads) /\ IsFiniteSet(Requests)
  BY FS_Interval, LoadAssumption DEF Requests
<1>2. IsFiniteSet(Calls)
  BY <1>1, FS_Product DEF Calls
<1>3. \A S \in SUBSET Calls : IsFiniteSet(S) /\ Cardinality(S) <= Cardinality(Calls)
  BY <1>2, FS_Subset
<1> QED
  BY <1>2, <1>3, FS_CardinalityType

LEMMA CallNames == NoOne \notin Calls /\ Metrics \notin Calls /\ NoOne # Metrics
BY LoadAssumption DEF NoOne, Metrics, Calls, Requests

(* One more call in a set of calls.                                        *)
LEMMA OneMore ==
  ASSUME NEW S \in SUBSET Calls, NEW T \in SUBSET Calls, NEW c \in Calls,
         c \notin S, T = S \cup {c}
  PROVE  Cardinality(T) = Cardinality(S) + 1
BY CallsFinite, FS_AddElement

LEMMA CountInit == Init => TestInv
<1> SUFFICES ASSUME Init PROVE TestInv
  OBVIOUS
<1>1. Written = {} /\ Counted = {}
  BY DEF Init, Written, Counted
<1>2. Cardinality(Written) = 0 /\ Cardinality(Counted) = 0
  BY <1>1, FS_EmptySet
<1>3. Sums
  BY <1>2, LoadAssumption DEF Init, Sums
<1>4. Shape /\ Unfired /\ Answered
  BY LoadAssumption DEF Init, Shape, Unfired, Answered, Requests
<1>5. Locked
  BY CallNames DEF Init, Locked, Inside
<1> QED
  BY <1>3, <1>4, <1>5 DEF TestInv, CountInv

(* Steps of the test itself count nothing.                                 *)
LEMMA CountUnmoved ==
  ASSUME CountInv, UNCHANGED <<lock, total, prompts, seen, reg>>,
         at' \in [Calls -> {"none", "sleep", "add", "prompt", "respond", "ended"}],
         Written' = Written, Counted' = Counted,
         \A c \in Calls : at'[c] \in Inside => at'[c] = at[c],
         load' \in 1 .. MaxLoads, next' \in Nat,
         client' \in [Requests -> {"queued", "waiting", "got", "failed", "cancelled"}]
  PROVE  CountInv'
<1>1. Shape' /\ Sums'
  BY DEF CountInv, Shape, Sums
<1>2. Locked'
  BY DEF CountInv, Locked, Inside
<1> QED
  BY <1>1, <1>2 DEF CountInv

LEMMA EnterCounts ==
  ASSUME CountInv, NEW c \in Calls, Enter(c)
  PROVE  CountInv'
<1>1. /\ at[c] = "sleep" /\ lock = NoOne /\ lock' = c
      /\ at' = [at EXCEPT ![c] = "add"] /\ reg' = [reg EXCEPT ![c] = total]
      /\ UNCHANGED <<load, client, next, total, prompts, seen>>
  BY DEF Enter, testVars, countVars, scrapeVars
<1>2. Shape'
  BY <1>1 DEF CountInv, Shape
<1>3. Written' = Written /\ Counted' = Counted
  BY <1>1 DEF CountInv, Shape, Written, Counted
<1>4. Sums'
  BY <1>1, <1>3 DEF CountInv, Sums
<1>5. \A d \in Calls : at[d] \notin Inside
  BY <1>1, CallNames DEF CountInv, Locked
<1>6. Locked'
  BY <1>1, <1>5, CallNames DEF CountInv, Shape, Locked, Inside
<1> QED
  BY <1>2, <1>4, <1>6 DEF CountInv

LEMMA AddTokensCounts ==
  ASSUME CountInv, NEW c \in Calls, AddTokens(c)
  PROVE  CountInv'
<1>1. /\ at[c] = "add" /\ reg[c] = total /\ total' = total + Tokens /\ lock = c
      /\ at' = [at EXCEPT ![c] = "prompt"] /\ reg' = [reg EXCEPT ![c] = prompts]
      /\ UNCHANGED <<load, client, next, prompts, seen, lock>>
  BY DEF AddTokens, testVars, scrapeVars, CountInv, Locked, Inside
<1>2. Shape'
  BY <1>1, LoadAssumption DEF CountInv, Shape
<1>3. Written' = Written \cup {c} /\ c \notin Written /\ Counted' = Counted
  BY <1>1 DEF CountInv, Shape, Written, Counted
<1>4. Cardinality(Written') = Cardinality(Written) + 1
  BY <1>3, OneMore DEF Written
<1>5. Cardinality(Written) \in Nat
  BY CallsFinite DEF Written
<1>6. Sums'
  BY <1>1, <1>3, <1>4, <1>5, LoadAssumption DEF CountInv, Sums
<1>7. \A d \in Calls : d # c => at[d] \notin Inside
  BY <1>1 DEF CountInv, Locked
<1>8. Locked'
  BY <1>1, <1>7, CallNames DEF CountInv, Shape, Locked, Inside
<1> QED
  BY <1>2, <1>6, <1>8 DEF CountInv

LEMMA AddPromptCounts ==
  ASSUME CountInv, NEW c \in Calls, NEW p \in 1 .. MaxPrompt, AddPrompt(c, p)
  PROVE  CountInv'
<1>1. /\ at[c] = "prompt" /\ prompts' = prompts + p /\ lock = c /\ lock' = NoOne
      /\ at' = [at EXCEPT ![c] = "respond"] /\ reg' = [reg EXCEPT ![c] = 0]
      /\ UNCHANGED <<load, client, next, total, seen>>
  BY DEF AddPrompt, testVars, scrapeVars, CountInv, Locked, Inside
<1>2. Shape'
  BY <1>1, LoadAssumption DEF CountInv, Shape
<1>3. Counted' = Counted \cup {c} /\ c \notin Counted /\ Written' = Written
  BY <1>1 DEF CountInv, Shape, Written, Counted
<1>4. Cardinality(Counted') = Cardinality(Counted) + 1
  BY <1>3, OneMore DEF Counted
<1>5. Cardinality(Counted) \in Nat
  BY CallsFinite DEF Counted
<1>6. Sums'
  <2>1. (Cardinality(Counted) + 1) * MaxPrompt = Cardinality(Counted) * MaxPrompt + MaxPrompt
    BY <1>5, LoadAssumption
  <2>2. Cardinality(Counted) * MaxPrompt \in Nat
    BY <1>5, LoadAssumption
  <2> QED
    BY <1>1, <1>2, <1>3, <1>4, <1>5, <2>1, <2>2, LoadAssumption DEF CountInv, Shape, Sums
<1>7. \A d \in Calls : d # c => at[d] \notin Inside
  BY <1>1 DEF CountInv, Locked
<1>8. Locked'
  BY <1>1, <1>7, CallNames DEF CountInv, Shape, Locked, Inside
<1> QED
  BY <1>2, <1>6, <1>8 DEF CountInv

LEMMA CrashCounts ==
  ASSUME CountInv, Crash
  PROVE  CountInv'
<1>1. Written' = {} /\ Counted' = {}
  BY DEF Crash, Written, Counted
<1>2. Cardinality(Written') = 0 /\ Cardinality(Counted') = 0
  BY <1>1, FS_EmptySet
<1>3. Shape'
  BY DEF Crash, CountInv, Shape
<1>4. Sums'
  BY <1>2, LoadAssumption DEF Crash, Sums
<1>5. Locked'
  BY CallNames DEF Crash, Locked, Inside
<1> QED
  BY <1>3, <1>4, <1>5 DEF CountInv

(* A handler that goes on is one that was started and had not ended.       *)
LEMMA HandlerKeeps ==
  ASSUME TestInv, NEW c \in Calls, NEW x, at[c] \notin {"none", "ended"},
         at' = [at EXCEPT ![c] = x], UNCHANGED testVars
  PROVE  Unfired' /\ Answered'
<1>1. \A d \in Calls : at[d] \in {"none", "ended"} => at'[d] = at[d]
  BY DEF TestInv, CountInv, Shape
<1>2. load \in 1 .. MaxLoads /\ UNCHANGED <<load, phase, client, next>>
  BY DEF testVars, TestInv, CountInv, Shape
<1>3. Unfired'
  BY <1>1, <1>2 DEF TestInv, Unfired
<1>4. \A r \in Requests : <<load, r>> \in Calls
  BY <1>2 DEF Calls
<1>5. Answered'
  BY <1>1, <1>2, <1>4 DEF TestInv, Answered
<1> QED
  BY <1>3, <1>5

LEMMA FireKeeps ==
  ASSUME TestInv, NEW r \in Requests, Fire(r)
  PROVE  TestInv'
<1> DEFINE c == <<load, r>>
<1>1. c \in Calls /\ at[c] = "none"
  BY DEF Fire, TestInv, CountInv, Shape, Unfired, Calls
<1>2. /\ UNCHANGED <<lock, total, prompts, seen, reg, load, next, phase>>
      /\ client[r] = "queued" /\ phase = "pool"
      /\ client' \in [Requests -> {"queued", "waiting", "got", "failed", "cancelled"}]
      /\ \A s \in Requests : s # r => client'[s] = client[s]
      /\ client'[r] \in {"waiting", "failed"}
  BY DEF Fire, countVars, scrapeVars, TestInv, CountInv, Shape
<1>3. /\ at' \in [Calls -> {"none", "sleep", "add", "prompt", "respond", "ended"}]
      /\ \A d \in Calls : d # c => at'[d] = at[d]
      /\ at'[c] \in {"none", "sleep"}
  BY <1>1 DEF Fire, TestInv, CountInv, Shape
<1>4. Written' = Written /\ Counted' = Counted
  BY <1>1, <1>3 DEF Written, Counted
<1>5. CountInv'
  BY <1>1, <1>2, <1>3, <1>4, CountUnmoved DEF TestInv, CountInv, Shape, Inside
<1>6. Unfired'
  <2> SUFFICES ASSUME NEW d \in Calls,
                      d[1] > load \/ (d[1] = load /\ client'[d[2]] = "queued")
               PROVE  at'[d] = "none"
    BY <1>2 DEF Unfired
  <2>1. d # c
    BY <1>2 DEF TestInv, CountInv, Shape
  <2>2. d[2] \in Requests /\ d = <<d[1], d[2]>>
    BY DEF Calls
  <2> QED
    BY <1>2, <1>3, <2>1, <2>2 DEF TestInv, Unfired
<1>7. Answered'
  <2>1. \A s \in Requests : client'[s] = "got" => s # r /\ client[s] = "got"
    BY <1>2
  <2>2. \A s \in Requests : s # r => <<load, s>> \in Calls /\ <<load, s>> # c
    BY DEF TestInv, CountInv, Shape, Calls
  <2>3. \A s \in Requests : s # r => at'[<<load, s>>] = at[<<load, s>>]
    BY <1>3, <2>2
  <2>4. ASSUME \A s \in Requests : client[s] = "got" => at[<<load, s>>] = "ended"
        PROVE  \A s \in Requests : client'[s] = "got" => at'[<<load', s>>] = "ended"
    BY <1>2, <2>1, <2>3, <2>4
  <2>5. ASSUME \A d \in Calls : d[1] # load => at[d] = "none"
        PROVE  \A d \in Calls : d[1] # load' => at'[d] = "none"
    BY <1>2, <1>3, <2>5
  <2>6. \A s \in Requests : s < next' => client'[s] = "got"
    BY <1>2 DEF TestInv, Answered
  <2>7. phase' = "debug" => next' = N + 1
    BY <1>2
  <2> QED
    BY <2>4, <2>5, <2>6, <2>7 DEF TestInv, Answered
<1> QED
  BY <1>5, <1>6, <1>7 DEF TestInv

LEMMA RespondKeeps ==
  ASSUME TestInv, NEW c \in Calls, Respond(c)
  PROVE  TestInv'
<1>1. /\ at[c] = "respond" /\ at' = [at EXCEPT ![c] = "ended"]
      /\ UNCHANGED <<lock, total, prompts, seen, reg, load, next, phase>>
      /\ c = <<c[1], c[2]>> /\ c[2] \in Requests
  BY DEF Respond, countVars, scrapeVars, Calls
<1>2. /\ at' \in [Calls -> {"none", "sleep", "add", "prompt", "respond", "ended"}]
      /\ \A d \in Calls : d # c => at'[d] = at[d]
      /\ at'[c] = "ended"
  BY <1>1 DEF TestInv, CountInv, Shape
<1>3. Written' = Written /\ Counted' = Counted
  BY <1>1, <1>2 DEF Written, Counted
<1>4. /\ client' \in [Requests -> {"queued", "waiting", "got", "failed", "cancelled"}]
      /\ \A s \in Requests :
           client'[s] = client[s] \/ (client'[s] = "got" /\ c = <<load, s>>)
      /\ \A s \in Requests : client[s] = "got" => client'[s] = "got"
  BY <1>1 DEF Respond, TestInv, CountInv, Shape
<1>5. CountInv'
  BY <1>1, <1>2, <1>3, <1>4, CountUnmoved DEF TestInv, CountInv, Shape, Inside
<1>6. Unfired'
  BY <1>1, <1>2, <1>4 DEF TestInv, Unfired, Calls
<1>7. Answered'
  <2>1. ASSUME \A s \in Requests : client[s] = "got" => at[<<load, s>>] = "ended"
        PROVE  \A s \in Requests : client'[s] = "got" => at'[<<load', s>>] = "ended"
    <3>1. \A s \in Requests : <<load, s>> \in Calls
      BY DEF TestInv, CountInv, Shape, Calls
    <3> QED
      BY <1>1, <1>2, <1>4, <2>1, <3>1
  <2>2. ASSUME \A d \in Calls : d[1] # load => at[d] = "none"
        PROVE  \A d \in Calls : d[1] # load' => at'[d] = "none"
    BY <1>1, <1>2, <2>2
  <2>3. \A s \in Requests : s < next' => client'[s] = "got"
    BY <1>1, <1>4 DEF TestInv, Answered
  <2>4. phase' = "debug" => next' = N + 1
    BY <1>1 DEF TestInv, Answered
  <2> QED
    BY <2>1, <2>2, <2>3, <2>4 DEF TestInv, Answered
<1> QED
  BY <1>5, <1>6, <1>7 DEF TestInv

(* Steps of the test that leave the handlers alone.                        *)
LEMMA TestCounts ==
  ASSUME CountInv, UNCHANGED <<callVars, lock, total, prompts, seen>>,
         load' \in 1 .. MaxLoads, next' \in Nat,
         client' \in [Requests -> {"queued", "waiting", "got", "failed", "cancelled"}]
  PROVE  CountInv'
BY CountUnmoved DEF callVars, Written, Counted, CountInv, Shape

LEMMA TestKeeps ==
  ASSUME TestInv,
         (\E r \in Requests : TimeOut(r)) \/ Collect \/ Drain \/ DebugTotal \/ Rerun
  PROVE  TestInv'
<1> USE DEF countVars, scrapeVars, TestInv
<1>0. Shape
  BY DEF CountInv
<1>1. ASSUME NEW r \in Requests, TimeOut(r) PROVE TestInv'
  <2>1. /\ client' = [client EXCEPT ![r] = "failed"] /\ client[r] = "waiting"
        /\ UNCHANGED <<at, load, next, phase>>
    BY <1>1 DEF TimeOut, callVars
  <2>2. CountInv'
    BY <1>0, <1>1, <2>1, TestCounts DEF TimeOut, Shape
  <2>3. Unfired' /\ Answered'
    BY <1>0, <2>1 DEF Shape, Unfired, Answered, Calls
  <2> QED
    BY <2>2, <2>3
<1>2. CASE Collect
  <2>1. /\ UNCHANGED <<at, load, phase>> /\ phase = "pool"
        /\ next' = next \/ (next' = next + 1 /\ client[next] = "got")
        /\ \A s \in Requests :
             client'[s] = client[s] \/ (client[s] = "queued" /\ client'[s] = "cancelled")
        /\ client' \in [Requests -> {"queued", "waiting", "got", "failed", "cancelled"}]
    BY <1>0, <1>2 DEF Collect, callVars, Queued, Shape
  <2>2. CountInv'
    BY <1>0, <1>2, <2>1, TestCounts DEF Collect, Shape
  <2>3. Unfired'
    BY <2>1 DEF Unfired, Calls
  <2>4. \A s \in Requests : s < next' => client'[s] = "got"
    BY <1>0, <2>1 DEF Answered, Shape, Requests
  <2>5. Answered'
    BY <2>1, <2>4 DEF Answered
  <2> QED
    BY <2>2, <2>3, <2>5
<1>3. CASE Drain
  <2>1. /\ UNCHANGED <<at, load, next, client>>
        /\ phase' = "debug" => next = N + 1
    BY <1>3 DEF Drain, callVars
  <2>2. CountInv'
    BY <1>0, <1>3, <2>1, TestCounts DEF Drain, Shape
  <2> QED
    BY <2>1, <2>2 DEF Unfired, Answered
<1>4. CASE DebugTotal
  <2>1. UNCHANGED <<at, load, next, client>> /\ phase' = "over"
    BY <1>4 DEF DebugTotal, callVars
  <2>2. CountInv'
    BY <1>0, <1>4, <2>1, TestCounts DEF DebugTotal, Shape
  <2> QED
    BY <2>1, <2>2 DEF Unfired, Answered
<1>5. CASE Rerun
  <2>1. /\ load' = load + 1 /\ next' = 1 /\ phase' = "pool" /\ UNCHANGED at
        /\ load < MaxLoads /\ client' = [r \in Requests |-> "queued"]
    BY <1>5 DEF Rerun, callVars
  <2>2. CountInv'
    BY <1>0, <1>5, <2>1, LoadAssumption, TestCounts DEF Rerun, Shape
  <2>3. Unfired'
    BY <1>0, <2>1, LoadAssumption DEF Unfired, Shape, Calls
  <2>4. Answered'
    BY <2>1 DEF Answered, Requests
  <2> QED
    BY <2>2, <2>3, <2>4
<1> QED
  BY <1>1, <1>2, <1>3, <1>4, <1>5

LEMMA CrashKeeps ==
  ASSUME TestInv, Crash
  PROVE  TestInv'
<1>1. CountInv'
  BY CrashCounts DEF TestInv
<1>2. /\ \A c \in Calls : at'[c] = "none"
      /\ UNCHANGED <<load, next>> /\ (phase' = "debug" => phase = "debug")
      /\ \A r \in Requests : client[r] = "got" => client'[r] = "got"
  BY DEF Crash, Waiting
<1>3. Unfired' /\ Answered'
  BY <1>2 DEF TestInv, Unfired, Answered
<1> QED
  BY <1>1, <1>3 DEF TestInv

LEMMA ScrapeKeeps ==
  ASSUME TestInv, ScrapeTokens \/ ScrapePrompt
  PROVE  TestInv'
<1>1. /\ UNCHANGED <<at, reg, total, prompts, load, phase, client, next>>
      /\ \/ lock = NoOne /\ lock' = Metrics /\ seen' = total
         \/ lock = Metrics /\ lock' = NoOne /\ seen' = 0
  BY DEF ScrapeTokens, ScrapePrompt, testVars, callVars, countVars
<1>2. Written' = Written /\ Counted' = Counted
  BY <1>1 DEF Written, Counted
<1>3. \A c \in Calls : at[c] \notin Inside
  BY <1>1, CallNames DEF TestInv, CountInv, Locked
<1>4. Locked'
  BY <1>1, <1>3, CallNames DEF TestInv, CountInv, Locked, Inside
<1>5. Shape' /\ Sums'
  BY <1>1, <1>2 DEF TestInv, CountInv, Shape, Sums
<1>6. Unfired' /\ Answered'
  BY <1>1 DEF TestInv, Unfired, Answered
<1> QED
  BY <1>4, <1>5, <1>6 DEF TestInv, CountInv

(* Every step keeps the counters right and the test in line with them.     *)
LEMMA TestStep == TestInv /\ [Next]_vars => TestInv'
<1> SUFFICES ASSUME TestInv, [Next]_vars PROVE TestInv'
  OBVIOUS
<1>1. ASSUME NEW r \in Requests, Fire(r) PROVE TestInv'
  BY <1>1, FireKeeps
<1>2. ASSUME NEW c \in Calls, Enter(c) PROVE TestInv'
  BY <1>2, EnterCounts, HandlerKeeps DEF Enter, TestInv
<1>3. ASSUME NEW c \in Calls, AddTokens(c) PROVE TestInv'
  BY <1>3, AddTokensCounts, HandlerKeeps DEF AddTokens, TestInv
<1>4. ASSUME NEW c \in Calls, NEW p \in 1 .. MaxPrompt, AddPrompt(c, p) PROVE TestInv'
  BY <1>4, AddPromptCounts, HandlerKeeps DEF AddPrompt, TestInv
<1>5. ASSUME NEW c \in Calls, Respond(c) PROVE TestInv'
  BY <1>5, RespondKeeps
<1>6. CASE UNCHANGED vars
  <2>1. UNCHANGED <<at, reg, lock, total, prompts, seen, load, phase, client, next>>
    BY <1>6 DEF vars, testVars, callVars, countVars, scrapeVars
  <2> QED
    BY <2>1 DEF TestInv, CountInv, Shape, Locked, Sums, Written, Counted, Unfired, Answered
<1> QED
  BY <1>1, <1>2, <1>3, <1>4, <1>5, <1>6, TestKeeps, CrashKeeps, ScrapeKeeps
     DEF Next, Client, Server, Handler

LEMMA TestAlways == Spec => []TestInv
BY CountInit, TestStep, PTL DEF Spec

(* No concurrent request is lost from the counter or counted twice, for    *)
(* every number of requests and threads (mock_vllm_metrics.py:44).         *)
THEOREM MockCountsExactly == Spec => []CountsExact
<1>1. TestInv => CountsExact
  <2> SUFFICES ASSUME TestInv, lock = NoOne PROVE total = Tokens * Cardinality(Counted)
    BY DEF CountsExact
  <2>1. Counted = Written
    BY CallNames DEF TestInv, CountInv, Locked, Inside, Counted, Written
  <2> QED
    BY <2>1 DEF TestInv, CountInv, Sums
<1> QED
  BY <1>1, TestAlways, PTL

(* A scrape shows the prompts of the requests whose completions it shows   *)
(* (mock_vllm_metrics.py:67).                                              *)
THEOREM ScrapesAreCoherent == Spec => []ScrapeCoherent
<1>1. Init => ScrapeCoherent
  <2> SUFFICES ASSUME Init PROVE ScrapeCoherent
    OBVIOUS
  <2>1. Cardinality(Calls) \in Nat
    BY CallsFinite
  <2> QED
    BY <2>1, LoadAssumption DEF Init, ScrapeCoherent
<1>2. ASSUME TestInv, ScrapeCoherent, [Next]_vars PROVE ScrapeCoherent'
  <2>1. CASE ScrapePrompt
    <3> DEFINE n == Cardinality(Counted)
    <3>1. scraped' = [tokens |-> seen, prompts |-> prompts] /\ seen = total /\ lock = Metrics
      BY <1>2, <2>1 DEF ScrapePrompt, TestInv, CountInv, Locked
    <3>2. Counted = Written
      BY <1>2, <3>1, CallNames DEF TestInv, CountInv, Locked, Inside, Counted, Written
    <3>3. n \in 0 .. Cardinality(Calls)
      BY CallsFinite DEF Counted
    <3>4. /\ total = n * Tokens
          /\ n <= prompts /\ prompts <= n * MaxPrompt
      BY <1>2, <3>2, <3>3, CallsFinite, LoadAssumption DEF TestInv, CountInv, Sums
    <3> HIDE DEF n
    <3> QED
      BY <3>1, <3>3, <3>4 DEF ScrapeCoherent
  <2>2. CASE ~ScrapePrompt
    <3>1. UNCHANGED scraped
      BY <1>2, <2>2
         DEF Next, Client, Server, Handler, Fire, TimeOut, Collect, Drain, DebugTotal,
             Rerun, Enter, AddTokens, AddPrompt, Respond, ScrapeTokens, Crash, vars,
             scrapeVars
    <3> QED
      BY <1>2, <3>1 DEF ScrapeCoherent
  <2> QED
    BY <2>1, <2>2
<1> QED
  BY <1>1, <1>2, TestAlways, PTL DEF Spec

(* The calls of one load.                                                  *)
LEMMA LoadSize ==
  IsFiniteSet({load} \X Requests) /\ Cardinality({load} \X Requests) = N
<1>1. IsFiniteSet(Requests) /\ Cardinality(Requests) = N
  BY FS_Interval, LoadAssumption DEF Requests
<1>2. IsFiniteSet({load}) /\ Cardinality({load}) = 1
  BY FS_Singleton
<1>3. /\ IsFiniteSet({load} \X Requests)
      /\ Cardinality({load} \X Requests) = 1 * N
  BY <1>1, <1>2, FS_Product
<1> QED
  BY <1>3, LoadAssumption

(* A load that is called consistent was counted to the last request, and   *)
(* nothing else was (load_test_gt02.py:54).                                *)
THEOREM ConsistentLoadsAreExact == Spec => ConsistentIsExact
<1>1. ASSUME TestInv, [Next]_vars, verdict' = "consistent", verdict # "consistent"
      PROVE  Counted = {load} \X Requests
  <2> DEFINE mine == {load} \X Requests
  <2>1. DebugTotal
    BY <1>1
       DEF Next, Client, Server, Handler, Fire, TimeOut, Collect, Drain, Rerun, Enter,
           AddTokens, AddPrompt, Respond, ScrapeTokens, ScrapePrompt, Crash, vars, testVars
  <2>2. phase = "debug" /\ lock = NoOne /\ total = N * Tokens
    BY <1>1, <2>1 DEF DebugTotal, Consistent, Expected
  <2>3. Counted = Written
    BY <1>1, <2>2, CallNames DEF TestInv, CountInv, Locked, Inside, Counted, Written
  <2>4. Cardinality(Counted) \in Nat /\ IsFiniteSet(Counted)
    BY CallsFinite DEF Counted
  <2>5. Cardinality(Counted) = N
    <3> DEFINE m == Cardinality(Counted)
    <3>1. m \in Nat /\ Tokens * m = Tokens * N
      BY <1>1, <2>2, <2>3, <2>4, LoadAssumption DEF TestInv, CountInv, Sums
    <3> HIDE DEF m
    <3>2. \A x, y \in Nat : x > 0 /\ y > 0 => x * y > 0
      OBVIOUS
    <3>3. Tokens * (m - N) = 0 /\ Tokens * (N - m) = 0
      BY <3>1, LoadAssumption
    <3>4. ~(m > N)
      <4>1. m > N => m - N \in Nat /\ m - N > 0
        BY <3>1, LoadAssumption
      <4> QED
        BY <3>2, <3>3, <4>1, LoadAssumption
    <3>5. ~(N > m)
      <4>1. N > m => N - m \in Nat /\ N - m > 0
        BY <3>1, LoadAssumption
      <4> QED
        BY <3>2, <3>3, <4>1, LoadAssumption
    <3>6. m = N
      BY <3>1, <3>4, <3>5, LoadAssumption
    <3> QED
      BY <3>6 DEF m
  <2>6. mine \subseteq Calls
    BY <1>1 DEF TestInv, CountInv, Shape, Calls
  <2>7. IsFiniteSet(mine) /\ Cardinality(mine) = N
    BY LoadSize
  <2>8. CASE \A r \in Requests : client[r] = "got" => at[<<load, r>>] = "ended"
    <3>1. \A r \in Requests : client[r] = "got"
      BY <1>1, <2>2, LoadAssumption DEF TestInv, Answered, Requests
    <3>2. mine \subseteq Counted
      BY <2>6, <2>8, <3>1 DEF Counted
    <3> QED
      BY <2>4, <2>5, <2>7, <3>2, FS_Subset
  <2>9. CASE \A c \in Calls : c[1] # load => at[c] = "none"
    <3>1. Counted \subseteq mine
      BY <2>9 DEF Counted, Calls
    <3> QED
      BY <2>4, <2>5, <2>7, <3>1, FS_Subset
  <2> QED
    BY <1>1, <2>8, <2>9 DEF TestInv, Answered
<1> QED
  BY <1>1, TestAlways, PTL DEF Spec, ConsistentIsExact
(* While the mock has not died in this load, what is answered was counted. *)
AnsweredIsCounted ==
  crashed \/ \A r \in Requests : client[r] = "got" => at[<<load, r>>] = "ended"

LEMMA AnsweredStep ==
  TestInv /\ AnsweredIsCounted /\ [Next]_vars => AnsweredIsCounted'
<1> SUFFICES ASSUME TestInv, AnsweredIsCounted, [Next]_vars PROVE AnsweredIsCounted'
  OBVIOUS
<1> USE DEF testVars, callVars, crashVars
<1>0. \A r \in Requests : <<load, r>> \in Calls
  BY DEF TestInv, CountInv, Shape, Calls
(* Handlers that have ended stay, and a client that has got an answer      *)
(* stays.                                                                  *)
<1>1. ASSUME UNCHANGED <<load, crashed>>,
             \A r \in Requests : client'[r] = "got" => client[r] = "got",
             \A c \in Calls : at[c] = "ended" => at'[c] = "ended"
      PROVE  AnsweredIsCounted'
  BY <1>0, <1>1 DEF AnsweredIsCounted
<1>2. client \in [Requests -> {"queued", "waiting", "got", "failed", "cancelled"}]
  BY DEF TestInv, CountInv, Shape
<1>3. at \in [Calls -> {"none", "sleep", "add", "prompt", "respond", "ended"}]
  BY DEF TestInv, CountInv, Shape
<1>4. ASSUME NEW r \in Requests, Fire(r) PROVE AnsweredIsCounted'
  <2>1. at[<<load, r>>] = "none"
    BY <1>0, <1>4 DEF Fire, TestInv, Unfired
  <2>2. \A c \in Calls : at[c] = "ended" => at'[c] = "ended"
    BY <1>3, <1>4, <2>1 DEF Fire
  <2> QED
    BY <1>1, <1>2, <1>4, <2>2 DEF Fire
<1>5. ASSUME NEW r \in Requests, TimeOut(r) PROVE AnsweredIsCounted'
  BY <1>1, <1>2, <1>5 DEF TimeOut
<1>6. CASE Collect
  BY <1>1, <1>2, <1>6 DEF Collect, Queued
<1>7. CASE Drain \/ DebugTotal \/ ScrapeTokens \/ ScrapePrompt
  BY <1>1, <1>7 DEF Drain, DebugTotal, ScrapeTokens, ScrapePrompt
<1>8. CASE Rerun
  BY <1>8 DEF Rerun, AnsweredIsCounted
<1>9. CASE Crash
  BY <1>9 DEF Crash, AnsweredIsCounted
<1>10. ASSUME NEW c \in Calls, \/ Enter(c) \/ AddTokens(c)
                               \/ \E p \in 1 .. MaxPrompt : AddPrompt(c, p)
       PROVE  AnsweredIsCounted'
  <2>1. /\ at[c] # "ended" /\ UNCHANGED <<testVars, crashVars>>
        /\ \A d \in Calls : d # c => at'[d] = at[d]
    BY <1>3, <1>10 DEF Enter, AddTokens, AddPrompt
  <2> QED
    BY <1>1, <2>1
<1>11. ASSUME NEW c \in Calls, Respond(c) PROVE AnsweredIsCounted'
  <2>1. /\ \A d \in Calls : at[d] = "ended" => at'[d] = "ended"
        /\ at'[c] = "ended" /\ UNCHANGED <<load, crashed>>
        /\ c = <<c[1], c[2]>> /\ c[2] \in Requests
    BY <1>3, <1>11 DEF Respond, Calls
  <2>2. \A r \in Requests : client'[r] = "got" => client[r] = "got" \/ c = <<load, r>>
    BY <1>2, <1>11, <2>1 DEF Respond
  <2> QED
    BY <1>0, <2>1, <2>2 DEF AnsweredIsCounted
<1>12. CASE UNCHANGED vars
  BY <1>12 DEF vars, AnsweredIsCounted
<1> QED
  BY <1>4, <1>5, <1>6, <1>7, <1>8, <1>9, <1>10, <1>11, <1>12
     DEF Next, Client, Server, Handler

(* A load that every client saw through is only called inconsistent when   *)
(* the mock died in it or still counts an earlier one, never for the order *)
(* in which the handlers ran (load_test_gt02.py:54).                       *)
THEOREM NoFalseAlarm == Spec => AlarmHasCause
<1>1. Init => AnsweredIsCounted
  BY DEF Init, AnsweredIsCounted
<1>2. ASSUME TestInv, AnsweredIsCounted, [Next]_vars,
             verdict' = "inconsistent", verdict # "inconsistent"
      PROVE  crashed \/ \E c \in Calls : c[1] < load /\ at[c] # "none"
  <2> SUFFICES ASSUME ~crashed, \A c \in Calls : c[1] < load => at[c] = "none"
               PROVE  FALSE
    OBVIOUS
  <2>1. DebugTotal
    BY <1>2
       DEF Next, Client, Server, Handler, Fire, TimeOut, Collect, Drain, Rerun, Enter,
           AddTokens, AddPrompt, Respond, ScrapeTokens, ScrapePrompt, Crash, vars, testVars
  <2>2. phase = "debug" /\ lock = NoOne /\ next = N + 1
    BY <1>2, <2>1 DEF DebugTotal, TestInv, Answered
  <2>3. Counted = Written
    BY <1>2, <2>2, CallNames DEF TestInv, CountInv, Locked, Inside, Counted, Written
  <2>4. Counted = {load} \X Requests
    <3>1. \A r \in Requests : client[r] = "got"
      BY <1>2, <2>2, LoadAssumption DEF TestInv, Answered, Requests
    <3>2. \A r \in Requests : <<load, r>> \in Calls /\ at[<<load, r>>] = "ended"
      BY <1>2, <3>1 DEF AnsweredIsCounted, TestInv, CountInv, Shape, Calls
    <3>3. load \in Nat /\ \A c \in Calls : c[1] \in Nat /\ c[2] \in Requests /\ c = <<c[1], c[2]>>
      BY <1>2 DEF TestInv, CountInv, Shape, Calls
    <3>4. \A c \in Calls : c[1] # load => at[c] = "none"
      BY <1>2, <3>3 DEF TestInv, Unfired
    <3> QED
      BY <3>2, <3>3, <3>4 DEF Counted
  <2>5. Cardinality(Counted) = N
    BY <2>4, LoadSize
  <2>6. total = Tokens * N /\ Tokens * N = Expected /\ Tokens * (next - 1) = Expected
    BY <1>2, <2>2, <2>3, <2>5, LoadAssumption DEF TestInv, CountInv, Sums, Expected
  <2> QED
    BY <1>2, <2>1, <2>6 DEF DebugTotal, Consistent
<1> QED
  BY <1>1, <1>2, AnsweredStep, TestAlways, PTL DEF Spec, AlarmHasCause
==============================================================================
