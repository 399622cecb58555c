------------------------------- MODULE LoadTest -------------------------------
(***************************************************************************)
(* The regression test of the token counter: mock_vllm_metrics.py counts   *)
(* the tokens of concurrent requests under a lock and exposes them, and    *)
(* load_test_gt02.py fires a burst of requests at it from a pool of        *)
(* threads and judges, from what the mock counted, whether the burst may   *)
(* be held against the agent, which scrapes the counter all the while.     *)
(*                                                                         *)
(* The clients are the pool's threads, the calls the handlers they cause,  *)
(* each in a thread of the server's own: a client that gives up does not   *)
(* stop its handler.  The test may be run again against the same mock, and *)
(* the mock may die and be started again.                                  *)
(***************************************************************************)
EXTENDS Integers, FiniteSets

CONSTANTS
  N,           \* N_REQUESTS
  Concurrency, \* CONCURRENCY: threads of the pool
  Tokens,      \* completion tokens of a request, 50
  MaxPrompt,   \* prompt tokens of a request, at most: at least 1
  MaxLoads,    \* bound: times the test is run
  MaxScrapes,  \* bound: times the agent scrapes
  MaxCrashes   \* bound: times the mock dies

ASSUME LoadAssumption ==
  /\ N \in Nat \ {0} /\ Concurrency \in Nat \ {0}
  /\ Tokens \in Nat \ {0} /\ MaxPrompt \in Nat \ {0}
  /\ MaxLoads \in Nat \ {0} /\ MaxScrapes \in Nat /\ MaxCrashes \in Nat

VARIABLES
  load, phase, \* which run of the test, and where its main thread is
  client,      \* the requests of the run
  next,        \* how many results list(executor.map(...)) has, plus one
  raised,      \* one of them was an exception
  verdict,
  at, reg,     \* the handlers: where each is, and what it read of a counter
  lock,        \* who holds _lock
  total, prompts,     \* _total_tokens, _total_prompt_tokens
  seen, scraped,      \* what /metrics has read, and what it answered last
  scrapes, crashes,
  crashed      \* history: the mock died in this run of the test

testVars == <<load, phase, client, next, raised, verdict>>
callVars == <<at, reg>>
countVars == <<total, prompts>>
scrapeVars == <<seen, scraped, scrapes>>
crashVars == <<crashes, crashed>>
vars == <<testVars, callVars, lock, countVars, scrapeVars, crashVars>>

Requests == 1 .. N
Calls == (1 .. MaxLoads) \X Requests
NoOne == <<0, 0>>
Metrics == <<0, 1>>

Expected == N * Tokens
Waiting == {r \in Requests : client[r] = "waiting"}
Queued == {r \in Requests : client[r] = "queued"}
Counted == {c \in Calls : at[c] \in {"respond", "ended"}}

Init ==
  /\ load = 1 /\ phase = "pool"
  /\ client = [r \in Requests |-> "queued"]
  /\ next = 1 /\ raised = FALSE /\ verdict = "none"
  /\ at = [c \in Calls |-> "none"] /\ reg = [c \in Calls |-> 0]
  /\ lock = NoOne
  /\ total = 0 /\ prompts = 0
  /\ seen = 0 /\ scraped = [tokens |-> 0, prompts |-> 0] /\ scrapes = 0
  /\ crashes = 0 /\ crashed = FALSE

------------------------------------------------------------------------------
(* fire_request, in the threads of the pool and in order of submission.    *)

(* A thread posts the next request: the server starts a handler, or        *)
(* refuses.                                                                *)
Fire(r) ==
  /\ phase = "pool" /\ client[r] = "queued"
  /\ \A s \in Queued : r <= s
  /\ Cardinality(Waiting) < Concurrency
  /\ \/ /\ client' = [client EXCEPT ![r] = "waiting"]
        /\ at' = [at EXCEPT ![<<load, r>>] = "sleep"]
     \/ client' = [client EXCEPT ![r] = "failed"] /\ UNCHANGED at
  /\ UNCHANGED <<load, phase, next, raised, verdict, reg, lock, countVars, scrapeVars,
                 crashVars>>

(* Mutant: requests.post without a timeout.                                *)
WaitForEver(r) == FALSE /\ UNCHANGED vars

(* timeout=10: the client gives up, the handler does not.                  *)
TimeOut(r) ==
  /\ client[r] = "waiting"
  /\ client' = [client EXCEPT ![r] = "failed"]
  /\ UNCHANGED <<load, phase, next, raised, verdict, callVars, lock, countVars,
                 scrapeVars, crashVars>>

(* list(executor.map(...)) takes the results in order; the first exception *)
(* cancels what no thread has begun.                                       *)
Collect ==
  /\ phase = "pool" /\ next <= N /\ ~raised
  /\ \/ client[next] = "got" /\ next' = next + 1 /\ UNCHANGED <<client, raised>>
     \/ /\ client[next] = "failed" /\ raised' = TRUE
        /\ client' = [r \in Requests |-> IF r \in Queued THEN "cancelled" ELSE client[r]]
        /\ UNCHANGED next
  /\ UNCHANGED <<load, phase, verdict, callVars, lock, countVars, scrapeVars, crashVars>>

(* The pool is left when its threads are done; an exception ends the test. *)
Drain ==
  /\ phase = "pool" /\ Waiting = {}
  /\ \/ raised /\ phase' = "over"
     \/ next = N + 1 /\ phase' = "debug"
  /\ UNCHANGED <<load, client, next, raised, verdict, callVars, lock, countVars,
                 scrapeVars, crashVars>>

(* Mutant: what the server counted is printed but not compared.            *)
ResponsesMatch(t) == Tokens * (next - 1) = Expected

(* total_from_responses and total_from_server_state against expected.      *)
Consistent(t) == Tokens * (next - 1) = Expected /\ t = Expected

(* GET /debug/total, without a timeout, and the verdict.                   *)
DebugTotal ==
  /\ phase = "debug" /\ lock = NoOne
  /\ verdict' = IF Consistent(total) THEN "consistent" ELSE "inconsistent"
  /\ phase' = "over"
  /\ UNCHANGED <<load, client, next, raised, callVars, lock, countVars, scrapeVars,
                 crashVars>>

(* The test is run again, against whatever the mock has counted.           *)
Rerun ==
  /\ phase = "over" /\ load < MaxLoads
  /\ load' = load + 1 /\ phase' = "pool"
  /\ client' = [r \in Requests |-> "queued"]
  /\ next' = 1 /\ raised' = FALSE /\ verdict' = "none" /\ crashed' = FALSE
  /\ UNCHANGED <<callVars, lock, countVars, scrapeVars, crashes>>

------------------------------------------------------------------------------
(* chat_completions, in a thread of the server: the lock is taken after    *)
(* the sleep; += reads a counter and then writes it.                       *)

(* Mutant: the handler does not take the lock.                             *)
EnterUnlocked(c) ==
  /\ at[c] = "sleep"
  /\ at' = [at EXCEPT ![c] = "add"] /\ reg' = [reg EXCEPT ![c] = total]
  /\ UNCHANGED <<testVars, lock, countVars, scrapeVars, crashVars>>

Enter(c) ==
  /\ at[c] = "sleep" /\ lock = NoOne
  /\ lock' = c
  /\ at' = [at EXCEPT ![c] = "add"] /\ reg' = [reg EXCEPT ![c] = total]
  /\ UNCHANGED <<testVars, countVars, scrapeVars, crashVars>>

AddTokens(c) ==
  /\ at[c] = "add"
  /\ total' = reg[c] + Tokens
  /\ at' = [at EXCEPT ![c] = "prompt"] /\ reg' = [reg EXCEPT ![c] = prompts]
  /\ UNCHANGED <<testVars, lock, prompts, scrapeVars, crashVars>>

AddPrompt(c, p) ==
  /\ at[c] = "prompt"
  /\ prompts' = reg[c] + p
  /\ lock' = NoOne
  /\ at' = [at EXCEPT ![c] = "respond"] /\ reg' = [reg EXCEPT ![c] = 0]
  /\ UNCHANGED <<testVars, total, scrapeVars, crashVars>>

(* The response reaches a client that still waits.                         *)
Respond(c) ==
  /\ at[c] = "respond"
  /\ at' = [at EXCEPT ![c] = "ended"]
  /\ client' = IF c[1] = load /\ client[c[2]] = "waiting"
               THEN [client EXCEPT ![c[2]] = "got"] ELSE client
  /\ UNCHANGED <<load, phase, next, raised, verdict, reg, lock, countVars, scrapeVars,
                 crashVars>>

(* Mutant: /metrics reads the two counters without the lock.               *)
ScrapeTokensUnlocked ==
  /\ scrapes < MaxScrapes
  /\ lock' = Metrics /\ seen' = total
  /\ UNCHANGED <<testVars, callVars, countVars, scraped, scrapes, crashVars>>

(* GET /metrics: both counters under one lock.                             *)
ScrapeTokens ==
  /\ scrapes < MaxScrapes /\ lock = NoOne
  /\ lock' = Metrics /\ seen' = total
  /\ UNCHANGED <<testVars, callVars, countVars, scraped, scrapes, crashVars>>

(* Mutant: /metrics returns with the lock held.                            *)
ScrapePromptHolding ==
  /\ lock = Metrics /\ scrapes < MaxScrapes
  /\ scraped' = [tokens |-> seen, prompts |-> prompts]
  /\ scrapes' = scrapes + 1
  /\ UNCHANGED <<testVars, callVars, countVars, seen, lock, crashVars>>

ScrapePrompt ==
  /\ lock = Metrics
  /\ scraped' = [tokens |-> seen, prompts |-> prompts]
  /\ lock' = NoOne /\ seen' = 0 /\ scrapes' = scrapes + 1
  /\ UNCHANGED <<testVars, callVars, countVars, crashVars>>

(* The mock dies, is started again and counts from nothing; what waited    *)
(* for it fails.                                                           *)
Crash ==
  /\ crashes < MaxCrashes
  /\ crashes' = crashes + 1 /\ crashed' = TRUE
  /\ at' = [c \in Calls |-> "none"] /\ reg' = [c \in Calls |-> 0]
  /\ lock' = NoOne /\ total' = 0 /\ prompts' = 0 /\ seen' = 0
  /\ client' = [r \in Requests |-> IF r \in Waiting THEN "failed" ELSE client[r]]
  /\ IF phase = "debug" THEN phase' = "over" /\ raised' = TRUE
                        ELSE UNCHANGED <<phase, raised>>
  /\ UNCHANGED <<load, next, verdict, scraped, scrapes>>

------------------------------------------------------------------------------
Client == (\E r \in Requests : Fire(r) \/ TimeOut(r)) \/ Collect \/ Drain
Handler == \E c \in Calls : \/ Enter(c) \/ AddTokens(c) \/ Respond(c)
                            \/ \E p \in 1 .. MaxPrompt : AddPrompt(c, p)
Server == Handler \/ ScrapePrompt

Next == Client \/ DebugTotal \/ Rerun \/ Server \/ ScrapeTokens \/ Crash

(* The threads of the test are scheduled and its timeouts expire; nothing  *)
(* is asked of the mock.                                                   *)
Spec == Init /\ [][Next]_vars /\ WF_vars(Client)

------------------------------------------------------------------------------
(* No concurrent request is lost from the counter or counted twice: the    *)
(* failure GT-00b, that the mock exists to rule out of the load itself     *)
(* (mock_vllm_metrics.py:44).                                              *)
CountsExact == lock = NoOne => total = Tokens * Cardinality(Counted)

(* A scrape is of one instant: the prompts it shows are those of requests  *)
(* whose completions it shows (mock_vllm_metrics.py:67).                   *)
ScrapeCoherent ==
  \E n \in 0 .. Cardinality(Calls) :
    /\ scraped.tokens = n * Tokens
    /\ n <= scraped.prompts /\ scraped.prompts <= n * MaxPrompt

(* A load is called consistent only if the mock counted every request of   *)
(* it, and no other, so that what the agent must report is known           *)
(* (load_test_gt02.py:54).                                                 *)
ConsistentIsExact ==
  [][verdict' = "consistent" /\ verdict # "consistent" =>
       Counted = {load} \X Requests]_vars

(* A load that every client saw through is only called inconsistent when   *)
(* the mock had served an earlier one or died in between, never for the    *)
(* order in which the handlers ran (load_test_gt02.py:54).                 *)
AlarmHasCause ==
  [][verdict' = "inconsistent" /\ verdict # "inconsistent" =>
       crashed \/ \E c \in Calls : c[1] < load /\ at[c] # "none"]_vars

(* The pool is left even if the mock never answers (load_test_gt02.py:28), *)
(* and the verdict comes if the mock goes on: nobody keeps its lock        *)
(* (load_test_gt02.py:46, mock_vllm_metrics.py:67).                        *)
LoadEnds ==
  /\ phase = "pool" ~> phase # "pool"
  /\ WF_vars(Server) /\ WF_vars(DebugTotal) => (phase = "debug" ~> phase = "over")

==============================================================================
