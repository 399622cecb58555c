--------------------------- MODULE TokenAccounting ---------------------------
(***************************************************************************)
(* How the tokens an engine generates become the TokensInWindow of the     *)
(* agent's events: the engine's cumulative counter, the Prometheus token   *)
(* source that scrapes it (agent/tokens/prometheus_source.go), and the     *)
(* baseline and the differences main and collectAndEnqueue compute from    *)
(* it (agent/main.go).  The engine may restart, its counter starting over; *)
(* a scrape may fail, or succeed with a part of the page; the agent may    *)
(* restart; a window may match no PID.                                     *)
(*                                                                         *)
(* A measuring window is one action at the instant of its scrape: before   *)
(* it the handler touches no token state, after it only its own locals.    *)
(* How a window's tokens are split among several PIDs is module            *)
(* Attribution.  The series an engine exposes are taken to be counters:    *)
(* finite, not negative, falling only when it restarts.                    *)
(***************************************************************************)
EXTENDS Integers

CONSTANTS
  MaxGenerated, \* bound: tokens generated in a behaviour
  MaxRestarts,  \* bound: restarts of the engine and of the agent
  MaxPhantom    \* bound: tokens that short pages let be reported again

ASSUME TokenAssumption ==
  MaxGenerated \in Nat /\ MaxRestarts \in Nat /\ MaxPhantom \in Nat

VARIABLES
  counter,      \* the engine's cumulative counter, over all its series
  generated,    \* history: tokens generated in all lives of the engine
  prev,         \* main's previousCumulative
  baseline,     \* main's baselineEstablished
  sourcePrev,   \* PrometheusTokenSource.previousCumulative
  emitted,      \* history: tokens in enqueued events, over all agent lives
  unmatched,    \* history: tokens of windows that matched no PID
  seen,         \* history: generated at the latest successful scrape
  short,        \* history: what that scrape read less than the counter
  phantom,      \* history: what readings that fell, and first readings that
                \* were short, give the agent to report a second time
  base,         \* history: the reading that is the baseline
  credited,     \* history: emitted + unmatched - phantom at that reading
  regressed,    \* history: the engine restarted since the latest success
  restarts      \* restarts so far

engineVars == <<counter, generated>>
agentVars == <<prev, baseline, sourcePrev>>
tokenHistory == <<emitted, unmatched, seen, short, phantom, base, credited,
                  regressed>>
tokenVars == <<engineVars, agentVars, tokenHistory, restarts>>

(* CumulativeTokens returned an error: no answer within a second, a status *)
(* other than 200, a line too long, no series of the metric with a number. *)
Unavailable == -1

(* What a call of CumulativeTokens may return.  The sum of the series it   *)
(* has parsed is a success also when it is not of all of them: LimitReader *)
(* ends the page after 1 MB as if it ended there, between two series or    *)
(* within the digits of one, and a series without a number is passed over. *)
ScrapeResults == {Unavailable} \cup 0 .. counter

Success(result) == result # Unavailable

(* CumulativeTokens: a sum below the previous one is taken as a new        *)
(* baseline of the source; the caller gets the current value either way.   *)
CumulativeTokens(result) ==
  IF Success(result) THEN sourcePrev' = result ELSE UNCHANGED sourcePrev

(* main, from NewPrometheusTokenSource to the loop: a fresh source, and a  *)
(* first reading that is the baseline if it succeeds.                      *)
StartAgent(result) ==
  /\ prev' = IF Success(result) THEN result ELSE 0
  /\ baseline' = Success(result)
  /\ sourcePrev' = IF Success(result) THEN result ELSE 0

(* The engine has counted some tokens before the agent first comes up.     *)
TokenInit ==
  /\ counter \in 0 .. MaxGenerated
  /\ generated = counter
  /\ baseline \in BOOLEAN
  /\ prev \in IF baseline THEN 0 .. counter ELSE {0}
  /\ sourcePrev = prev
  /\ emitted = 0
  /\ unmatched = 0
  /\ seen = counter
  /\ short = counter - prev
  /\ phantom = 0
  /\ base = prev
  /\ credited = 0
  /\ regressed = FALSE
  /\ restarts = 0

Generate ==
  /\ generated < MaxGenerated
  /\ counter' = counter + 1
  /\ generated' = generated + 1
  /\ UNCHANGED <<agentVars, tokenHistory, restarts>>

EngineRestart ==
  /\ restarts < MaxRestarts
  /\ restarts' = restarts + 1
  /\ counter' = 0
  /\ regressed' = TRUE
  /\ UNCHANGED <<generated, agentVars, emitted, unmatched, seen, short, phantom,
                 base, credited>>

AgentRestart(result) ==
  /\ restarts < MaxRestarts
  /\ restarts' = restarts + 1
  /\ StartAgent(result)
  /\ IF Success(result)
     THEN /\ seen' = generated
          /\ short' = counter - result
          /\ phantom' = phantom + (counter - result)
          /\ base' = result
     ELSE UNCHANGED <<seen, short, phantom, base>>
  /\ phantom' <= MaxPhantom
  /\ credited' = emitted + unmatched - phantom'
  /\ regressed' = FALSE
  /\ UNCHANGED <<engineVars, emitted, unmatched>>

------------------------------------------------------------------------------
(* collectAndEnqueue.                                                      *)

(* Mutant: an unavailable source counts as a reading of zero.              *)
ReadingOrZero(result) == IF Success(result) THEN result ELSE 0

(* current: an unavailable source repeats the previous reading.            *)
Reading(result) == IF Success(result) THEN result ELSE prev

(* Mutant: a late first reading is not taken as the baseline.              *)
PreviousFromStart(result) == prev

(* What current is compared with: a first reading after a failed start is  *)
(* its own baseline.                                                       *)
Previous(result) == IF Success(result) /\ ~baseline THEN result ELSE prev

(* tokensInWindow, cut off at zero.                                        *)
Delta(current, previous) ==
  IF current < previous THEN 0 ELSE current - previous

(* What the histories keep of a successful scrape.  The first of an agent, *)
(* or of an engine since its restart, is what later ones are measured from.*)
Witness(result, reported) ==
  /\ seen' = generated
  /\ short' = counter - result
  /\ phantom' = phantom + (IF ~baseline THEN counter - result
                           ELSE IF regressed THEN 0 ELSE Delta(prev, result))
  /\ phantom' <= MaxPhantom
  /\ IF regressed \/ ~baseline
     THEN base' = result /\ credited' = reported - phantom'
     ELSE UNCHANGED <<base, credited>>
  /\ regressed' = FALSE

(* The token part of the handler: the scrape, the difference,              *)
(* previousCumulative moved on in every case; the tokens go into the       *)
(* events of the matched PIDs, and nowhere when no PID matched.            *)
Window(result, matched) ==
  LET tokens == Delta(Reading(result), Previous(result))
  IN /\ CumulativeTokens(result)
     /\ prev' = Reading(result)
     /\ baseline' = (baseline \/ Success(result))
     /\ emitted' = emitted + (IF matched THEN tokens ELSE 0)
     /\ unmatched' = unmatched + (IF matched THEN 0 ELSE tokens)
     /\ IF Success(result) THEN Witness(result, emitted' + unmatched')
        ELSE UNCHANGED <<seen, short, phantom, base, credited, regressed>>
     /\ UNCHANGED <<engineVars, restarts>>

TokenNext ==
  \/ Generate
  \/ EngineRestart
  \/ \E result \in ScrapeResults : AgentRestart(result)
  \/ \E result \in ScrapeResults, matched \in BOOLEAN : Window(result, matched)

TokenSpec == TokenInit /\ [][TokenNext]_tokenVars

------------------------------------------------------------------------------
TokenTypeOK ==
  /\ counter \in 0 .. MaxGenerated
  /\ generated \in 0 .. MaxGenerated
  /\ prev \in 0 .. MaxGenerated
  /\ baseline \in BOOLEAN
  /\ sourcePrev \in 0 .. MaxGenerated
  /\ emitted \in Nat
  /\ unmatched \in Nat
  /\ seen \in 0 .. MaxGenerated
  /\ short \in 0 .. MaxGenerated
  /\ phantom \in 0 .. MaxPhantom
  /\ base \in 0 .. MaxGenerated
  /\ credited \in Int
  /\ regressed \in BOOLEAN
  /\ restarts \in 0 .. MaxRestarts

(* Whatever restarts, fails or comes late, the agents together report no   *)
(* more tokens than had been generated by the latest successful scrape,    *)
(* but for what short pages account for: the amounts by which a reading    *)
(* fell while the engine stayed up, and those that the first reading of an *)
(* agent left out.  With whole pages nothing is invented                   *)
(* (main.go:244-257).                                                      *)
PhantomsBounded == emitted + unmatched <= seen + phantom

(* "zera o delta desta janela para evitar spike artificial"                *)
(* (main.go:246): a window reports at most what was generated since the    *)
(* latest successful scrape, of whichever agent, and what that one scrape  *)
(* left out; what earlier ones did not read never comes back in one piece. *)
SpikesBounded ==
  [][emitted' + unmatched' - (emitted + unmatched)
       <= (generated - seen) + short]_tokenVars

(* Between two restarts the differences telescope: failed scrapes, however *)
(* many and wherever, lose nothing, the next success catches up, and a     *)
(* reading that falls is reported again by exactly as much as it fell.     *)
(* After a restart of the engine the accounting is exact again from the    *)
(* first scrape on (prometheus_source.go:143-150).                         *)
FailuresLoseNothing ==
  baseline /\ ~regressed =>
    emitted + unmatched - phantom - credited = prev - base

(* What the three need of each other: the tokens a next scrape could       *)
(* report were generated after the latest one or left out by it, and in    *)
(* all are no more than generated; without a restart of the engine the     *)
(* counter has not fallen below what the agent remembers.                  *)
Outstanding ==
  /\ seen <= generated
  /\ counter <= generated
  /\ regressed => counter <= generated - seen
  /\ baseline => counter - prev <= (generated - seen) + short
  /\ baseline => emitted + unmatched + (counter - prev) <= generated + phantom
  /\ baseline /\ ~regressed => prev <= counter

IndInv == TokenTypeOK /\ Outstanding /\ PhantomsBounded /\ FailuresLoseNothing

==============================================================================
