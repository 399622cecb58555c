---------------------------- MODULE EnergySampler ----------------------------
(***************************************************************************)
(* How the collectors of the experiments measure one run: a thread samples *)
(* the power of the GPU while the main thread infers, and the main thread  *)
(* then integrates the samples and subtracts the idle power.  The class    *)
(* ContinuousNVMLSampler is the same in all five scripts but for what it   *)
(* returns; script tells them apart (E0 is scripts/e1_ensemble_collector). *)
(*                                                                         *)
(* Time is a clock of ticks of one sampling interval's order; steps of the *)
(* two threads take no time of their own, and the clock may advance        *)
(* between any two.  Energies are twice what the code computes, so that    *)
(* trapezoids are integers.                                                *)
(***************************************************************************)
EXTENDS Integers, Sequences, SequencesExt

CONSTANTS
  Scripts,      \* which of the five are considered
  Runs,         \* bound: --runs
  Powers,       \* watts of the GPU
  MaxPower,     \* the highest of them
  CpuPower,     \* watts of the CPU package, steady
  CounterRange, \* where the energy counter of RAPL wraps
  CounterStarts,\* where it may stand at first
  Interval,     \* time.sleep(0.010) of the sampler
  MaxRun,       \* bound: how long an inference may take
  JoinTimeout,  \* thread.join(timeout=1.0)
  Pause,        \* time.sleep(1.0) between the runs of E4
  IdleReadings, \* readings of measure_baseline
  MinSamples,   \* MIN_SAMPLES of E3
  MaxFailures   \* bound: readings of a sensor that fail

ASSUME SamplerAssumption ==
  /\ Scripts \subseteq {"E0", "E1", "E2", "E3", "E4"}
  /\ Runs \in Nat \ {0} /\ IdleReadings \in Nat \ {0}
  /\ MaxPower \in Nat /\ Powers \subseteq 0 .. MaxPower
  /\ CpuPower \in Nat /\ CounterRange \in Nat \ {0}
  /\ CounterStarts \subseteq 0 .. CounterRange - 1
  /\ Interval \in Nat \ {0} /\ MaxRun \in Nat /\ JoinTimeout \in Nat /\ Pause \in Nat
  /\ MinSamples \in Nat \ {0, 1} /\ MaxFailures \in Nat

VARIABLES
  script, boot, \* boot: where the counter stood at first
  now, power,   \* the clock and the power of the GPU
  running, samples,      \* the sampler objects
  thread, stamp, wake,   \* a sampler thread per run: where it is, its now
  pc, run,      \* the main thread
  idle, k, last,         \* measure_baseline: sum, iteration, last_rapl
  t0, c0,       \* t0_time, t0_rapl
  stopped,      \* when the run was stopped, for the timeout; or recorded,
                \* for the pause
  n, i, joules, \* stop_and_integrate: n_samples, its loop, its sum
  result,       \* what is recorded of a run, until the next begins
  failures,     \* readings that failed
  misread       \* history: one of them was of the energy counter

faultVars == <<failures, misread>>
clockVars == <<now, power>>
threadVars == <<samples, thread, stamp, wake>>
idleVars == <<idle, k, last>>
sumVars == <<n, i, joules>>
vars == <<script, boot, clockVars, running, threadVars, pc, run, idleVars, t0, c0,
          stopped, sumVars, result, faultVars>>

RunIds == 1 .. Runs

(* Mutant: the sampler is made once, before the series.                    *)
SharedSampler(r) == 1

(* The sampler object of a run: every run makes its own.                   *)
SamplerOf(r) == r

Samples == samples[SamplerOf(run)]

------------------------------------------------------------------------------
(* The counter of RAPL at a time, and what a reading of it may give: 0 on  *)
(* a failure.  Only E0 and E1 read it around a run.                        *)

CounterAt(t) == (boot + CpuPower * t) % CounterRange
UsesCpu == script \in {"E0", "E1"}

Reading(c, t) ==
  \/ c = CounterAt(t) /\ UNCHANGED faultVars
  \/ /\ c = 0 /\ failures < MaxFailures
     /\ failures' = failures + 1 /\ misread' = TRUE

ReadingOfRun(c) == IF UsesCpu THEN Reading(c, now) ELSE c = 0 /\ UNCHANGED faultVars

(* read_mW: the power of the GPU, or 0 when the driver fails.              *)
ReadMw(w) ==
  \/ w = power /\ UNCHANGED faultVars
  \/ /\ w = 0 /\ failures < MaxFailures
     /\ failures' = failures + 1 /\ UNCHANGED misread

CounterValues == {0, CounterAt(now), CounterAt(now + 1)}

------------------------------------------------------------------------------
(* No run yet.                                                             *)
None == [net |-> 0, dt |-> 0, span |-> 0, accepted |-> FALSE]

Init ==
  /\ script \in Scripts /\ boot \in CounterStarts
  /\ now = 0 /\ power \in Powers
  /\ running = [r \in RunIds |-> FALSE]
  /\ samples = [r \in RunIds |-> << >>]
  /\ thread = [r \in RunIds |-> "none"]
  /\ stamp = [r \in RunIds |-> 0] /\ wake = [r \in RunIds |-> 0]
  /\ pc = "idle" /\ run = 1
  /\ idle = 0 /\ k = 0 /\ last = CounterAt(0)
  /\ t0 = 0 /\ c0 = 0 /\ stopped = 0
  /\ n = 0 /\ i = 0 /\ joules = 0
  /\ result = None
  /\ failures = 0 /\ misread = FALSE

(* An iteration of measure_baseline: sleep, the energy since the reading   *)
(* before, and the power of the GPU.  A failure is of one sensor or of the *)
(* other.                                                                  *)
MeasureIdle(c, w) ==
  /\ pc = "idle"
  /\ now' = now + 1 /\ UNCHANGED power
  /\ \/ Reading(c, now + 1) /\ w = power
     \/ c = CounterAt(now + 1) /\ ReadMw(w)
  /\ idle' = idle + (c - last) + w
  /\ IF k + 1 = IdleReadings THEN pc' = "begin" /\ k' = 0 /\ last' = 0
                             ELSE k' = k + 1 /\ last' = c /\ UNCHANGED pc
  /\ UNCHANGED <<script, boot, running, threadVars, run, t0, c0, stopped, sumVars, result>>

(* E4 is still in the pause after a run; the thread of that run may not be. *)
Pausing == pc = "begin" /\ script = "E4" /\ run > 1 /\ now < stopped + Pause

(* The readings at the start of a run.                                     *)
Begin(c) ==
  /\ pc = "begin" /\ ~Pausing
  /\ ReadingOfRun(c)
  /\ t0' = now /\ c0' = c
  /\ result' = None
  /\ stopped' = 0
  /\ pc' = "start"
  /\ UNCHANGED <<script, boot, clockVars, running, threadVars, run, idleVars,
                 sumVars>>

(* start(): a new list, the flag and a new thread.                         *)
Start ==
  /\ pc = "start"
  /\ samples' = [samples EXCEPT ![SamplerOf(run)] = << >>]
  /\ running' = [running EXCEPT ![SamplerOf(run)] = TRUE]
  /\ thread' = [thread EXCEPT ![run] = "loop"]
  /\ pc' = "infer"
  /\ UNCHANGED <<script, boot, clockVars, stamp, wake, run, idleVars, t0, c0, stopped,
                 sumVars, result, faultVars>>

(* The inference ends, and stop_and_integrate lowers the flag.             *)
Stop ==
  /\ pc = "infer"
  /\ running' = [running EXCEPT ![SamplerOf(run)] = FALSE]
  /\ stopped' = now
  /\ pc' = "join"
  /\ UNCHANGED <<script, boot, clockVars, threadVars, run, idleVars, t0, c0,
                 sumVars, result, faultVars>>

(* Mutant: join() without a timeout.                                       *)
JoinForEver ==
  /\ pc = "join"
  /\ thread[run] = "ended"
  /\ n' = Len(Samples) /\ i' = 1 /\ joules' = 0
  /\ pc' = "sum"
  /\ UNCHANGED <<script, boot, clockVars, running, threadVars, run, idleVars, t0, c0,
                 stopped, result, faultVars>>

(* thread.join(timeout): the thread has ended or is left to itself.        *)
Join ==
  /\ pc = "join"
  /\ \/ thread[run] = "ended"
     \/ thread[run] # "ended" /\ now >= stopped + JoinTimeout
  /\ n' = Len(Samples) /\ i' = 1 /\ joules' = 0
  /\ pc' = "sum"
  /\ UNCHANGED <<script, boot, clockVars, running, threadVars, run, idleVars, t0, c0,
                 stopped, result, faultVars>>

(* Mutant: every trapezoid starts at the first sample.                     *)
TrapezoidFromFirst(s, j) == (s[j][2] + s[j + 1][2]) * (s[j + 1][1] - s[1][1])

(* Twice the trapezoid between sample j and the next.                      *)
Trapezoid(s, j) == (s[j][2] + s[j + 1][2]) * (s[j + 1][1] - s[j][1])

(* One iteration of the sum, over the list that a thread left to itself    *)
(* may still append to; fewer than two samples are no energy.              *)
Sum ==
  /\ pc = "sum"
  /\ IF i < n
     THEN /\ joules' = joules + Trapezoid(Samples, i)
          /\ i' = i + 1
          /\ UNCHANGED pc
     ELSE pc' = "record" /\ UNCHANGED <<joules, i>>
  /\ UNCHANGED <<script, boot, clockVars, running, threadVars, run, idleVars, t0, c0,
                 stopped, n, result, faultVars>>

Clamp(x) == IF x < 0 THEN 0 ELSE x

(* Gross energy: RAPL's between the two readings counts in E0 and E1.      *)
Gross(c, dt) == (IF UsesCpu /\ dt > 0 THEN 2 * (c - c0) ELSE 0) + joules

(* What the idle power makes of a duration; idle is a sum of readings, so  *)
(* everything it is compared with is multiplied by their number.  E4       *)
(* records the gross energy.                                               *)
Floor(dt) == IF script = "E4" THEN 0 ELSE 2 * idle * dt

(* Mutant: the idle power is not subtracted for the time of the join.      *)
NetOfInference(c, dt) == Clamp(IdleReadings * Gross(c, dt) - Floor(stopped - t0))

(* max(0.0, total_joules - p_idle_pre * dt).                               *)
NetOf(c, dt) == Clamp(IdleReadings * Gross(c, dt) - Floor(dt))

(* E3 accepts a run above the floor with enough samples, the others all.   *)
Accepts(c, dt) ==
  script = "E3" => IdleReadings * Gross(c, dt) >= Floor(dt) /\ n >= MinSamples

(* What a run is recorded with, and (span) the time its samples cover; its *)
(* sampler and locals are then forgotten.                                  *)
Record(c) ==
  /\ pc = "record"
  /\ ReadingOfRun(c)
  /\ LET dt == now - t0
     IN result' = [net |-> NetOf(c, dt), dt |-> dt, accepted |-> Accepts(c, dt),
                   span |-> IF n = 0 THEN 0 ELSE Samples[n][1] - Samples[1][1]]
  /\ IF run < Runs THEN run' = run + 1 /\ pc' = "begin"
                   ELSE pc' = "done" /\ UNCHANGED run
  /\ samples' = [samples EXCEPT ![SamplerOf(run)] = << >>]
  /\ n' = 0 /\ i' = 0 /\ joules' = 0
  /\ stopped' = IF script = "E4" THEN now ELSE 0
  /\ UNCHANGED <<script, boot, clockVars, running, thread, stamp, wake, idleVars, t0, c0>>
------------------------------------------------------------------------------
(* The sampler threads; a run has one until its thread sees the flag down. *)

(* while self.running                                                      *)
Check(r) ==
  /\ thread[r] = "loop"
  /\ thread' = [thread EXCEPT ![r] = IF running[SamplerOf(r)] THEN "awake" ELSE "ended"]
  /\ UNCHANGED <<faultVars, stamp, wake, samples>>

Stamp(r) ==
  /\ thread[r] = "awake"
  /\ stamp' = [stamp EXCEPT ![r] = now]
  /\ thread' = [thread EXCEPT ![r] = "read"]
  /\ UNCHANGED <<faultVars, wake, samples>>

(* read_mW takes as long as the driver takes, and gives 0 when it fails.   *)
Read(r, w) ==
  /\ thread[r] = "read"
  /\ ReadMw(w)
  /\ samples' = [samples EXCEPT ![SamplerOf(r)] = Append(@, <<stamp[r], w>>)]
  /\ thread' = [thread EXCEPT ![r] = "sleep"]
  /\ wake' = [wake EXCEPT ![r] = now + Interval]
  /\ stamp' = [stamp EXCEPT ![r] = 0]

(* Mutant: the thread does not sleep between two samples.                  *)
WakeAtOnce(r) ==
  /\ thread[r] = "sleep"
  /\ thread' = [thread EXCEPT ![r] = "loop"]
  /\ UNCHANGED <<faultVars, stamp, wake, samples>>

Wake(r) ==
  /\ thread[r] = "sleep"
  /\ now >= wake[r]
  /\ wake' = [wake EXCEPT ![r] = 0]
  /\ thread' = [thread EXCEPT ![r] = "loop"]
  /\ UNCHANGED <<faultVars, stamp, samples>>

(* Time passes while the main thread infers, for MaxRun at most, and while *)
(* it joins and computes, for JoinTimeout at most, and while it pauses.    *)
Tick ==
  /\ \/ pc = "infer" /\ now < t0 + MaxRun
     \/ pc \in {"join", "record"} /\ now < stopped + JoinTimeout
     \/ Pausing
  /\ now' = now + 1
  /\ power' \in Powers
  /\ UNCHANGED <<script, boot, running, threadVars, pc, run, idleVars, t0, c0, stopped,
                 sumVars, result, faultVars>>

------------------------------------------------------------------------------
Main == \/ \E c \in CounterValues : \/ \E w \in {0, power} : MeasureIdle(c, w)
                                      \/ Begin(c) \/ Record(c)
        \/ Start \/ Stop \/ Join \/ Sum

(* The threads are daemons: they die with the process.                     *)
Thread(r) ==
  /\ pc # "done"
  /\ Check(r) \/ Stamp(r) \/ (\E w \in {0, power} : Read(r, w)) \/ Wake(r)
  /\ UNCHANGED <<script, boot, clockVars, running, pc, run, idleVars, t0, c0, stopped,
                 sumVars, result>>

Next == Main \/ (\E r \in RunIds : Thread(r)) \/ Tick

(* The main thread goes on and time passes; nothing is asked of a sampler  *)
(* thread, which may hang in the driver for ever.                          *)
Spec == Init /\ [][Next]_vars /\ WF_vars(Main) /\ WF_vars(Tick)

------------------------------------------------------------------------------
Measuring == {"infer", "join", "sum", "record"}

(* What a run is computed from was sampled in that run, in order of time:  *)
(* a thread of an earlier run that a slow driver held beyond its join      *)
(* leaves no sample in this one (e1_ensemble_collector.py:93-105).         *)
OwnSamples ==
  pc \in Measuring =>
    \A j \in DOMAIN Samples :
      /\ t0 <= Samples[j][1] /\ Samples[j][1] <= now
      /\ j > 1 => Samples[j - 1][1] + Interval <= Samples[j][1]

(* The sum never leaves what the GPU can have drawn between the first      *)
(* sample and the last, even when the list grows behind the loop.          *)
WithinEnvelope ==
  pc = "sum" /\ n > 1 =>
    0 <= joules /\ joules <= 2 * MaxPower * (Samples[i][1] - Samples[1][1])

(* The net energy of a run is never more than the hardware can have used   *)
(* beyond idling, if the counter could be read and the idle power is one:  *)
(* a counter that wraps within the run loses energy but adds none.         *)
NetWithinMeans ==
  ~misread /\ idle >= 0 =>
    result.net <= Clamp(2 * IdleReadings * (CpuPower + MaxPower) * result.dt
                        - Floor(result.dt))

(* MIN_SAMPLES: an accepted run of E3 was watched for as long as that many *)
(* samples take (e3_drift_cost_collector.py:225).                          *)
AcceptedWasWatched ==
  script = "E3" /\ result.accepted => result.span >= (MinSamples - 1) * Interval

(* The series comes to its end whatever becomes of the sampler threads.    *)
SeriesEnds == <>(pc = "done")

==============================================================================
