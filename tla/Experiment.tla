----------------------------- MODULE Experiment ------------------------------
(***************************************************************************)
(* The measurement protocol that the collectors of the experiments share.  *)
(* In the four under docs/experiments the parent measures the idle power, runs every  *)
(* condition in a process of its own so that the operating system takes    *)
(* the CUDA context down with it, waits for the GPU to cool, measures the  *)
(* idle power again, applies the gates and writes the artifact.  A         *)
(* behaviour is one execution of one of the four, exp; E0 is the older     *)
(* scripts/e1_ensemble_collector.py, one series in the same process and no *)
(* cooldown loop.                                                          *)
(*                                                                         *)
(* What a worker sends travels as it does under multiprocessing.Queue: put *)
(* hands the object to a feeder thread that writes it into a pipe of       *)
(* bounded capacity, and a process only exits once its feeder is done.     *)
(* Inside a worker, the runs and the sampler thread are module             *)
(* EnergySampler; here a run is what its measurement comes to.             *)
(* Units: watts, joules over runs of one time unit, sensor noise aside.    *)
(***************************************************************************)
EXTENDS Integers, Sequences, Functions

CONSTANTS
  Runs,         \* bound: --runs, repetitions per condition
  Watts,        \* what NVML may read; 0 is also its failure
  Baselines,    \* what a mean idle power may be; a wrapped RAPL counter,
                \* negative
  CpuJoules, GpuJoules,  \* what the sensors may make of a run
  Gaps,         \* tenths of a run that fall between its phases
  Counts,       \* samples a run may have
  MinSamples,   \* MIN_SAMPLES of E3
  PipeCapacity, \* units a pipe holds before its writer blocks
  TraceUnits,   \* what a result of E4 with long power traces may measure,
                \* in units
  MaxReadings,  \* bound: readings of the cooldown loop (100)
  FlatAfter,    \* the reading from which a plateau counts (15)
  MaxFaults     \* bound: workers killed or failed

ASSUME ExperimentAssumption ==
  /\ Runs \in Nat \ {0} /\ MinSamples \in Nat \ {0}
  /\ Watts \subseteq Nat /\ Baselines \subseteq Int
  /\ CpuJoules \subseteq Int /\ GpuJoules \subseteq Nat /\ Counts \subseteq Nat
  /\ Gaps \subseteq 0 .. 10
  /\ PipeCapacity \in Nat \ {0} /\ TraceUnits \subseteq Nat \ {0}
  /\ MaxReadings \in Nat \ {0} /\ FlatAfter \in Nat /\ MaxFaults \in Nat

VARIABLES
  exp,          \* the script that runs
  rapl, nvml,   \* availability of the sensors
  pc,           \* where the parent is
  idlePre, idlePost,   \* p_idle_pre, p_idle_post
  results,      \* what is recorded per condition, in order
  worker,       \* the process of the current condition
  message,      \* the object it put into its queue, or "none"
  units,        \* how much of it is still with its feeder
  piped,        \* how much of it is in the pipe
  reading, ok, prev,   \* the cooldown loop: i, consecutive_ok, prev_w
  recent,       \* history: which readings of the cooldown were good
  artifact,     \* "none", or the overall gate as written
  faults

fixed == <<exp, rapl, nvml>>
queueVars == <<message, units, piped>>
coolVars == <<reading, ok, prev, recent>>
vars == <<fixed, pc, idlePre, idlePost, results, worker, queueVars, coolVars,
          artifact, faults>>

Experiments == {"E0", "E1", "E2", "E3", "E4"}

Series == <<"ensemble">>
PromptLengths == <<"128t", "512t", "1024t">>
Modes == <<"FP32", "FP16", "INT8">>
SweepConditions == <<"Length_128t", "Length_512t", "Length_1024t",
                     "Temp_0.0", "Temp_0.7", "Temp_1.0">>
Profiles == <<"100pct", "50pct", "20pct", "5pct">>

(* The conditions of an experiment, in the order they are run.             *)
Conditions(e) == CASE e = "E0" -> Series
                   [] e = "E1" -> PromptLengths
                   [] e = "E2" -> Modes
                   [] e = "E3" -> SweepConditions
                   [] e = "E4" -> Profiles

Current == Conditions(exp)[Len(results) + 1]

Finished == pc \in {"done", "raised"}

Magnitude(x) == IF x < 0 THEN -x ELSE x
Clamp(x) == IF x < 0 THEN 0 ELSE x

------------------------------------------------------------------------------
(* What a worker makes of its runs.  p_idle_pre * dt is idlePre; a sensor  *)
(* that is missing reads zero, and without NVML there is no sampler.       *)

Sensed(available, values) == IF available THEN values ELSE {0}

(* A run as measured, the fields that the script does not read fixed.      *)
Measurement ==
  [cpu : IF exp \in {"E0", "E1"} THEN Sensed(rapl, CpuJoules) ELSE {0},
   gpu : Sensed(nvml, GpuJoules),
   n   : IF exp = "E3" THEN Sensed(nvml, Counts) ELSE {0},
   gap : IF exp = "E1" THEN Gaps ELSE {0}]

Message(nets) == [cond |-> Current, status |-> "ok", nets |-> nets,
                  lost |-> 0, failure |-> FALSE]

(* Gross minus idle, never below zero; its phases are fixed fractions.     *)
WorkerE0(runs) ==
  Message([r \in 1 .. Runs |-> Clamp(runs[r].cpu + runs[r].gpu - idlePre)])

(* Gross minus idle, never below zero, and its division among the phases   *)
(* in proportion to their time: what falls between phases is lost.         *)
WorkerE1(runs) ==
  LET net == [r \in 1 .. Runs |-> Clamp(runs[r].cpu + runs[r].gpu - idlePre)]
  IN [Message(net) EXCEPT !.lost = SumFunction([r \in 1 .. Runs |-> net[r] * runs[r].gap])]

(* The same from the GPU alone, against a baseline that includes the CPU.  *)
WorkerE2(runs) == Message([r \in 1 .. Runs |-> Clamp(runs[r].gpu - idlePre)])

(* No clamp: a run below the floor or with too few samples is rejected,    *)
(* and with more than a fifth rejected the instrumentation has failed.     *)
WorkerE3(runs) ==
  LET Accepted(run) == run.gpu >= idlePre /\ run.n >= MinSamples
      valid == SelectSeq(runs, Accepted)
  IN [Message([r \in DOMAIN valid |-> valid[r].gpu - idlePre])
        EXCEPT !.failure = 5 * (Runs - Len(valid)) > Runs]

(* The whole window per inference, idle power included.                    *)
WorkerE4(runs) == Message([r \in 1 .. Runs |-> runs[r].gpu])

Work(runs) == CASE exp = "E0" -> WorkerE0(runs)
                [] exp = "E1" -> WorkerE1(runs) [] exp = "E2" -> WorkerE2(runs)
                [] exp = "E3" -> WorkerE3(runs) [] exp = "E4" -> WorkerE4(runs)

(* Only a message with the traces of E4, when there are any, is written in *)
(* parts; it may be longer than what the pipe holds.                       *)
Sizes == IF exp = "E4" /\ nvml THEN {1} \cup TraceUnits ELSE {1}

------------------------------------------------------------------------------
(* How the parent grades a condition: "zero" is a mean of zero, which the  *)
(* gates take for a pass.                                                  *)

(* cv_ratio <= 0.15 in integers: with sum S, sum of squares Q and n runs,  *)
(* stdev^2 = (n Q - S^2) / (n (n - 1)); no dispersion without a mean.      *)
CvPass(nets) ==
  LET n == Len(nets)
      sum == SumFunction(nets)
      squares == SumFunction([r \in DOMAIN nets |-> nets[r] * nets[r]])
  IN sum > 0 => 400 * n * (n * squares - sum * sum) <= 9 * (n - 1) * sum * sum

Grade(passed, nets) ==
  IF ~passed THEN "fail" ELSE IF SumFunction(nets) = 0 THEN "zero" ELSE "pass"

(* G1.2; the fractions of G1.1 add up to one.                              *)
GradeE0(m) == Grade(CvPass(m.nets), m.nets)

(* G1.2 and G1.1: the phases account for nine tenths of the energy.        *)
GradeE1(m) == Grade(CvPass(m.nets) /\ m.lost <= SumFunction(m.nets), m.nets)

GradeE2(m) == Grade(CvPass(m.nets), m.nets)

(* Two valid runs at least, and no failure of the instrumentation.         *)
GradeE3(m) == Grade(Len(m.nets) > 1 /\ ~m.failure /\ CvPass(m.nets), m.nets)

GradeE4(m) == Grade(CvPass(m.nets), m.nets)

GradeOf(m) == CASE exp = "E0" -> GradeE0(m)
                [] exp = "E1" -> GradeE1(m) [] exp = "E2" -> GradeE2(m)
                [] exp = "E3" -> GradeE3(m) [] exp = "E4" -> GradeE4(m)

------------------------------------------------------------------------------
Init ==
  /\ exp \in Experiments
  /\ rapl \in BOOLEAN /\ nvml \in BOOLEAN
  /\ pc = "pre"
  /\ idlePre = 0 /\ idlePost = 0
  /\ results = << >>
  /\ worker = "none"
  /\ message = "none" /\ units = 0 /\ piped = 0
  /\ reading = 0 /\ ok = 0 /\ prev = 0 /\ recent = << >>
  /\ artifact = "none"
  /\ faults = 0

(* What a baseline can be: a counter that wraps needs RAPL, a reading of   *)
(* any power a sensor.                                                     *)
Baseline == {w \in Baselines : w < 0 => rapl}

(* measure_baseline before the series: it refuses to work without sensors. *)
MeasurePre(w) ==
  /\ pc = "pre"
  /\ IF rapl \/ nvml THEN idlePre' = w /\ pc' = "spawn"
                     ELSE pc' = "raised" /\ UNCHANGED idlePre
  /\ UNCHANGED <<fixed, idlePost, results, worker, queueVars, coolVars,
                 artifact, faults>>

(* What a result is recorded under, whose worker sent it, and its grade.   *)
Entry(from, grade) == [cond |-> Current, from |-> from, grade |-> grade]

(* A new queue and a new process for the next condition.                   *)
Spawn ==
  /\ pc = "spawn" /\ exp # "E0"
  /\ worker' = "running"
  /\ message' = "none" /\ units' = 0 /\ piped' = 0
  /\ pc' = "join"
  /\ UNCHANGED <<fixed, idlePre, idlePost, results, coolVars, artifact, faults>>

(* E0 measures its one series itself, and then only sleeps 15 seconds.     *)
RunSeries(runs) ==
  /\ pc = "spawn" /\ exp = "E0"
  /\ results' = << Entry(Current, GradeOf(Work(runs))) >>
  /\ pc' = "post"
  /\ UNCHANGED <<fixed, idlePre, idlePost, worker, queueVars, coolVars,
                 artifact, faults>>

(* Mutant: the parent goes on while its child still runs.                  *)
JoinAtOnce ==
  /\ pc = "join"
  /\ pc' = "get"
  /\ UNCHANGED <<fixed, idlePre, idlePost, results, worker, queueVars,
                 coolVars, artifact, faults>>

(* p.join(), before anything is taken from the queue.                      *)
Join ==
  /\ pc = "join"
  /\ worker = "gone"
  /\ pc' = "get"
  /\ UNCHANGED <<fixed, idlePre, idlePost, results, worker, queueVars,
                 coolVars, artifact, faults>>

Record(entry) ==
  /\ results' = Append(results, entry)
  /\ pc' = IF Len(results) + 1 < Len(Conditions(exp)) THEN "spawn" ELSE "cooldown"
  /\ message' = "none" /\ piped' = 0 /\ UNCHANGED units

GiveUp(where) == pc' = where /\ UNCHANGED <<results, queueVars>>

(* Mutant: with an empty queue, res is still what the condition before     *)
(* left in it.                                                             *)
GetStale ==
  /\ pc = "get"
  /\ IF piped = 0
     THEN IF results = << >> THEN GiveUp("raised") ELSE LET last == results[Len(results)] IN Record(Entry(last.from, last.grade))
     ELSE IF units > 0 THEN GiveUp("recv")
     ELSE IF message.status # "ok" THEN GiveUp("raised")
     ELSE Record(Entry(message.cond, GradeOf(message)))
  /\ UNCHANGED <<fixed, idlePre, idlePost, worker, coolVars, artifact, faults>>

(* Mutant: get() without asking whether the queue is empty.                *)
GetWaiting ==
  /\ pc = "get"
  /\ IF piped = 0 \/ units > 0 THEN GiveUp("recv")
     ELSE IF message.status # "ok" THEN GiveUp("raised")
     ELSE Record(Entry(message.cond, GradeOf(message)))
  /\ UNCHANGED <<fixed, idlePre, idlePost, worker, coolVars, artifact, faults>>

(* queue.empty() and queue.get(): an empty queue or an error raises, the   *)
(* statistics of a result are recorded.  Of a worker killed while writing  *)
(* only a part is there, and get() waits for the rest: the parent holds    *)
(* the pipe's other end open itself.                                       *)
Get ==
  /\ pc = "get"
  /\ IF piped = 0 THEN GiveUp("raised")
     ELSE IF units > 0 THEN GiveUp("recv")
     ELSE IF message.status # "ok" THEN GiveUp("raised")
     ELSE Record(Entry(message.cond, GradeOf(message)))
  /\ UNCHANGED <<fixed, idlePre, idlePost, worker, coolVars, artifact, faults>>

------------------------------------------------------------------------------
(* The worker and its feeder.                                              *)

Send(runs, size) ==
  /\ worker = "running"
  /\ worker' = "flushing"
  /\ message' = Work(runs)
  /\ units' = size
  /\ UNCHANGED <<fixed, pc, idlePre, idlePost, results, piped, coolVars,
                 artifact, faults>>

(* Any exception in it is caught and sent; in the series it is the end.    *)
Fail ==
  /\ worker = "running"
  /\ faults < MaxFaults
  /\ faults' = faults + 1
  /\ worker' = "flushing"
  /\ message' = [cond |-> Current, status |-> "error"]
  /\ units' = 1
  /\ UNCHANGED <<fixed, pc, idlePre, idlePost, results, piped, coolVars, artifact>>

SeriesFails ==
  /\ pc = "spawn" /\ exp = "E0"
  /\ faults < MaxFaults
  /\ faults' = faults + 1
  /\ pc' = "raised"
  /\ UNCHANGED <<fixed, idlePre, idlePost, results, worker, queueVars, coolVars,
                 artifact>>

Feed ==
  /\ worker = "flushing"
  /\ units > 0 /\ piped < PipeCapacity
  /\ units' = units - 1
  /\ piped' = piped + 1
  /\ UNCHANGED <<fixed, pc, idlePre, idlePost, results, worker, message,
                 coolVars, artifact, faults>>

Exit ==
  /\ worker = "flushing"
  /\ units = 0
  /\ worker' = "gone"
  /\ UNCHANGED <<fixed, pc, idlePre, idlePost, results, queueVars, coolVars,
                 artifact, faults>>

(* The process dies: out of memory, a fault in the driver, a signal.       *)
Killed ==
  /\ worker \in {"running", "flushing"}
  /\ faults < MaxFaults
  /\ faults' = faults + 1
  /\ worker' = "gone"
  /\ UNCHANGED <<fixed, pc, idlePre, idlePost, results, queueVars, coolVars, artifact>>

------------------------------------------------------------------------------
(* The cooldown before the second baseline.                                *)

(* diff_ratio against the baseline, which is not checked unless positive.  *)
Near(w, inverse) == idlePre > 0 => inverse * Magnitude(w - idlePre) <= idlePre

(* power_flat: within 0.2 W of the reading before.                         *)
Flat(w) == prev > 0 /\ 5 * Magnitude(w - prev) <= 1

(* E1 and E2: within 5%, or on a plateau late enough.                      *)
GoodOrFlat(w) == w > 0 /\ (Near(w, 20) \/ (reading >= FlatAfter /\ Flat(w)))

(* E3 and E4: within 2.5%.                                                 *)
GoodStrict(w) == w > 0 /\ Near(w, 40)

Good(w) == IF exp \in {"E1", "E2"} THEN GoodOrFlat(w) ELSE GoodStrict(w)

Needed == IF exp \in {"E1", "E2"} THEN 3 ELSE 2

(* Mutant: a reading that is not good does not start the count over.       *)
CountOn(w) == IF Good(w) THEN ok + 1 ELSE ok

(* consecutive_ok after a reading.                                         *)
Consecutive(w) == IF Good(w) THEN ok + 1 ELSE 0

(* One pass of the loop, which ends when the power has been good for long  *)
(* enough or the readings have run out, good or not.                       *)
CoolDown(w) ==
  /\ pc = "cooldown"
  /\ ok' = Consecutive(w)
  /\ prev' = IF exp \in {"E1", "E2"} THEN w ELSE prev
  /\ reading' = reading + 1
  /\ recent' = Append(recent, Good(w))
  /\ pc' = IF Consecutive(w) >= Needed \/ reading + 1 = MaxReadings
           THEN "post" ELSE "cooldown"
  /\ UNCHANGED <<fixed, idlePre, idlePost, results, worker, queueVars,
                 artifact, faults>>

MeasurePost(w) ==
  /\ pc = "post"
  /\ idlePost' = w
  /\ pc' = "report"
  /\ UNCHANGED <<fixed, idlePre, results, worker, queueVars, coolVars,
                 artifact, faults>>

(* drift <= 0.05, where a baseline that is not positive drifts by nothing. *)
DriftPass == idlePre > 0 => 20 * Magnitude(idlePost - idlePre) <= idlePre

Overall == DriftPass /\ \A k \in DOMAIN results : results[k].grade # "fail"

Verdict == IF Overall THEN "approved" ELSE "rejected"

(* The savings of E2 are relative to the mean of FP32, the fractions of E0 *)
(* to its mean.                                                            *)
DividesByZero == exp \in {"E0", "E2"} /\ results[1].grade = "zero"

Report ==
  /\ pc = "report"
  /\ IF DividesByZero THEN pc' = "raised" /\ UNCHANGED artifact
                     ELSE artifact' = Verdict /\ pc' = "done"
  /\ UNCHANGED <<fixed, idlePre, idlePost, results, worker, queueVars,
                 coolVars, faults>>

------------------------------------------------------------------------------
Parent == \/ \E w \in Baseline : MeasurePre(w) \/ MeasurePost(w)
          \/ Spawn \/ Join \/ Get
          \/ \E runs \in [1 .. Runs -> Measurement] : RunSeries(runs)
          \/ \E w \in Sensed(nvml, Watts) : CoolDown(w)
          \/ Report

Worker == \/ \E runs \in [1 .. Runs -> Measurement], size \in Sizes : Send(runs, size)
          \/ Feed \/ Exit

Next == Parent \/ Worker \/ Fail \/ SeriesFails \/ Killed

Spec == Init /\ [][Next]_vars /\ WF_vars(Parent) /\ WF_vars(Worker)

------------------------------------------------------------------------------
Watching == {"pre", "cooldown", "post"}

(* "garantir que quando este processo morrer, o SO e o Driver da NVIDIA    *)
(* matem o contexto CUDA e devolvam a placa para o estado P8"              *)
(* (e2_iso_accuracy_collector.py:176): whenever the parent takes an idle   *)
(* power, no worker is there to keep the GPU out of its idle state.        *)
IdleWhenWatched == pc \in Watching => worker \in {"none", "gone"}

(* A condition is reported with what its own worker sent, and an artifact  *)
(* has all the conditions of its experiment in their order: no failed      *)
(* worker is papered over with what another one measured                   *)
(* (e2_iso_accuracy_collector.py:232-238).                                 *)
ResultsAreOwn ==
  /\ \A k \in DOMAIN results :
       results[k].cond = Conditions(exp)[k] /\ results[k].from = results[k].cond
  /\ artifact # "none" => Len(results) = Len(Conditions(exp))

(* The second baseline is taken at power that was good several times       *)
(* running, or when the time for cooling has run out                       *)
(* (e1_ensemble_collector.py:351-357).                                     *)
SettledOrTimedOut ==
  exp # "E0" /\ pc \in {"post", "report"} =>
    \/ reading = MaxReadings
    \/ \A k \in 0 .. Needed - 1 : recent[Len(recent) - k]

(* An experiment is only given up for a reason: sensors missing, a worker  *)
(* failed or died, or a reference without energy.                          *)
RaisedHasCause ==
  pc = "raised" => \/ ~rapl /\ ~nvml
                   \/ faults > 0
                   \/ exp \in {"E0", "E2"} /\ results[1].grade = "zero"

(* What the worker sends fits into the pipe, and the worker did not die    *)
(* between two writes of it.                                               *)
Arrives ==
  /\ units + piped <= PipeCapacity
  /\ ~(worker = "gone" /\ units > 0 /\ piped > 0)

(* Every execution ends, with an artifact or an exception, unless a        *)
(* message does not arrive whole: a worker that dies before it writes, or  *)
(* once it has written, is noticed, the cooldown is bounded.  A message    *)
(* longer than the pipe hangs the join; with half of one in the pipe the   *)
(* queue is not empty and get() waits for the other half for ever.         *)
FinishesIfItArrives == <>(Finished \/ ~Arrives)

(* "Gravacao completa do artefato bruto em                                 *)
(* docs/experiments/E4_Ciclo_Trabalho/artifacts/E4_raw_data.json"          *)
(* (e4_duty_cycle_collector.py:9): every execution comes to its end.       *)
AlwaysFinishes == <>Finished

==============================================================================
