# GreenToken in TLA+

A TLA+ development of [GreenToken](../src/README.md): an agent measures CPU, memory and GPU
power, splits it among processes and joins it with the tokens an inference engine generated;
a collector aggregates the agents' events and exposes cost and energy per token to Prometheus.
Beside them the repository has the tools its measurements rest on: five collectors of energy
experiments, and a load test with a mock engine.

This directory holds the specifications, the TLC configurations that check them on small
instances, and theorems with TLAPS proofs. `PROJECT.json` is the index: components, runs,
mutants, the source lines each definition models, findings, hazards, theorems. A *mutant* is a
changed form of one definition, kept just before it in its module, which makes one property
fail; it shows that the property depends on the code.

## 1. The system

### Components, their state and operations

| Component | State | Operations |
|---|---|---|
| CPU time listener (`agent/bpf_loader.go`, `agent/bpf/sched_monitor.c`) | BPF maps, or the previous jiffies per PID | on every context switch (or every 500 ms) send a CPU slice into `windowChan`, never blocking |
| Slice consumer (goroutine in `agent/main.go:97`) | the slice in its hand; `cpuTimeMap` under a mutex | receive, then add |
| Measuring loop (`collectAndEnqueue`) | `previousCumulative`, `baselineEstablished`, locals of the window | every tick: RAPL, GPUs, snapshot and reset of `cpuTimeMap`, token scrape, matching, split, enqueue |
| Token sources (`agent/tokens`) | the Prometheus source's previous value; the sniffer's sum and pending line | `CumulativeTokens` |
| Event buffer (`agent/ringbuffer.go`) | slots, head, tail, count under a mutex | `Enqueue`, `DequeueAll` |
| Sender (`streamToCollector`) | connection, stream, the batch being sent | dial, open, drain, send, reconnect |
| StreamEnergy handlers (`collector/grpc_handler.go`) | one goroutine per stream; a rate limiter per agent id | receive, limit, aggregate, acknowledge |
| Aggregator (`collector/aggregator`) | a workload state per key under an RW lock | `AddEvent`, `GetStates` |
| Exporter (`collector/exporter`) | none | `Collect`: copy all states, render metric by metric |
| Collector process (`collector/main.go`) | servers | start, signal, graceful stop with time limits |
| CLI (`cmd/greentoken`) | none | `serve` (supervises the collector), `report`, `doctor` |
| Scheduler monitor (`agent/bpf/sched_monitor.c`) | `start_times`, the BPF ring buffer | on every switch of every CPU: look up, report, delete, update |
| Experiments (`docs/experiments`, `scripts`) | parent: baselines, results, cooldown; worker process with a queue; sampler thread with a list of samples | measurement protocols E1 to E4, and the older E1 in `scripts` (here E0) |
| Mock engine (`mock_vllm_metrics.py`) | two counters under a lock | a completion, `/metrics`, `/debug/total` |
| Load test (`load_test_gt02.py`) | pool of threads, results | fire a burst, compare with what the mock counted |
| RAPL and NVML readers | none (two readings of a counter) | watts over 100 ms, power, processes per GPU |

### How they interact

    listener --windowChan--> consumer --cpuTimeMap--> collectAndEnqueue <--HTTP-- engine
                                                            |
                                                       RingBuffer
                                                            |
                  Prometheus --HTTP--> exporter      streamToCollector
                                          |                 | gRPC stream
                                      aggregator <--- StreamEnergy + rate limiter

    experiment: parent --spawn--> worker --queue, pipe--> parent
                                    | infers, joins
                                 sampler thread --samples--> worker

    load test: pool of clients --HTTP--> handlers --lock--> counters <--lock-- /metrics <-- agent

Everything left of an arrow runs concurrently with everything right of it. `windowChan` drops
when full; the buffer overwrites its oldest event when full; gRPC applies back-pressure in both
directions; the aggregator and the limiters are in memory only. systemd and docker compose
restart both processes.

### What is hard, and what must hold

- **Buffer**: modular indices under overwrites and drains. *Must*: be a bounded FIFO that loses
  exactly its oldest event.
- **Delivery**: a batch leaves the buffer before it is sent; connections die unnoticed; both ends
  restart; a rejection ends a stream; nobody reads the acks. *Must*: never aggregate an event twice
  or out of order within a stream, lose nothing in good conditions, always come back to draining.
- **Rate limiter**: lazily replaced windows shared by streams, loaded or created outside their lock.
  *Must*: bound the rate, recover.
- **Token accounting**: failures, a late first reading, an engine that starts over, a page that is read
  only in part. *Must*: invent no tokens but what a short page accounts for, never lose them through
  failed scrapes, never report a spike.
- **Attribution**: consumer and window interleave; random map order; rounding. *Must*: conserve CPU
  time and tokens, stay within what was measured.
- **Aggregation**: colliding keys, labels that follow the latest event, a scrape among updates.
  *Must*: conserve tokens, keep averages in range, expose coherent pages and true counters.
- **Scheduler monitor**: the handlers of all CPUs share a bounded map and a bounded ring buffer.
  *Must*: report every slice of a thread once.
- **Experiments**: workers that fail, die or do not fit their result into a pipe; a cooldown with a
  streak and a time-out; gates that divide. *Must*: measure idle power without a worker, report no
  condition with another's results, give up only for a reason, end.
- **Sampling**: a thread and a join with a time-out, a list that may grow while it is integrated, a
  counter that wraps or fails. *Must*: integrate only a run's own samples, stay within what the
  hardware can draw, end whatever the driver does.
- **Load test**: concurrent updates, clients that give up, a scrape between two counters, a counter
  that earlier loads have moved. *Must*: count exactly; call a load consistent only if it is.
- **Not modelled**: PID reuse, log rotation, shutdown with endless streams (section 5).

`PROJECT.json` lists the hazards at their lines, with the properties that cover them or the reason
why none does.

## 2. The modules

| Module | Models | Checked by | Proved in |
|---|---|---|---|
| `BoundedFifo` | what the event buffer promises | `ring_buffer` (as a property) | |
| `RingBuffer`, `MCRingBuffer` | `ringbuffer.go` slot by slot | `ring_buffer` | `RingBufferProofs` |
| `Delivery` (instance of `BoundedFifo`) | sender, stream, handlers, limiter, failures | `delivery`, `delivery_ack_stall` | `DeliveryProofs` |
| `RateLimiter`, `MCRateLimiter` | `checkRateLimit` in concurrent handlers, with a clock | `rate_limiter` | `CollectorProofs` |
| `TokenAccounting` | engine counter, Prometheus source, baseline, differences | `tokens` | `AgentProofs` |
| `Attribution` | channel, consumer, the steps of `collectAndEnqueue` | `attribution` | `AgentProofs` |
| `Aggregator`, `MCAggregator` | `AddEvent`, `GetStates`, `Collect` | `aggregator` | `CollectorProofs` |
| `SchedMonitor` | the eBPF program on several CPUs | `sched_monitor` | `AgentProofs` |
| `Experiment`, `MCExperiment` | parent, worker, queue, cooldown, gates of the five collectors | `experiment`, `experiment_stuck` | `ExperimentProofs` |
| `EnergySampler` | one process of a collector: baseline, runs, sampler threads | `energy_sampler` | `EnergySamplerProofs` |
| `LoadTest` | clients, handlers, lock, counters, verdict | `load_test` | `LoadTestProofs` |
| `SumLemmas` | sums over finite sets, as the community modules define them | | itself |

`AgentProofs` and `CollectorProofs` each hold the theorems of the components that run in one process and
share the lemmas on sums. To be extended side by side, those components have names of their own for what
every module has: `SchedSpec`, `TokenSpec` and `RateSpec` beside `Spec` of `Attribution` and `Aggregator`,
and so for `Init`, `Next`, the tuple of the variables and the histories.

### Buffer

`RingBuffer` has the four fields of the struct and `batch`, the slice last returned. Both methods
hold the mutex throughout, so each is one action. The refinement mapping reads the queue off the
slots, `Contents[i] = events[(head + i - 1) % Size]`; under it every `Enqueue` is a `Put` and every
`DequeueAll` a `TakeAll` of `BoundedFifo`. `Delivery` uses `BoundedFifo` in place of the buffer.

### Delivery

Events are serial numbers. `pc` is where the sender is (`connect`, `drain`, `send`), `batch` the
rest of the slice `DequeueAll` returned. A stream has a queue of events sent and not received
(`wire`, at most `Window`), a count of acks sent and never read (`acks`, at most `AckWindow`), and
a handler. gRPC is external; the model takes from it what the code relies on: `Send` returns once
the transport takes the message, blocks on a full flow-control window, and reports a dead stream
at some later call (`SendUnnoticed`, `SendFails`). In a received event's handling only its last
step is separate: nothing else can see it between `Recv`, `checkRateLimit` and `AddEvent`.
There is one agent; what agents share is modelled in `RateLimiter` and `Aggregator`.
Faults: the collector stops (its memory and all streams are gone), the agent restarts, the
connection dies. Failed dials and the sleeps change no state.

### Rate limiter

A limiter per agent id, the empty id sharing one; `reset` is compared with a clock in ticks. A call is
two actions of its handler: `Load` is `LoadOrStore` on the `sync.Map`, `Check` the section under the
limiter's mutex, any time later. So handlers race to create a limiter, and a handler may count in a
window that began long after it loaded the limiter. The handlers are interchangeable, and the
configuration says so (`SYMMETRY`). The time of a call is that of its `Check`. `DISABLE_RATE_LIMIT=true`, which switches it off, is not modelled.

### Token accounting

A window is one action at the instant of its scrape: all other token state is local to the
handler. A scrape gives an error or any value up to the counter: the code sums the series it has parsed, and
a page that `io.LimitReader` cuts at 1 MB, between two series or within the digits of one, or a series
without a number, makes that sum too low without an error. What the reported numbers are compared
with are histories: `generated`, `seen` (generated at the latest success), `short` (what that success left
out), `base` and `credited` (where the differences began), `regressed`. `phantom` adds up what short pages
let the agents report again: each fall of a reading while the engine stayed up, and what the first reading of
an agent left out. The engine's series are taken to be finite and not negative; without a restart none falls.

### Attribution

The window's handler is three actions, between which listener and consumer go on: the GPU map
(`ReadGpus`), the snapshot under the mutex (`Snapshot`), and scrape, matching and split
(`Attribute`, in any order of the matched processes). Power is kept as numerator (`cpu`) and
denominator (`totalNs`) of its ratio, the same for CPU and DRAM; a GPU's power is a unit.
Float arithmetic on token shares is exact integer division here. Sums of CPU time are exact over
processes with a positive pid. The code adds `uint64` modulo 2^64 and includes the idle task, pid 0,
whose slices may be wrapped differences (section on the scheduler monitor): if they are, a window's total
can be anything, and `WithinPackage` says nothing of such a window. CPU utilisation, GPU memory and
the RAPL reading have no part in the properties and are left out.

### Aggregation

Averages are integers in units of `1/Scale`, with `Scale` divisible by `5^MaxEvents` and the token
counts, so that the moving average (alpha 1/5) is exact; `log` keeps the events for the properties to
compare with. A name is the sequence of its parts between dashes, so the key is their
concatenation, as it is for the rendered string. A scrape copies the states, then sends one metric
per step while events are added. Rounding to decimals is rounding to a multiple of `Grain`, one
grain for all metrics (the code has four decimals, eight for the cost).

### Scheduler monitor

A context switch of a CPU is the scheduler's choice of the next thread (`Switch`, where the handler
also reads the clock) and the handler's three accesses to what the CPUs share: `Lookup` with the
event, `Delete`, `Update`. Between them the other CPUs and the agent go on. A thread leaves its CPU only
when its handler has ended, as in the kernel, where the tracepoint comes before the switch. The idle
task is pid 0 on all CPUs and may be anywhere; deltas are modulo `Width`, as `__u64` is. The history
`owed` is, per thread, the time it ran less the time that was reported, and the property says that it
is zero whenever no handler is about to look.

### Experiments

`Experiment` is one execution of one of five scripts (`exp`). They are five copies of one protocol and
the model has one action for each of its steps; where the copies differ there is one operator per
script (`WorkerE0` to `WorkerE4`, `GradeE0` to `GradeE4`, `GoodOrFlat` against `GoodStrict`). A step
that is textually the same in all is mapped to one of its copies, not always the same one. The
parent's `pc` follows the script: baseline, then per condition spawn, join, get, then cooldown,
second baseline, report. A worker's result is put with one action (`Send`), carried by the feeder in
units (`Feed`) into a pipe of `PipeCapacity`, and the worker exits when its feeder is done; a result of
E4 with power traces has one of the sizes in `TraceUnits`, all other messages are one unit. `Killed` may come at any point of that. Runs are what the
sensors may make of them (`Measurement`); the gates compute in integers what the code computes in
floats: `cv <= 0.15` becomes an inequality of sums of squares. A grade says `zero` for a mean of zero,
which passes the gates and is what the reports of E0 and E2 divide by. The warm-up, the sleeps between
conditions and the noise within a reading change no state.

### Sampling

`EnergySampler` is what happens inside a run. The class `ContinuousNVMLSampler` is the same in all five
scripts but for what it returns. Its thread is four steps (test the flag, take the time, read the
power and append, sleep), each of which may be held for any time, or for ever, by the driver; the main
thread integrates one trapezoid per step over the list as it is then. A run whose join times out
leaves its thread alone with its own sampler object, which the next run does not use. Energies are
doubled and multiplied by the number of baseline readings, so that means and trapezoids are
integers. The counter of RAPL wraps at `CounterRange`, and any reading may fail and give 0. E4 subtracts
no idle power and pauses between its runs, during which time goes on.

### Load test

A request is in the client (`queued`, `waiting`, `got`, `failed`, `cancelled`) and, apart from it, in the
handler it caused, which goes on when its client has given up. `+=` is two steps, a read and a write,
as in the interpreter. `list(executor.map(...))` takes the results in order, and the first exception
cancels what no thread has begun. The test may be run again against a mock that keeps its counters, and the
mock may die and be started with new ones.

## 3. The runs

Passing runs, and why the bounds are enough:

| Run | Bounds | Shows |
|---|---|---|
| `ring_buffer` | 3 slots, 3 events, no bound on the number of operations | indices coherent, FIFO implemented; three slots let head and tail be anywhere relative to each other |
| `delivery` | 4 events, buffer and wire of 2, limit 3, 2 faults, ack window not reached | at most once, in order, buffer always drained; while nothing fails, nothing lost and everything aggregated; the buffer overflows, the limit rejects, a second fault hits the recovery from the first |
| `rate_limiter` | 2 handlers, limit 2, a minute of 2 ticks, 6 ticks, 5 admitted calls, 2 rejected per window, 2 limiters | three windows with rejections in each, two of them meeting in one minute, both handlers creating the same limiter, a handler that holds a limiter while its window ends |
| `tokens` | 5 tokens, 3 restarts, 3 tokens reported again | engine and agent restart in any order, a regression passes unnoticed, pages short in any reading, the first included, any number of windows and failures |
| `attribution` | 2 processes, with and without a target, a GPU, channel of 1, 3 units of time in slices of 1 and 2, 3 tokens per window | channel overflow, target never seen, both orders, all ratios, zero shares, processes that leave the GPU between map and snapshot, windows without bound |
| `aggregator` | 4 events chosen from 4, 2 scrapes | a colliding key, an event without power, an idle window, label flips, scrapes at any point |
| `experiment` | 2 runs, 3 to 6 conditions, idle powers -5, 20 and 21, runs above and below them, pipe of 2 units, traces of 2 and 4, 4 cooldown readings, 1 fault | all five scripts with any sensors; every gate passes and fails in some behaviour, the drift gate on both sides of 5 %, a zero mean, a worker killed before, within and after its message, also one that would have fitted, a streak broken and a time-out |
| `energy_sampler` | E0, E3 and E4, 2 runs, GPU at 3 W and failing to read, a counter that wraps within a run, a run of 2 intervals, 1 failure | samples own and ordered, energy in range, accepted runs watched; a thread held beyond its join lives on in the second run |
| `load_test` | 2 requests, 2 threads, 2 loads, 1 scrape, 1 crash | exact counter, coherent scrape, sound verdict in both directions; refusal, time-out, cancellation, a late count in the second load |
| `sched_monitor` | 2 CPUs, 3 threads and the idle task, map of 2, ring of 1, 4 ticks | every slice once; as many entries as CPUs, a full ring buffer, threads that move between CPUs, both CPUs idle |

Bounds on counters are guards on the action that would exceed them (`MaxEvents`, `MaxFaults`,
`MaxTime`, `MaxAdmitted`, `MaxRejected`, `MaxTokens`, `MaxRestarts`, `MaxNs`, `MaxScrapes`,
`MaxReadings`, `MaxRun`, `MaxPhantom`, `MaxFailures`, `MaxLoads`, `MaxCrashes`).
Where a bound or the program's end can stop every action the configuration says
`CHECK_DEADLOCK FALSE`; `ring_buffer`, `tokens` and `attribution` are checked for deadlock.

One type invariant per module is enough: `Delivery` has it as `TypeOK`, `Attribution` and `Aggregator`
have it in `WindowInv` and `StatesInv`, and these too are proved; for the other modules it is proved,
within the inductive invariants, for all values of the constants.

Runs that find a stated promise broken:

| Run | What the code does | What is said of it |
|---|---|---|
| `delivery_ack_stall` | the agent never reads acks; once their flow-control window is full, handler and agent wait for each other for ever | README: "Continuamente, em tempo real" |
| `experiment_stuck` | the parent joins a worker of E4 before it reads the queue, whose feeder cannot finish while the pipe is full of `all_raw_samples` | "Gravação completa do artefato bruto em docs/experiments/E4_Ciclo_Trabalho/artifacts/E4_raw_data.json" |

The ack stall needs a real flow-control window (64 KB by default) of unread acks of some 60 bytes,
about a thousand of them: the model's `AckWindow` is that number, whatever it is. A pipe holds 64 KB
on Linux; ten runs of E4 with their samples every 10 ms are some megabytes.

What the models show without a run of its own:

- A page of more than 1 MB with the metric beyond that, or a series without a number, makes the source's
  count fall with no restart, and the next whole page is counted again (`ScrapeResults`), although
  `agent/tokens/source.go:10` asks for "um contador MONOTÔNICO (sempre crescente)". `tokens` says how
  much it can come to.
- The rest of a batch is dropped when `Send` fails (`SendFails`).
- The tokens of a window without a matching process are in no event (`Window`).
- Every process on a GPU is given its whole power (`StatOf`).
- Equal PIDs on two hosts and names with dashes share a state (`Key`).
- A baseline that is not positive passes the drift gate (`DriftPass`).
- A worker killed with a part of its message in the pipe leaves `get()` waiting for the rest, since the parent
  itself holds the pipe's other end open (`Get`). This and a message longer than the pipe are the exceptions that
  `FinishesIfItArrives` names.

### Fairness

`Delivery`: weak fairness of every step of the sender and of each handler, which are goroutines that
nothing suspends; of a Send on a dead stream, which either returns or fails; and of the collector's
restart, which its supervisor performs. Not of new events, of the minute's passing at a given
point, or of faults. `Attribution`: weak fairness of the consumer and of the measuring loop, whose
ticker fires for ever; its token scrape has a time-out of a second, while RAPL files and NVML calls have
none, and that the kernel and the driver answer is an assumption of `EverySliceCounted`. `Experiment`: weak fairness of the
parent and of the worker with its feeder, separately; not of faults, so a worker may be killed but
never just stops. `EnergySampler`: weak fairness of the main thread and of the clock, none of a sampler
thread, which may hang in the driver. `LoadTest`: weak fairness of the clients, whose requests have a
time-out, none of the mock; the part of `LoadEnds` about `/debug/total`, which has no time-out, takes the
mock's fairness as its hypothesis. The other runs are of safety and use no fairness.

## 4. The proofs

All constants are arbitrary values that satisfy the assumptions named in the module.

- `RingBufferProofs`: `IndexSafety` (the buffer's type and index invariants). `TypeOK` alone
  is not inductive for `WindowOccupied`: that the slot at `tail` is the free one, or the oldest,
  needs `TailFollowsCount`; the three together are inductive. `Refinement` then shows, action by
  action, that `Contents` changes as `BoundedFifo` says: arithmetic modulo `Size` gives the slot of
  each position, and sequences are compared element by element.
- `DeliveryProofs`: `DeliveredInOrder` and `DeliveredAtMostOnce` from `OrderInv`, `NothingLostWhileHealthy`
  from `HealthyInv`, `DeliveryTypes`. Neither order nor at-most-once is inductive: both hold because an
  event that is further on its way is older. `PathsSorted` says so for all places at once (what past
  collectors aggregated, what each stream carried and carries, the batch, the buffer), `DroppedApart` that
  an overwritten event had not left the buffer. `HealthyInv` adds that without a fault or a rejection no
  stream is broken and every event measured is `Somewhere`.
- `AgentProofs`, on `SchedMonitor`: `ReportedOnce`. The invariant says that a thread has an entry only on
  the CPU it is on, that the entry is the time it came, and that there are never more entries than CPUs,
  which is why the map is never full if it has as many entries as there are CPUs (`SchedAssumption`).
- `AgentProofs`, on `TokenAccounting`: `PhantomsAccounted` and `SpikesAlwaysBounded` from the inductive
  invariant `IndInv`, which needs the strengthening `Outstanding`: what the next scrape could report
  (`counter - prev`) was generated after the latest one (`generated - seen`) or left out by it (`short`).
  `WholePagesInventNothing` has as its hypothesis that no page is short; then `phantom` stays 0 and nothing is
  reported that was not generated. `FailedScrapesLoseNothing`: while the engine is the one of the baseline,
  what was credited is the difference of the latest reading and the baseline, and each fall is reported once more.
- `AgentProofs`, on `Attribution`: `CpuTimeConserved`, `WindowsWithinPackage`, `WindowTokensConserved`,
  `TargetAlwaysReported` from `AttributionInv`. `SnapshotWhole` says that the total of a snapshot is that of
  its entries and was counted; the split then is a fold over the matched processes in any order, whose
  shares add up to the window's tokens because the last process takes what the divisions left.
- `CollectorProofs`, on `RateLimiter`: `LimitHolds` and `Recovery` from `LimiterInv`: the admitted calls of a
  window are among the counted ones, and a window ends a minute after it was opened. `TwoWindowsInAMinute`
  is about any minute, not the limiter's: `WindowsApart` says where the calls of a window lie, `CallsApart`
  that of twice the limit of calls and one more the first and the last are over a minute apart; a minute with
  so many would contain two such, by the least of their numbers. The bound is attained only
  because a handler may create a limiter and make its first count later, near the end of that window; a window
  that replaces another is opened by a counted call, which then lies a minute before the window after it.
- `CollectorProofs`, on `Aggregator`: `AggregatorTokensConserved`, `AveragesAlwaysBounded`,
  `StatesAlwaysDistinct`, `PagesOfOneInstant` and `CountersNeverFall`, all of `AggregatorInv`. Its part
  about the memory is `MemoryInv`: tokens conserved, every average between two of the values that went into
  it (`AveragesAmong`, with the extremes as witnesses: least and greatest of a set are not kept by a step,
  two members are), and no remainder lost (`ExactInv`, by which energy is power over the window before
  rounding; the powers of 5 left in an average are as many as the events that may still come). The other
  part follows a scrape: `PageInv` says which metrics of the copies the page already has, `ExposedInv` that
  the finished page is that of *some* earlier states, whose totals have only grown since. What rounding
  does to the comparison of energy with power is `RoundedGap`.
- `ExperimentProofs`: `NoWorkerWhileWatching`, `NoStaleResults` and `NeverRaisedInVain` from one
  inductive invariant. Besides the shapes of the variables it says where the worker can be for each
  `pc` of the parent, that a message in flight is of the current condition, and that without a fault a
  worker that is gone has left something in the pipe and it is not an error, so that nothing but a
  fault makes the parent raise in `Get`. `CooledBeforeMeasuring` adds `CoolInv`: the counter `ok` of the
  cooldown loop is that of the good readings at the end of the history.
- `EnergySamplerProofs`: `SamplesAreOwn`, `EnergyWithinEnvelope`, `AcceptedRunsWereWatched` from
  `SamplerInv`. Order alone is not inductive: `Spaced` says, for each place a thread can be at, that
  its next sample cannot come before `Due`, an interval after the last; `Summed` bounds the partial sum
  by the span of what it has covered, with a lemma on one trapezoid. `NetEnergyWithinMeans` needs
  `Charged`, what a run has been charged with at each `pc`, and a lemma on the difference of two readings
  of a counter that has wrapped.
- `LoadTestProofs`: `MockCountsExactly`, `ScrapesAreCoherent`, `ConsistentLoadsAreExact`. The counter is
  `Tokens` times the handlers past their addition, a cardinality that each handler's step changes by
  one; the prompts are between that number and `MaxPrompt` times it. From `total = N * Tokens` and `N`
  answers of the current load it follows that the handlers counted are exactly its own. For the other
  direction, `NoFalseAlarm`, `AnsweredIsCounted` says that an answer of the mock that is still alive was
  counted.
- `SumLemmas`: a sum over a finite set is a fold that takes the elements in an unspecified order. That
  its recursion has a solution, and that the sum is the same in every order, is proved by a minimal
  counterexample among the subsets; what the components need follows: a sum with one element more,
  one value changed, the terms renamed, a part left out, compared term by term.

With this every invariant and every safety property of a step that a passing run checks is also a theorem.

Only model-checked: all liveness (`BufferDrains`, `EventuallyAggregated`, `EverySliceCounted`,
`FinishesIfItArrives`, `SeriesEnds`, `LoadEnds`), which is out of the prover's reach. So are the library's
induction theorems, which take an operator as a parameter; where the proofs need induction over data (sums,
the powers of 5, the least of a set of numbers) they take a least or minimal counterexample instead, from the
theorem that strict inclusion of finite sets is well-founded.

## 5. Not modelled, and what could come next

- The `/proc` scanner with PID reuse: its slices enter `Attribution` as any slices do.
- The collector's shutdown (`GracefulStop` against endless streams, two time limits): `Delivery` has a
  stop at any point instead.
- The page of the Prometheus source as text (prefixes, labels, values that are not finite), the log sniffer's
  tail with rotation, `doctor`'s and `report`'s checks: one-shot parsing without concurrent state.
- The agent's two RAPL readers; the same counter, wrapping, is in `EnergySampler`.
- In the experiments: matrix products, loop calibration, amortisation arithmetic, printing.
- Candidates: a composition of `TokenAccounting`, `Delivery` and `Aggregator`; a proof that the whole of
  `Delivery` implements an abstract channel that loses and never repeats.

Not planned: generated protocol code, NVML calls, dashboards, install script, the
wording of reports.
