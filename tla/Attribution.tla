----------------------------- MODULE Attribution -----------------------------
(***************************************************************************)
(* From CPU time slices to the energy events of a measuring window         *)
(* (agent/main.go): the listener (eBPF or /proc scanner) sends slices into *)
(* windowChan and never blocks, a goroutine adds them up in cpuTimeMap,    *)
(* and collectAndEnqueue snapshots and resets this map while both go on,   *)
(* matches processes and splits power and tokens among them.               *)
(*                                                                         *)
(* CPU and DRAM watts are split by the same ratio, of which the numerator  *)
(* and the denominator are kept; a GPU's power is one unit.  How the       *)
(* tokens of a window come about is module TokenAccounting, what becomes   *)
(* of the events module Delivery.                                          *)
(***************************************************************************)
EXTENDS Integers, Sequences, FiniteSets, FiniteSetsExt, SequencesExt, Functions

CONSTANTS
  Pids,       \* process ids, positive
  Targets,    \* values of the flag -pid, 0 when it is not given
  GpuCount,   \* NVML's device count
  ChanSize,   \* capacity of windowChan (10000)
  Slices,     \* lengths of a CPU time slice
  MaxNs,      \* bound: CPU time sliced in a behaviour
  MaxTokens   \* bound: tokens of a window

ASSUME AttributionAssumption ==
  /\ Pids \subseteq Nat \ {0} /\ IsFiniteSet(Pids)
  /\ Targets \subseteq Pids \cup {0}
  /\ GpuCount \in Nat /\ ChanSize \in Nat
  /\ Slices \subseteq Nat \ {0}
  /\ MaxNs \in Nat /\ MaxTokens \in Nat

Gpus == 0 .. GpuCount - 1
NoGpu == -1

VARIABLES
  targetPid,  \* the flag, set before everything else starts
  windowChan, \* the channel, oldest slice first
  hand,       \* the slice the consumer received and has not added yet
  known,      \* the keys of cpuTimeMap
  cpuNs,      \* cpuTimeMap[pid].cpuNs, 0 for a pid that is not known
  running,    \* per GPU, the processes NVML lists
  pc,         \* where collectAndEnqueue is
  gpuMap,     \* what MapPIDsToGPUs returned
  snapPids,   \* the keys of snapMap
  snapNs,     \* snapMap[pid].cpuNs
  totalNs,    \* totalCPUNs
  tokens,     \* tokensInWindow
  events,     \* the events of the latest window, in the order enqueued
  sliced,     \* history: CPU time sliced so far
  droppedNs,  \* history: CPU time of slices a full channel turned away
  counted     \* history: CPU time in the windows' snapshots

listenerVars == <<windowChan, sliced, droppedNs>>
mapVars == <<known, cpuNs>>
windowVars == <<pc, gpuMap, snapPids, snapNs, totalNs, tokens, events, counted>>
vars == <<targetPid, listenerVars, hand, mapVars, running, windowVars>>

NoTime == [p \in Pids |-> 0]

(* The sum of the slices, exact: the code adds uint64, modulo 2^64, which a *)
(* window of real slices never reaches.  The idle task's slices, under pid *)
(* 0 and possibly wrapped (sched_monitor.c:57), are none of Pids.          *)
Total(ns, S) == SumFunctionOnSet(ns, S)

Init ==
  /\ targetPid \in Targets
  /\ windowChan = << >>
  /\ hand = << >>
  /\ known = {}
  /\ cpuNs = NoTime
  /\ running = [g \in Gpus |-> {}]
  /\ pc = "wait"
  /\ gpuMap = [p \in Pids |-> NoGpu]
  /\ snapPids = {}
  /\ snapNs = NoTime
  /\ totalNs = 0
  /\ tokens = 0
  /\ events = << >>
  /\ sliced = 0
  /\ droppedNs = 0
  /\ counted = 0

------------------------------------------------------------------------------
(* The listener: select with a default, so a full channel costs the slice. *)
Listen(p, ns) ==
  /\ sliced + ns <= MaxNs
  /\ sliced' = sliced + ns
  /\ IF Len(windowChan) < ChanSize
     THEN /\ windowChan' = Append(windowChan, [pid |-> p, ns |-> ns])
          /\ UNCHANGED droppedNs
     ELSE /\ droppedNs' = droppedNs + ns
          /\ UNCHANGED windowChan
  /\ UNCHANGED <<hand, mapVars, running, windowVars>>

(* The consumer receives a slice, then takes the mutex and adds it: two    *)
(* steps, between which the slice is in its hand only.                     *)
ReceiveSlice ==
  /\ hand = << >>
  /\ windowChan # << >>
  /\ hand' = <<Head(windowChan)>>
  /\ windowChan' = Tail(windowChan)
  /\ UNCHANGED <<sliced, droppedNs, mapVars, running, windowVars>>

(* Mutant: a process seen for the first time gets an empty entry only.     *)
AddSliceToKnown ==
  /\ hand # << >>
  /\ known' = known \cup {hand[1].pid}
  /\ cpuNs' = IF hand[1].pid \in known
              THEN [cpuNs EXCEPT ![hand[1].pid] = @ + hand[1].ns]
              ELSE cpuNs
  /\ hand' = << >>
  /\ UNCHANGED <<listenerVars, running, windowVars>>

AddSlice ==
  /\ hand # << >>
  /\ known' = known \cup {hand[1].pid}
  /\ cpuNs' = [cpuNs EXCEPT ![hand[1].pid] = @ + hand[1].ns]
  /\ hand' = << >>
  /\ UNCHANGED <<listenerVars, running, windowVars>>

(* Processes come to and go from the GPUs at any time; one process may use *)
(* several of them and several processes may share one.                    *)
GpuChanges(g, P) ==
  /\ running' = [running EXCEPT ![g] = P]
  /\ P # running[g]
  /\ UNCHANGED <<listenerVars, hand, mapVars, windowVars>>

------------------------------------------------------------------------------
(* collectAndEnqueue.                                                      *)

(* The GPUs on which p runs, in the order MapPIDsToGPUs visits them.       *)
GpusOf(p) == {g \in Gpus : p \in running[g]}

(* The ticker fires; MapPIDsToGPUs: the last GPU that lists a pid wins.    *)
ReadGpus ==
  /\ pc = "wait"
  /\ pc' = "snapshot"
  /\ gpuMap' = [p \in Pids |-> IF GpusOf(p) = {} THEN NoGpu ELSE Max(GpusOf(p))]
  /\ UNCHANGED <<listenerVars, hand, mapVars, running, snapPids, snapNs,
                 totalNs, tokens, events, counted>>

(* Mutants: the map is not reset; a target that has not run is not added.  *)
SnapshotWithoutReset ==
  /\ pc = "snapshot"
  /\ pc' = "attribute"
  /\ snapPids' = known \cup ({targetPid} \ {0})
  /\ snapNs' = cpuNs
  /\ totalNs' = Total(cpuNs, known)
  /\ counted' = counted + totalNs'
  /\ UNCHANGED <<listenerVars, hand, mapVars, running, gpuMap, tokens, events>>

SnapshotKnownOnly ==
  /\ pc = "snapshot"
  /\ pc' = "attribute"
  /\ snapPids' = known
  /\ snapNs' = cpuNs
  /\ totalNs' = Total(cpuNs, known)
  /\ counted' = counted + totalNs'
  /\ cpuNs' = NoTime
  /\ UNCHANGED <<listenerVars, hand, known, running, gpuMap, tokens, events>>

(* Under the mutex: every entry copied and set to zero, no entry removed.  *)
(* Then the target is added if it has no entry, and the total is taken.    *)
Snapshot ==
  /\ pc = "snapshot"
  /\ pc' = "attribute"
  /\ snapPids' = known \cup ({targetPid} \ {0})
  /\ snapNs' = cpuNs
  /\ totalNs' = Total(cpuNs, known)
  /\ counted' = counted + totalNs'
  /\ cpuNs' = NoTime
  /\ UNCHANGED <<listenerVars, hand, known, running, gpuMap, tokens, events>>

(* Exactly the target, or without one every process that is on a GPU.      *)
Matched ==
  {p \in snapPids : IF targetPid # 0 THEN p = targetPid ELSE gpuMap[p] # NoGpu}

(* Mutant: snapMap shares its entries with cpuTimeMap.                     *)
StatOfShared(p) == cpuNs[p]

(* snapMap[p].cpuNs, a copy of its own.                                    *)
StatOf(p) == snapNs[p]

(* A process's part of t by CPU time among the matched, rounded down.      *)
Proportional(p, t) ==
  LET matchedNs == SumFunctionOnSet([q \in Pids |-> StatOf(q)], Matched)
  IN IF matchedNs = 0 THEN 0 ELSE (t * StatOf(p)) \div matchedNs

(* Mutant: the last process gets its proportional part like the others.    *)
TokensOfRounded(order, i, t) == Proportional(order[i], t)

(* The tokens of the i-th matched process; the last takes what is left.    *)
TokensOf(order, i, t) ==
  IF i < Len(order)
  THEN Proportional(order[i], t)
  ELSE t - SumFunctionOnSet([j \in DOMAIN order |-> Proportional(order[j], t)],
                            1 .. Len(order) - 1)

(* The token source answers, which may have taken a second; then one event *)
(* per matched process, in the random order of Go's map iteration: its CPU *)
(* time over the total, its GPU, its tokens.                               *)
Attribute(t) ==
  /\ pc = "attribute"
  /\ pc' = "wait"
  /\ tokens' = t
  /\ \E order \in SetToSeqs(Matched) :
       events' = [i \in DOMAIN order |->
                    [pid    |-> order[i],
                     cpu    |-> StatOf(order[i]),
                     gpu    |-> gpuMap[order[i]],
                     tokens |-> TokensOf(order, i, t)]]
  /\ UNCHANGED <<listenerVars, hand, mapVars, running, gpuMap, snapPids,
                 snapNs, totalNs, counted>>

------------------------------------------------------------------------------
CollectAndEnqueue ==
  ReadGpus \/ Snapshot \/ \E t \in 0 .. MaxTokens : Attribute(t)

Next ==
  /\ \/ \E p \in Pids, ns \in Slices : Listen(p, ns)
     \/ ReceiveSlice
     \/ AddSlice
     \/ \E g \in Gpus, P \in SUBSET Pids : GpuChanges(g, P)
     \/ CollectAndEnqueue
  /\ UNCHANGED targetPid

Spec == Init /\ [][Next]_vars

(* Both goroutines keep running: the ticker fires, the mutex is released,  *)
(* every read of a window returns (the scrape has a timeout).              *)
Fairness ==
  /\ WF_vars(ReceiveSlice /\ UNCHANGED targetPid)
  /\ WF_vars(AddSlice /\ UNCHANGED targetPid)
  /\ WF_vars(CollectAndEnqueue /\ UNCHANGED targetPid)

FairSpec == Spec /\ Fairness

------------------------------------------------------------------------------
TypeOK ==
  /\ targetPid \in Targets
  /\ windowChan \in Seq([pid : Pids, ns : Slices]) /\ Len(windowChan) <= ChanSize
  /\ hand \in Seq([pid : Pids, ns : Slices]) /\ Len(hand) <= 1
  /\ known \in SUBSET Pids
  /\ cpuNs \in [Pids -> 0 .. MaxNs]
  /\ running \in [Gpus -> SUBSET Pids]
  /\ pc \in {"wait", "snapshot", "attribute"}
  /\ gpuMap \in [Pids -> Gpus \cup {NoGpu}]
  /\ snapPids \in SUBSET Pids
  /\ snapNs \in [Pids -> 0 .. MaxNs]
  /\ totalNs \in 0 .. MaxNs
  /\ tokens \in 0 .. MaxTokens
  /\ events \in Seq([pid : Pids, cpu : 0 .. MaxNs, gpu : Gpus \cup {NoGpu},
                     tokens : 0 .. MaxTokens])
  /\ sliced \in 0 .. MaxNs /\ droppedNs \in 0 .. MaxNs /\ counted \in 0 .. MaxNs

(* Sums over the slices of a sequence and over the events of the window.   *)
NsOf(slices) == SumFunction([i \in DOMAIN slices |-> slices[i].ns])
CpuGiven == SumFunction([i \in DOMAIN events |-> events[i].cpu])
TokensGiven == SumFunction([i \in DOMAIN events |-> events[i].tokens])

(* CPU time is neither lost nor counted twice between the goroutines: each *)
(* slice is in the channel, in the consumer's hand, in the map, in exactly *)
(* one window, or was turned away by the full channel (main.go:97-108,     *)
(* 209-215; bpf_loader.go:71-75).                                          *)
TimeConserved ==
  sliced = droppedNs + NsOf(windowChan) + NsOf(hand) + Total(cpuNs, Pids) + counted

(* The processes of a window get at most the whole of the package's and    *)
(* the memory's power, although the consumer keeps adding slices while the *)
(* window is computed (main.go:209-236, 297-301).  Of sums that do not     *)
(* overflow, and not of a GPU's power, which every process on it is given. *)
WithinPackage == pc # "attribute" => CpuGiven <= totalNs

(* A window is well formed and gives away no more than there is.           *)
WindowInv == TypeOK /\ WithinPackage

(* The tokens of a window that matched anything are all in its events, for *)
(* every order of Go's map iteration, and no event has a negative number   *)
(* of them (main.go:303-312).                                              *)
TokensConserved ==
  events # << >> =>
    /\ TokensGiven = tokens
    /\ \A i \in DOMAIN events : events[i].tokens >= 0

(* With a target, every window yields exactly one event, of this target    *)
(* and with all the window's tokens, whether or not it ran or was ever     *)
(* seen by the listener (main.go:217-221, 267-271).                        *)
TargetReported ==
  [][pc = "attribute" /\ pc' = "wait" /\ targetPid # 0 =>
       Len(events') = 1 /\ events'[1].pid = targetPid /\ events'[1].tokens = tokens']_vars

(* Every slice the channel accepted is in the snapshot of some window.     *)
EverySliceCounted ==
  \A n \in 1 .. MaxNs : (sliced - droppedNs >= n) ~> (counted >= n)

==============================================================================
