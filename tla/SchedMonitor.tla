----------------------------- MODULE SchedMonitor -----------------------------
(***************************************************************************)
(* The eBPF program agent/bpf/sched_monitor.c: at every context switch of  *)
(* every CPU it reports how long the thread that leaves was on the CPU.    *)
(* The handlers of different CPUs run at the same time and share the map   *)
(* start_times and the ring buffer of the events.                          *)
(*                                                                         *)
(* The map is keyed by thread, and a thread is on one CPU at a time, but   *)
(* the idle task has the same id 0 on all of them: its entry is whoever's  *)
(* wrote it last.                                                          *)
(***************************************************************************)
EXTENDS Integers, FiniteSets

CONSTANTS
  Cpus, Threads, \* the threads' ids
  Idle,          \* pid 0
  MaxEntries,    \* entries of start_times, 10240
  RingSize,      \* events that the ring buffer holds
  Width,         \* 2^64, the range of a __u64
  MaxTime        \* bound of the clock

ASSUME SchedAssumption ==
  /\ IsFiniteSet(Cpus) /\ IsFiniteSet(Threads) /\ Idle \notin Threads
  /\ MaxEntries \in Nat /\ Cardinality(Cpus) <= MaxEntries
  /\ RingSize \in Nat /\ MaxTime \in Nat /\ Width \in Nat /\ MaxTime < Width

VARIABLES
  now,
  cur, onto,   \* per CPU: the thread that runs or leaves, the one that comes
  at, stamp,   \* per CPU: where its handler is, and the handler's now
  start,       \* start_times: entries of the map, or None
  used,        \* events in the ring buffer
  owed,        \* history, per thread: time that it ran in slices that began
               \* with the program attached, less what events said of it
  since, first \* history, per CPU: when cur came, no switch since attached

entryVars == <<start, used>>
sliceHistory == <<owed, since, first>>
schedVars == <<now, cur, onto, at, stamp, entryVars, sliceHistory>>

Tids == Threads \cup {Idle}
None == -1
Present == {t \in Tids : start[t] # None}
Owing(t, d) == [u \in Threads |-> IF u = t THEN owed[u] + d ELSE owed[u]]

(* Attached while threads run, each on one CPU.                            *)
SchedInit ==
  /\ now = 0
  /\ cur \in [Cpus -> Tids]
  /\ \A c, d \in Cpus : c # d /\ cur[c] = cur[d] => cur[c] = Idle
  /\ onto = cur
  /\ at = [c \in Cpus |-> "run"] /\ stamp = [c \in Cpus |-> 0]
  /\ start = [t \in Tids |-> None] /\ used = 0
  /\ owed = [t \in Threads |-> 0]
  /\ since = [c \in Cpus |-> 0] /\ first = [c \in Cpus |-> TRUE]

Free(t) == \A c \in Cpus : t \notin {cur[c], onto[c]}

(* The scheduler picks another thread that is on no CPU, or idles; the     *)
(* handler starts and reads the clock.                                     *)
Switch(c, t) ==
  /\ at[c] = "run"
  /\ t # cur[c] /\ (t = Idle \/ Free(t))
  /\ at' = [at EXCEPT ![c] = "lookup"]
  /\ onto' = [onto EXCEPT ![c] = t]
  /\ stamp' = [stamp EXCEPT ![c] = now]
  /\ owed' = IF first[c] THEN owed ELSE Owing(cur[c], now - since[c])
  /\ since' = [since EXCEPT ![c] = now]
  /\ first' = [first EXCEPT ![c] = FALSE]
  /\ UNCHANGED <<now, cur, entryVars>>

(* now - *start_time, in 64 bits without a sign.                           *)
Elapsed(c) == (stamp[c] - start[cur[c]]) % Width

(* The entry of the thread that leaves, and its event if there is time to  *)
(* report: reserved and submitted, or lost when the ring buffer is full.   *)
Lookup(c) ==
  /\ at[c] = "lookup"
  /\ IF start[cur[c]] = None
     THEN at' = [at EXCEPT ![c] = "update"] /\ UNCHANGED <<used, owed>>
     ELSE /\ at' = [at EXCEPT ![c] = "delete"]
          /\ owed' = Owing(cur[c], -Elapsed(c))
          /\ used' = IF Elapsed(c) > 0 /\ used < RingSize THEN used + 1 ELSE used
  /\ UNCHANGED <<now, cur, onto, stamp, start, since, first>>

(* Mutant: the entry is left to be overwritten by the thread's next slice. *)
DeleteNothing(c) ==
  /\ at[c] = "delete"
  /\ at' = [at EXCEPT ![c] = "update"]
  /\ UNCHANGED <<now, cur, onto, stamp, entryVars, sliceHistory>>

(* Whether or not the event was lost.                                      *)
Delete(c) ==
  /\ at[c] = "delete"
  /\ start' = [start EXCEPT ![cur[c]] = None]
  /\ at' = [at EXCEPT ![c] = "update"]
  /\ UNCHANGED <<now, cur, onto, stamp, used, sliceHistory>>

(* BPF_ANY; the program does not look at the failure of a full map.        *)
Update(c) ==
  /\ at[c] = "update"
  /\ start' = IF onto[c] \in Present \/ Cardinality(Present) < MaxEntries
              THEN [start EXCEPT ![onto[c]] = stamp[c]] ELSE start
  /\ cur' = [cur EXCEPT ![c] = onto[c]]
  /\ at' = [at EXCEPT ![c] = "run"]
  /\ UNCHANGED <<now, onto, stamp, used, sliceHistory>>

(* The agent reads an event out of the ring buffer.                        *)
Read ==
  /\ used > 0
  /\ used' = used - 1
  /\ UNCHANGED <<now, cur, onto, at, stamp, start, sliceHistory>>

Tick ==
  /\ now < MaxTime
  /\ now' = now + 1
  /\ UNCHANGED <<cur, onto, at, stamp, entryVars, sliceHistory>>

Handler(c) == Lookup(c) \/ Delete(c) \/ Update(c)

SchedNext ==
  \/ \E c \in Cpus : Handler(c) \/ \E t \in Tids : Switch(c, t)
  \/ Read \/ Tick

SchedSpec == SchedInit /\ [][SchedNext]_schedVars

------------------------------------------------------------------------------
(* Every slice of a thread that began after the program was attached is    *)
(* told of by one event, for as long as it was, or by the event that a     *)
(* full ring buffer turned away; none is missed because the map had no     *)
(* room, and none counts twice from an entry that stayed behind            *)
(* (sched_monitor.c:55-86).  The latest slice is to come until its handler *)
(* has looked.                                                             *)
TimeReportedOnce ==
  \A t \in Threads :
    (\A c \in Cpus : cur[c] = t => at[c] # "lookup") => owed[t] = 0

==============================================================================
