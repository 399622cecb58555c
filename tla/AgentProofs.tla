----------------------------- MODULE AgentProofs -----------------------------
(***************************************************************************)
(* The agent's accounting, for every number of CPUs, threads, processes,   *)
(* slices and tokens and every interleaving: the scheduler monitor reports *)
(* CPU time once (SchedMonitor), a window's tokens are those generated     *)
(* since the one before (TokenAccounting), and the windows give away the   *)
(* CPU time, the power and the tokens they were given (Attribution).       *)
(* The three share no variable and are proved side by side.                *)
(***************************************************************************)
EXTENDS SchedMonitor, TokenAccounting, Attribution, SumLemmas

------------------------------------------------------------------------------
(* The scheduler monitor.                                                  *)
Shape ==
  /\ now \in Nat /\ now <= MaxTime
  /\ cur \in [Cpus -> Tids] /\ onto \in [Cpus -> Tids]
  /\ at \in [Cpus -> {"run", "lookup", "delete", "update"}]
  /\ stamp \in [Cpus -> Nat] /\ since \in [Cpus -> Nat] /\ first \in [Cpus -> BOOLEAN]
  /\ \A c \in Cpus : stamp[c] <= now /\ since[c] <= now
  /\ start \in [Tids -> Nat \cup {None}]
  /\ owed \in [Threads -> Int]

(* A thread is on one CPU, or on its way to one.                           *)
Apart ==
  /\ \A c, d \in Cpus :
       c # d => /\ cur[c] = cur[d] => cur[c] = Idle
                /\ cur[c] = onto[d] => cur[c] = Idle
                /\ onto[c] = onto[d] => onto[c] = Idle
  /\ \A c \in Cpus : at[c] = "run" <=> onto[c] = cur[c]

(* An entry is that of a thread some CPU has not finished with.            *)
Entries ==
  \A t \in Tids : start[t] # None => \E c \in Cpus : cur[c] = t /\ at[c] # "update"

(* What the entry of the thread of a CPU says, and what is owed to it.     *)
Account(c, t) ==
  /\ at[c] = "run" => start[t] = IF first[c] THEN None ELSE since[c]
  /\ at[c] # "run" => since[c] = stamp[c] /\ ~first[c]
  /\ at[c] = "lookup" =>
       owed[t] = IF start[t] = None THEN 0 ELSE stamp[c] - start[t]
  /\ at[c] = "lookup" /\ start[t] # None => start[t] <= stamp[c]
  /\ at[c] # "lookup" => owed[t] = 0

Accounts ==
  /\ \A c \in Cpus : at[c] # "run" => since[c] = stamp[c] /\ ~first[c]
  /\ \A c \in Cpus : cur[c] \in Threads => Account(c, cur[c])
  /\ \A t \in Threads : (\A c \in Cpus : cur[c] # t) => owed[t] = 0

MonitorInv == Shape /\ Apart /\ Entries /\ Accounts

LEMMA MonitorInit == SchedInit => MonitorInv
<1> SUFFICES ASSUME SchedInit PROVE MonitorInv
  OBVIOUS
<1>1. Shape
  BY SchedAssumption DEF SchedInit, Shape
<1>2. Apart /\ Entries
  BY DEF SchedInit, Apart, Entries
<1>3. Accounts
  BY DEF SchedInit, Accounts, Account, Tids
<1> QED
  BY <1>1, <1>2, <1>3 DEF MonitorInv

(* The map has room for the thread that comes.                             *)
LEMMA MapHasRoom ==
  ASSUME MonitorInv, NEW c \in Cpus, at[c] = "update"
  PROVE  Cardinality(Present) < MaxEntries
<1> DEFINE others == Cpus \ {c}
           on == [t \in Present |-> CHOOSE d \in others : cur[d] = t]
<1>1. IsFiniteSet(others) /\ Cardinality(others) = Cardinality(Cpus) - 1
  BY FS_RemoveElement, SchedAssumption
<1>2. \A t \in Present : on[t] \in others /\ cur[on[t]] = t
  <2>1. \A t \in Present : \E d \in others : cur[d] = t
    BY DEF MonitorInv, Entries, Present
  <2> QED
    BY <2>1
<1>3. on \in Injection(Present, others)
  <2>1. on \in [Present -> others]
    BY <1>2
  <2>2. \A t, u \in Present : on[t] = on[u] => t = u
    BY <1>2
  <2> HIDE DEF on
  <2> QED
    BY <2>1, <2>2 DEF Injection, IsInjective
<1>4. IsFiniteSet(Present) /\ Cardinality(Present) <= Cardinality(others)
  BY <1>1, <1>3, FS_Injection
<1>5. /\ Cardinality(Present) \in Nat /\ Cardinality(others) \in Nat
      /\ Cardinality(Cpus) \in Nat
  BY <1>1, <1>4, FS_CardinalityType, SchedAssumption
<1> QED
  BY <1>1, <1>4, <1>5, SchedAssumption

LEMMA SwitchKeeps ==
  ASSUME MonitorInv, NEW c \in Cpus, NEW t \in Tids, Switch(c, t)
  PROVE  MonitorInv'
<1>1. /\ at[c] = "run" /\ t # cur[c] /\ (t = Idle \/ Free(t))
      /\ at' = [at EXCEPT ![c] = "lookup"] /\ onto' = [onto EXCEPT ![c] = t]
      /\ stamp' = [stamp EXCEPT ![c] = now] /\ since' = [since EXCEPT ![c] = now]
      /\ first' = [first EXCEPT ![c] = FALSE]
      /\ owed' = (IF first[c] THEN owed ELSE Owing(cur[c], now - since[c]))
      /\ UNCHANGED <<now, cur, start>>
  BY DEF Switch, entryVars
<1>2. Shape'
  BY <1>1 DEF MonitorInv, Shape, Owing
<1>3. Apart'
  BY <1>1 DEF MonitorInv, Shape, Apart, Free
<1>4. Entries'
  BY <1>1 DEF MonitorInv, Shape, Entries
<1>5. \A u \in Threads : u # cur[c] => owed'[u] = owed[u]
  BY <1>1 DEF MonitorInv, Shape, Owing
<1>6. ASSUME cur[c] \in Threads PROVE Account(c, cur[c])'
  <2>1. Account(c, cur[c]) /\ owed[cur[c]] = 0 /\ start[cur[c]] = IF first[c] THEN None ELSE since[c]
    BY <1>1, <1>6 DEF MonitorInv, Accounts, Account
  <2>2. owed'[cur[c]] = IF first[c] THEN 0 ELSE now - since[c]
    BY <1>1, <1>6, <2>1 DEF MonitorInv, Shape, Owing
  <2> QED
    BY <1>1, <2>1, <2>2 DEF MonitorInv, Shape, Account, None
<1>7. ASSUME NEW d \in Cpus, d # c, cur[d] \in Threads PROVE Account(d, cur[d])'
  <2>1. cur[d] # cur[c]
    BY <1>7, SchedAssumption DEF MonitorInv, Apart
  <2> QED
    BY <1>1, <1>5, <1>7, <2>1 DEF MonitorInv, Shape, Accounts, Account
<1>8. Accounts'
  BY <1>1, <1>5, <1>6, <1>7 DEF MonitorInv, Shape, Accounts
<1> QED
  BY <1>2, <1>3, <1>4, <1>8 DEF MonitorInv

LEMMA LookupKeeps ==
  ASSUME MonitorInv, NEW c \in Cpus, Lookup(c)
  PROVE  MonitorInv'
<1>1. /\ at[c] = "lookup"
      /\ at' = [at EXCEPT ![c] = IF start[cur[c]] = None THEN "update" ELSE "delete"]
      /\ owed' = (IF start[cur[c]] = None THEN owed ELSE Owing(cur[c], -Elapsed(c)))
      /\ UNCHANGED <<now, cur, onto, stamp, start, since, first>>
  BY DEF Lookup
<1>2. /\ c \in DOMAIN at /\ cur[c] \in Tids /\ start[cur[c]] \in Nat \cup {None}
      /\ stamp[c] \in Nat /\ stamp[c] <= MaxTime
  BY SchedAssumption DEF MonitorInv, Shape
<1>3. start[cur[c]] # None => Elapsed(c) \in Int
  BY <1>2, SchedAssumption DEF Elapsed
<1>4. Shape'
  BY <1>1, <1>3 DEF MonitorInv, Shape, Owing
<1>5. Apart' /\ Entries'
  BY <1>1, <1>2 DEF MonitorInv, Shape, Apart, Entries
<1>6. \A u \in Threads : u # cur[c] => owed'[u] = owed[u]
  BY <1>1 DEF MonitorInv, Shape, Owing
<1>7. ASSUME cur[c] \in Threads PROVE Account(c, cur[c])'
  <2>1. Account(c, cur[c])
    BY <1>7 DEF MonitorInv, Accounts
  <2>2. CASE start[cur[c]] = None
    BY <1>1, <1>2, <2>1, <2>2 DEF Account
  <2>3. CASE start[cur[c]] # None
    <3>1. stamp[c] - start[cur[c]] \in 0 .. Width - 1
      BY <1>1, <1>2, <2>1, <2>3, SchedAssumption DEF Account
    <3>2. \A x \in 0 .. Width - 1 : x % Width = x
      BY SchedAssumption
    <3>3. Elapsed(c) = stamp[c] - start[cur[c]]
      BY <3>1, <3>2 DEF Elapsed
    <3>4. owed'[cur[c]] = owed[cur[c]] - Elapsed(c)
      BY <1>1, <1>3, <1>7, <2>3 DEF Owing, MonitorInv, Shape
    <3>5. owed'[cur[c]] = 0
      BY <1>1, <1>2, <2>1, <2>3, <3>3, <3>4 DEF Account
    <3> QED
      BY <1>1, <1>2, <2>1, <2>3, <3>5 DEF Account
  <2> QED
    BY <2>2, <2>3
<1>8. ASSUME NEW d \in Cpus, d # c, cur[d] \in Threads PROVE Account(d, cur[d])'
  <2>1. cur[d] # cur[c]
    BY <1>8, SchedAssumption DEF MonitorInv, Apart
  <2> QED
    BY <1>1, <1>6, <1>8, <2>1 DEF MonitorInv, Shape, Accounts, Account
<1>9. Accounts'
  BY <1>1, <1>2, <1>6, <1>7, <1>8 DEF MonitorInv, Shape, Accounts
<1> QED
  BY <1>4, <1>5, <1>9 DEF MonitorInv

LEMMA DeleteKeeps ==
  ASSUME MonitorInv, NEW c \in Cpus, Delete(c)
  PROVE  MonitorInv'
<1>1. /\ at[c] = "delete" /\ at' = [at EXCEPT ![c] = "update"]
      /\ start' = [start EXCEPT ![cur[c]] = None]
      /\ UNCHANGED <<now, cur, onto, stamp, owed, since, first>>
  BY DEF Delete, sliceHistory
<1>2. Shape' /\ Apart' /\ Entries'
  BY <1>1 DEF MonitorInv, Shape, Apart, Entries
<1>3. ASSUME cur[c] \in Threads PROVE Account(c, cur[c])'
  BY <1>1, <1>3 DEF MonitorInv, Shape, Accounts, Account
<1>4. ASSUME NEW d \in Cpus, d # c, cur[d] \in Threads PROVE Account(d, cur[d])'
  <2>1. cur[d] # cur[c]
    BY <1>4, SchedAssumption DEF MonitorInv, Apart
  <2> QED
    BY <1>1, <1>4, <2>1 DEF MonitorInv, Shape, Accounts, Account
<1>5. Accounts'
  BY <1>1, <1>3, <1>4 DEF MonitorInv, Shape, Accounts
<1> QED
  BY <1>2, <1>5 DEF MonitorInv

LEMMA UpdateKeeps ==
  ASSUME MonitorInv, NEW c \in Cpus, Update(c)
  PROVE  MonitorInv'
<1>1. /\ at[c] = "update" /\ at' = [at EXCEPT ![c] = "run"]
      /\ cur' = [cur EXCEPT ![c] = onto[c]]
      /\ start' = [start EXCEPT ![onto[c]] = stamp[c]]
      /\ UNCHANGED <<now, onto, stamp, owed, since, first>>
  BY MapHasRoom DEF Update, sliceHistory
<1>2. /\ onto[c] \in Tids /\ onto[c] # cur[c] /\ since[c] = stamp[c] /\ ~first[c]
      /\ \A d \in Cpus : d # c /\ cur[d] = onto[c] => onto[c] = Idle
  BY <1>1 DEF MonitorInv, Shape, Apart, Accounts
<1>3. Shape' /\ Apart'
  BY <1>1, <1>2 DEF MonitorInv, Shape, Apart
<1>4. Entries'
  BY <1>1, <1>2 DEF MonitorInv, Shape, Entries
<1>5. ASSUME onto[c] \in Threads PROVE Account(c, onto[c])'
  <2>1. owed[onto[c]] = 0
    BY <1>2, <1>5, SchedAssumption DEF MonitorInv, Accounts
  <2> QED
    BY <1>1, <1>2, <2>1 DEF MonitorInv, Shape, Account
<1>6. ASSUME NEW d \in Cpus, d # c, cur[d] \in Threads PROVE Account(d, cur[d])'
  <2>1. cur[d] # onto[c]
    BY <1>2, <1>6, SchedAssumption
  <2> QED
    BY <1>1, <1>6, <2>1 DEF MonitorInv, Shape, Accounts, Account
<1>7. ASSUME NEW t \in Threads, \A d \in Cpus : cur'[d] # t PROVE owed'[t] = 0
  <2>1. CASE t = cur[c]
    BY <1>1, <2>1 DEF MonitorInv, Accounts, Account
  <2>2. CASE t # cur[c]
    BY <1>1, <1>7, <2>2 DEF MonitorInv, Shape, Accounts
  <2> QED
    BY <2>1, <2>2
<1>8. Accounts'
  <2>1. ASSUME NEW d \in Cpus, cur'[d] \in Threads PROVE Account(d, cur[d])'
    <3>1. CASE d = c
      BY <1>1, <1>5, <2>1, <3>1 DEF MonitorInv, Shape, Account
    <3>2. CASE d # c
      BY <1>1, <1>6, <2>1, <3>2 DEF MonitorInv, Shape
    <3> QED
      BY <3>1, <3>2
  <2>2. \A d \in Cpus : at'[d] # "run" => since'[d] = stamp'[d] /\ ~first'[d]
    BY <1>1 DEF MonitorInv, Shape, Accounts
  <2> QED
    BY <1>7, <2>1, <2>2 DEF Accounts
<1> QED
  BY <1>3, <1>4, <1>8 DEF MonitorInv

LEMMA MonitorStep == MonitorInv /\ [SchedNext]_schedVars => MonitorInv'
<1> SUFFICES ASSUME MonitorInv, [SchedNext]_schedVars PROVE MonitorInv'
  OBVIOUS
<1>1. CASE Read \/ Tick \/ UNCHANGED schedVars
  <2>1. /\ UNCHANGED <<cur, onto, at, stamp, start, owed, since, first>>
        /\ now' \in Nat /\ now <= now' /\ now' <= MaxTime
    BY <1>1, SchedAssumption
       DEF Read, Tick, schedVars, entryVars, sliceHistory, MonitorInv, Shape
  <2>2. Shape'
    BY <2>1 DEF MonitorInv, Shape
  <2> QED
    BY <2>1, <2>2 DEF MonitorInv, Apart, Entries, Accounts, Account
<1> QED
  BY <1>1, SwitchKeeps, LookupKeeps, DeleteKeeps, UpdateKeeps DEF SchedNext, Handler

(* CPU time is reported once: every slice that began with the program      *)
(* attached leads to one event of its length, and the map always has room  *)
(* for the thread that comes (sched_monitor.c:55-86).                      *)
THEOREM ReportedOnce == SchedSpec => []TimeReportedOnce
<1>1. MonitorInv => TimeReportedOnce
  BY DEF MonitorInv, Accounts, Account, TimeReportedOnce
<1> QED
  BY <1>1, MonitorInit, MonitorStep, PTL DEF SchedSpec

------------------------------------------------------------------------------
(* The accounting of tokens.                                               *)
LEMMA TokenInitInv == TokenInit => IndInv
<1> SUFFICES ASSUME TokenInit PROVE IndInv
  OBVIOUS
<1>1. counter \in 0 .. MaxGenerated /\ counter \in Nat /\ 0 \in 0 .. MaxRestarts
      /\ 0 \in 0 .. MaxPhantom
  BY TokenAssumption DEF TokenInit
<1>2. prev \in 0 .. counter /\ baseline \in BOOLEAN
  BY <1>1 DEF TokenInit
<1>3. prev \in 0 .. MaxGenerated /\ counter - prev \in 0 .. MaxGenerated
  BY <1>1, <1>2, TokenAssumption
<1>4. /\ generated = counter /\ sourcePrev = prev /\ emitted = 0 /\ unmatched = 0
      /\ seen = counter /\ short = counter - prev /\ phantom = 0 /\ base = prev
      /\ credited = 0 /\ regressed = FALSE /\ restarts = 0
  BY DEF TokenInit
<1>5. TokenTypeOK
  <2>1. 0 \in Nat /\ 0 \in Int
    OBVIOUS
  <2> QED
    BY <1>1, <1>2, <1>3, <1>4, <2>1, Zenon DEF TokenTypeOK
<1> QED
  BY <1>1, <1>2, <1>4, <1>5
     DEF IndInv, Outstanding, PhantomsBounded, FailuresLoseNothing

LEMMA TokenGenerateInv == IndInv /\ Generate => IndInv'
BY TokenAssumption
   DEF Generate, IndInv, TokenTypeOK, Outstanding, PhantomsBounded,
       FailuresLoseNothing, agentVars, tokenHistory

LEMMA TokenEngineRestartInv == IndInv /\ EngineRestart => IndInv'
BY TokenAssumption
   DEF EngineRestart, IndInv, TokenTypeOK, Outstanding, PhantomsBounded,
       FailuresLoseNothing, agentVars

(* The numbers of the model as integers.                                   *)
LEMMA TokenNumbers ==
  ASSUME IndInv
  PROVE  /\ counter \in Nat /\ generated \in Nat /\ prev \in Nat /\ seen \in Nat
         /\ short \in Nat /\ phantom \in Nat /\ emitted \in Nat /\ unmatched \in Nat
         /\ base \in Nat /\ credited \in Int
         /\ seen <= generated /\ counter <= generated /\ generated <= MaxGenerated
         /\ emitted + unmatched <= seen + phantom
BY TokenAssumption DEF IndInv, TokenTypeOK, Outstanding, PhantomsBounded

(* A reading is of a part of the counter.                                  *)
LEMMA PartOfCounter ==
  ASSUME IndInv, NEW result \in ScrapeResults, Success(result)
  PROVE  /\ result \in 0 .. MaxGenerated /\ result \in Nat /\ result <= counter
         /\ counter - result \in 0 .. MaxGenerated
BY TokenAssumption DEF IndInv, TokenTypeOK, ScrapeResults, Success

LEMMA TokenAgentRestartInv ==
  ASSUME IndInv, NEW result \in ScrapeResults, AgentRestart(result)
  PROVE  IndInv'
<1>1. TokenTypeOK
  BY DEF IndInv
<1>2. /\ UNCHANGED <<counter, generated, emitted, unmatched>>
      /\ restarts < MaxRestarts /\ restarts' = restarts + 1
      /\ phantom' <= MaxPhantom
      /\ credited' = emitted + unmatched - phantom'
      /\ regressed' = FALSE
  BY DEF AgentRestart, engineVars
<1>3. restarts' \in 0 .. MaxRestarts
  BY <1>1, <1>2, TokenAssumption DEF TokenTypeOK
<1>4. CASE Success(result)
  <2>1. /\ prev' = result /\ baseline' = TRUE /\ sourcePrev' = result
        /\ seen' = generated /\ short' = counter - result
        /\ phantom' = phantom + (counter - result) /\ base' = result
    BY <1>4 DEF AgentRestart, StartAgent
  <2>2. phantom' \in 0 .. MaxPhantom
    BY <1>2, <1>4, <2>1, TokenNumbers, PartOfCounter, TokenAssumption
  <2>3. credited' \in Int
    BY <1>2, <2>2, TokenNumbers
  <2>4. TokenTypeOK'
    BY <1>1, <1>2, <1>3, <1>4, <2>1, <2>2, <2>3, PartOfCounter DEF TokenTypeOK
  <2>5. Outstanding' /\ PhantomsBounded' /\ FailuresLoseNothing'
    BY <1>2, <1>4, <2>1, TokenNumbers, PartOfCounter
       DEF Outstanding, PhantomsBounded, FailuresLoseNothing
  <2> QED
    BY <2>4, <2>5 DEF IndInv
<1>5. CASE ~Success(result)
  <2>1. /\ prev' = 0 /\ baseline' = FALSE /\ sourcePrev' = 0
        /\ UNCHANGED <<seen, short, phantom, base>>
    BY <1>5 DEF AgentRestart, StartAgent
  <2>2. credited' \in Int /\ 0 \in 0 .. MaxGenerated
    BY <1>2, <2>1, TokenNumbers, TokenAssumption
  <2>3. TokenTypeOK'
    BY <1>1, <1>2, <1>3, <2>1, <2>2 DEF TokenTypeOK
  <2>4. Outstanding' /\ PhantomsBounded' /\ FailuresLoseNothing'
    BY <1>2, <2>1, TokenNumbers DEF Outstanding, PhantomsBounded, FailuresLoseNothing
  <2> QED
    BY <2>3, <2>4 DEF IndInv
<1> QED
  BY <1>4, <1>5

(* What one window reports.  Values after the step are written as values   *)
(* before it: m tokens go into events, n nowhere.                          *)
LEMMA WindowReports ==
  ASSUME IndInv, NEW result \in ScrapeResults, NEW matched \in BOOLEAN,
         Window(result, matched)
  PROVE  \E m, n \in Nat :
           /\ emitted' = emitted + m
           /\ unmatched' = unmatched + n
           /\ m + n <= (generated - seen) + short
           /\ Success(result) /\ baseline => m + n = Delta(result, prev)
           /\ ~(Success(result) /\ baseline) => m + n = 0
<1> DEFINE delta == Delta(Reading(result), Previous(result))
<1>1. Success(result) => result \in Nat /\ result <= counter
  BY PartOfCounter
<1>2. Success(result) /\ baseline => delta = Delta(result, prev)
  BY DEF Reading, Previous
<1>3. ~(Success(result) /\ baseline) => delta = 0
  BY <1>1, TokenNumbers DEF Reading, Previous, Delta
<1>4. Success(result) /\ baseline =>
        /\ Delta(result, prev) \in Nat
        /\ Delta(result, prev) <= (generated - seen) + short
  BY <1>1, TokenNumbers DEF Delta, IndInv, Outstanding
<1>5. delta \in Nat /\ delta <= (generated - seen) + short
  BY <1>2, <1>3, <1>4, TokenNumbers
<1>6. /\ emitted' = emitted + (IF matched THEN delta ELSE 0)
      /\ unmatched' = unmatched + (IF matched THEN 0 ELSE delta)
  BY DEF Window
<1> HIDE DEF delta
<1>7. delta + 0 = delta /\ 0 + delta = delta /\ 0 \in Nat
  BY <1>5
<1>8. CASE matched
  BY <1>2, <1>3, <1>5, <1>6, <1>7, <1>8
<1>9. CASE ~matched
  BY <1>2, <1>3, <1>5, <1>6, <1>7, <1>9
<1> QED
  BY <1>8, <1>9

(* A window whose scrape succeeds, with what it reports as m and n.        *)
LEMMA ReadingKeeps ==
  ASSUME IndInv, NEW result \in ScrapeResults, NEW matched \in BOOLEAN,
         Window(result, matched), Success(result)
  PROVE  IndInv'
<1>1. PICK m \in Nat, n \in Nat :
        /\ emitted' = emitted + m
        /\ unmatched' = unmatched + n
        /\ baseline => m + n = Delta(result, prev)
        /\ ~baseline => m + n = 0
  BY WindowReports
<1>2. /\ UNCHANGED <<counter, generated, restarts>>
      /\ prev' = result /\ sourcePrev' = result /\ baseline' = TRUE
      /\ seen' = generated /\ short' = counter - result /\ regressed' = FALSE
      /\ phantom' <= MaxPhantom
  BY DEF Window, CumulativeTokens, Reading, Witness, engineVars
<1>3. phantom' = phantom + (IF ~baseline THEN counter - result
                            ELSE IF regressed THEN 0 ELSE Delta(prev, result))
  BY DEF Window, Witness
<1>4. IF regressed \/ ~baseline
      THEN base' = result /\ credited' = (emitted' + unmatched') - phantom'
      ELSE UNCHANGED <<base, credited>>
  <2>1. Witness(result, emitted' + unmatched')
    BY DEF Window
  <2> QED
    BY <2>1, Zenon DEF Witness
<1>5. /\ result \in Nat /\ result <= counter /\ result \in 0 .. MaxGenerated
      /\ counter - result \in 0 .. MaxGenerated
  BY PartOfCounter
<1>6. Delta(prev, result) \in Nat /\ Delta(result, prev) \in Nat
      /\ Delta(result, prev) - Delta(prev, result) = result - prev
  BY <1>5, TokenNumbers DEF Delta
<1>7. phantom' \in 0 .. MaxPhantom /\ phantom <= phantom'
  BY <1>2, <1>3, <1>5, <1>6, TokenNumbers, TokenAssumption
<1>8. /\ emitted' \in Nat /\ unmatched' \in Nat
      /\ emitted' + unmatched' = emitted + unmatched + (m + n)
  BY <1>1, TokenNumbers
<1>9. TokenTypeOK'
  <2>1. base' \in 0 .. MaxGenerated /\ credited' \in Int
    BY <1>4, <1>5, <1>7, <1>8 DEF IndInv, TokenTypeOK
  <2> QED
    BY <1>2, <1>5, <1>7, <1>8, <2>1 DEF IndInv, TokenTypeOK
<1>10. emitted' + unmatched' + (counter - result) <= generated + phantom'
  <2>1. CASE ~baseline
    BY <1>1, <1>3, <1>5, <1>8, <2>1, TokenNumbers
  <2>2. CASE baseline /\ prev <= result
    <3>1. Delta(result, prev) = result - prev
      BY <1>5, <2>2, TokenNumbers DEF Delta
    <3>2. emitted + unmatched + (counter - prev) <= generated + phantom
      BY <2>2 DEF IndInv, Outstanding
    <3> QED
      BY <1>1, <1>5, <1>7, <1>8, <2>2, <3>1, <3>2, TokenNumbers
  <2>3. CASE baseline /\ ~(prev <= result) /\ regressed
    <3>1. Delta(result, prev) = 0
      BY <1>5, <2>3, TokenNumbers DEF Delta
    <3>2. counter <= generated - seen
      BY <2>3 DEF IndInv, Outstanding
    <3> QED
      BY <1>1, <1>5, <1>7, <1>8, <2>3, <3>1, <3>2, TokenNumbers
  <2>4. CASE baseline /\ ~(prev <= result) /\ ~regressed
    <3>1. Delta(result, prev) = 0 /\ phantom' = phantom + (prev - result)
      BY <1>3, <1>5, <2>4, TokenNumbers DEF Delta
    <3>2. emitted + unmatched + (counter - prev) <= generated + phantom
      BY <2>4 DEF IndInv, Outstanding
    <3> QED
      BY <1>1, <1>5, <1>8, <2>4, <3>1, <3>2, TokenNumbers
  <2> QED
    BY <2>1, <2>2, <2>3, <2>4
<1>11. Outstanding' /\ PhantomsBounded'
  BY <1>2, <1>5, <1>7, <1>8, <1>10, TokenNumbers DEF Outstanding, PhantomsBounded
<1>12. FailuresLoseNothing'
  <2>1. CASE regressed \/ ~baseline
    BY <1>2, <1>4, <1>5, <1>7, <1>8, <2>1 DEF FailuresLoseNothing
  <2>2. CASE ~regressed /\ baseline
    <3>1. phantom' = phantom + Delta(prev, result) /\ UNCHANGED <<base, credited>>
      BY <1>3, <1>4, <2>2
    <3>2. emitted + unmatched - phantom - credited = prev - base
      BY <2>2 DEF IndInv, FailuresLoseNothing
    <3>3. emitted' + unmatched' - phantom' - credited = result - base
      BY <1>1, <1>5, <1>6, <1>8, <2>2, <3>1, <3>2, TokenNumbers
    <3> QED
      BY <1>2, <3>1, <3>3 DEF FailuresLoseNothing
  <2> QED
    BY <2>1, <2>2
<1> QED
  BY <1>9, <1>11, <1>12 DEF IndInv

(* A window whose scrape fails changes nothing.                            *)
LEMMA FailedWindow ==
  ASSUME IndInv, NEW result \in ScrapeResults, NEW matched \in BOOLEAN,
         Window(result, matched), ~Success(result)
  PROVE  UNCHANGED tokenVars
<1>1. PICK m \in Nat, n \in Nat :
        emitted' = emitted + m /\ unmatched' = unmatched + n /\ m + n = 0
  BY WindowReports
<1>2. m = 0 /\ n = 0
  BY <1>1
<1>3. UNCHANGED <<emitted, unmatched>>
  BY <1>1, <1>2, TokenNumbers
<1>4. baseline' = baseline
  BY DEF Window, IndInv, TokenTypeOK
<1> QED
  BY <1>3, <1>4 DEF Window, CumulativeTokens, Reading, tokenVars, engineVars,
                    agentVars, tokenHistory

LEMMA TokenUnchanged == IndInv /\ UNCHANGED tokenVars => IndInv'
BY DEF tokenVars, engineVars, agentVars, tokenHistory, IndInv, TokenTypeOK,
       Outstanding, PhantomsBounded, FailuresLoseNothing

LEMMA TokenNextInv == IndInv /\ [TokenNext]_tokenVars => IndInv'
<1> SUFFICES ASSUME IndInv, [TokenNext]_tokenVars PROVE IndInv'
  OBVIOUS
<1>1. CASE Generate
  BY <1>1, TokenGenerateInv
<1>2. CASE EngineRestart
  BY <1>2, TokenEngineRestartInv
<1>3. ASSUME NEW result \in ScrapeResults, AgentRestart(result) PROVE IndInv'
  BY <1>3, TokenAgentRestartInv
<1>4. ASSUME NEW result \in ScrapeResults, NEW matched \in BOOLEAN,
             Window(result, matched)
      PROVE  IndInv'
  BY <1>4, ReadingKeeps, FailedWindow, TokenUnchanged
<1>5. CASE UNCHANGED tokenVars
  BY <1>5, TokenUnchanged
<1> QED
  BY <1>1, <1>2, <1>3, <1>4, <1>5 DEF TokenNext

(* For every number of tokens, restarts, failures and short pages, what    *)
(* the agents report is at most what was generated and what short pages    *)
(* account for (main.go:239-257, prometheus_source.go:70).                 *)
THEOREM PhantomsAccounted == TokenSpec => [](TokenTypeOK /\ PhantomsBounded)
<1>1. IndInv => TokenTypeOK /\ PhantomsBounded
  BY DEF IndInv
<1> QED
  BY TokenInitInv, TokenNextInv, <1>1, PTL DEF TokenSpec

(* A reading of the whole counter gives nothing to report again.           *)
LEMMA WholePageNoPhantom ==
  ASSUME IndInv, phantom = 0, short' = 0, [TokenNext]_tokenVars
  PROVE  phantom' = 0
<1>1. CASE Generate \/ EngineRestart \/ UNCHANGED tokenVars
  BY <1>1 DEF Generate, EngineRestart, tokenHistory, tokenVars
<1>2. ASSUME NEW result \in ScrapeResults, AgentRestart(result) PROVE phantom' = 0
  BY <1>2 DEF AgentRestart
<1>3. ASSUME NEW result \in ScrapeResults, NEW matched \in BOOLEAN,
             Window(result, matched)
      PROVE  phantom' = 0
  <2>1. CASE ~Success(result)
    BY <1>3, <2>1 DEF Window
  <2>2. CASE Success(result)
    <3>1. counter - result = 0 /\ result \in Nat /\ result = counter
      BY <1>3, <2>2, TokenNumbers, PartOfCounter DEF Window, Witness
    <3>2. phantom' = (IF ~baseline THEN counter - result
                      ELSE IF regressed THEN 0 ELSE Delta(prev, result))
      BY <1>3, <2>2, <3>1, TokenNumbers DEF Window, Witness, Delta
    <3>3. baseline /\ ~regressed => prev <= result
      BY <3>1 DEF IndInv, Outstanding
    <3> QED
      BY <3>1, <3>2, <3>3, TokenNumbers DEF Delta
  <2> QED
    BY <2>1, <2>2
<1> QED
  BY <1>1, <1>2, <1>3 DEF TokenNext

(* Without short pages: as long as every page that is read is whole, no    *)
(* token is invented, whatever fails and restarts (main.go:244-257).       *)
THEOREM WholePagesInventNothing ==
  TokenSpec /\ [](short = 0) => [](emitted + unmatched <= seen)
<1> DEFINE Whole == IndInv /\ phantom = 0
<1>1. TokenInit => Whole
  BY TokenInitInv DEF TokenInit
<1>2. Whole /\ (short = 0)' /\ [TokenNext]_tokenVars => Whole'
  BY TokenNextInv, WholePageNoPhantom
<1>3. Whole => emitted + unmatched <= seen
  BY TokenNumbers
<1> HIDE DEF Whole
<1> QED
  BY <1>1, <1>2, <1>3, PTL DEF TokenSpec

(* A scrape that fails loses no token: what it could not read is in a      *)
(* later window, and a reading that fell is reported again by exactly what *)
(* it fell (main.go:239-257).                                              *)
THEOREM FailedScrapesLoseNothing == TokenSpec => []FailuresLoseNothing
<1>1. IndInv => FailuresLoseNothing
  BY DEF IndInv
<1> QED
  BY TokenInitInv, TokenNextInv, <1>1, PTL DEF TokenSpec

(* No window ever reports more than was generated since the latest         *)
(* successful scrape and what that scrape left out.                        *)
THEOREM SpikesAlwaysBounded == TokenSpec => SpikesBounded
<1> DEFINE Bounded ==
      emitted' + unmatched' - (emitted + unmatched) <= (generated - seen) + short
<1>1. IndInv /\ [TokenNext]_tokenVars => [Bounded]_tokenVars
  <2> SUFFICES ASSUME IndInv, TokenNext PROVE Bounded
    OBVIOUS
  <2>1. UNCHANGED <<emitted, unmatched>> => Bounded
    BY TokenNumbers
  <2>2. CASE Generate \/ EngineRestart
    BY <2>1, <2>2 DEF Generate, EngineRestart, tokenHistory
  <2>3. ASSUME NEW result \in ScrapeResults, AgentRestart(result) PROVE Bounded
    BY <2>1, <2>3 DEF AgentRestart
  <2>4. ASSUME NEW result \in ScrapeResults, NEW matched \in BOOLEAN,
               Window(result, matched)
        PROVE  Bounded
    <3>1. PICK m \in Nat, n \in Nat :
            /\ emitted' = emitted + m
            /\ unmatched' = unmatched + n
            /\ m + n <= (generated - seen) + short
      BY <2>4, WindowReports
    <3> QED
      BY <3>1, TokenNumbers
  <2> QED
    BY <2>2, <2>3, <2>4 DEF TokenNext
<1> QED
  BY <1>1, TokenInitInv, TokenNextInv, PTL DEF TokenSpec, SpikesBounded

------------------------------------------------------------------------------
(* The attribution of a window.                                            *)
Slice == [pid : Pids, ns : Slices]
EventWith(times) ==
  [pid : Pids, cpu : times, gpu : Gpus \cup {NoGpu}, tokens : 0 .. MaxTokens]

(* Types without the bounds that follow from the sums.                     *)
Shapes ==
  /\ targetPid \in Targets
  /\ windowChan \in Seq(Slice) /\ Len(windowChan) <= ChanSize
  /\ hand \in Seq(Slice) /\ Len(hand) <= 1
  /\ known \in SUBSET Pids
  /\ cpuNs \in [Pids -> Nat]
  /\ running \in [Gpus -> SUBSET Pids]
  /\ pc \in {"wait", "snapshot", "attribute"}
  /\ gpuMap \in [Pids -> Gpus \cup {NoGpu}]
  /\ snapPids \in SUBSET Pids
  /\ snapNs \in [Pids -> Nat]
  /\ totalNs \in Nat
  /\ tokens \in 0 .. MaxTokens
  /\ events \in Seq(EventWith(Nat))
  /\ sliced \in 0 .. MaxNs /\ droppedNs \in Nat /\ counted \in Nat

(* The map has no time of a process without an entry.                      *)
EntriesOnly == \A p \in Pids \ known : cpuNs[p] = 0

(* The total of a snapshot is that of all its entries, and is counted; so  *)
(* is the time of every event, also while the next window is computed.     *)
SnapshotWhole ==
  /\ totalNs = Total(snapNs, Pids)
  /\ totalNs <= counted
  /\ \A i \in DOMAIN events : events[i].cpu <= counted

TargetInSnapshot == pc = "attribute" /\ targetPid # 0 => targetPid \in snapPids

AttributionInv ==
  /\ Shapes /\ EntriesOnly /\ TimeConserved /\ SnapshotWhole /\ TargetInSnapshot
  /\ WithinPackage /\ TokensConserved

------------------------------------------------------------------------------
(* A slice's time is a natural number.                                     *)
LEMMA SliceTime == \A e \in Slice : e.pid \in Pids /\ e.ns \in Nat
  BY AttributionAssumption DEF Slice

LEMMA NsOfNone == NsOf(<< >>) = 0
<1>1. DOMAIN [i \in DOMAIN << >> |-> << >>[i].ns] = {}
  OBVIOUS
<1> QED
  BY <1>1, SumEmpty DEF NsOf, SumFunction

LEMMA NsOfType ==
  ASSUME NEW s \in Seq(Slice)
  PROVE  NsOf(s) \in Nat
<1> DEFINE f == [i \in DOMAIN s |-> s[i].ns]
<1>1. IsFiniteSet(DOMAIN s)
  BY FS_Interval
<1>2. \A i \in DOMAIN s : f[i] \in Nat
  BY SliceTime
<1>3. NsOf(s) = SumFunctionOnSet(f, DOMAIN s)
  BY DEF NsOf, SumFunction
<1> HIDE DEF f
<1> QED
  BY <1>1, <1>2, <1>3, SumNat

LEMMA NsOfAppend ==
  ASSUME NEW s \in Seq(Slice), NEW e \in Slice
  PROVE  NsOf(Append(s, e)) = NsOf(s) + e.ns
<1> DEFINE r == Append(s, e)
           f == [i \in DOMAIN s |-> s[i].ns]
           g == [i \in DOMAIN r |-> r[i].ns]
           n == Len(s) + 1
<1>1. /\ n \in Nat /\ DOMAIN s = 1 .. Len(s) /\ DOMAIN r = DOMAIN s \cup {n}
      /\ n \notin DOMAIN s /\ IsFiniteSet(DOMAIN s)
  <2>1. /\ n \in Nat /\ DOMAIN s = 1 .. Len(s) /\ DOMAIN r = DOMAIN s \cup {n}
        /\ n \notin DOMAIN s /\ Len(s) \in Int
    OBVIOUS
  <2>2. IsFiniteSet(1 .. Len(s))
    BY <2>1, FS_Interval
  <2> QED
    BY <2>1, <2>2
<1>2. \A i \in DOMAIN s : f[i] = g[i] /\ f[i] \in Nat
  BY SliceTime
<1>3. g[n] = e.ns /\ e.ns \in Nat
  BY <1>1, SliceTime
<1>4. /\ NsOf(s) = SumFunctionOnSet(f, DOMAIN s)
      /\ NsOf(r) = SumFunctionOnSet(g, DOMAIN r)
  BY DEF NsOf, SumFunction
<1> HIDE DEF f, g, r, n
<1>5. SumFunctionOnSet(f, DOMAIN s) = SumFunctionOnSet(g, DOMAIN s)
  BY <1>1, <1>2, SumEqual
<1>6. SumFunctionOnSet(g, DOMAIN s \cup {n}) = g[n] + SumFunctionOnSet(g, DOMAIN s)
  <2>1. \A i \in DOMAIN s \cup {n} : g[i] \in Int
    BY <1>2, <1>3
  <2> QED
    BY <1>1, <2>1, SumAdd
<1>7. NsOf(s) \in Nat
  BY NsOfType
<1>8. NsOf(r) = NsOf(s) + e.ns
  BY <1>1, <1>3, <1>4, <1>5, <1>6, <1>7
<1> QED
  BY <1>8 DEF r

LEMMA NsOfOne == \A e \in Slice : NsOf(<<e>>) = e.ns
<1> SUFFICES ASSUME NEW e \in Slice PROVE NsOf(<<e>>) = e.ns
  OBVIOUS
<1>1. << >> \in Seq(Slice) /\ Append(<< >>, e) = <<e>>
  OBVIOUS
<1>2. NsOf(Append(<< >>, e)) = NsOf(<< >>) + e.ns
  BY <1>1, NsOfAppend
<1> QED
  BY <1>1, <1>2, NsOfNone, SliceTime

LEMMA NsOfTail ==
  ASSUME NEW s \in Seq(Slice), s # << >>
  PROVE  NsOf(s) = Head(s).ns + NsOf(Tail(s))
<1> DEFINE f == [i \in DOMAIN s |-> s[i].ns]
           g == [i \in DOMAIN Tail(s) |-> Tail(s)[i].ns]
           h == [i \in DOMAIN Tail(s) |-> i + 1]
           S == DOMAIN s
           T == DOMAIN Tail(s)
<1>1. /\ Len(s) \in Nat \ {0} /\ S = 1 .. Len(s) /\ T = 1 .. Len(s) - 1
      /\ IsFiniteSet(S) /\ IsFiniteSet(T) /\ IsFiniteSet(S \ {1}) /\ 1 \in S
  <2>1. Len(s) \in Nat \ {0} /\ S = 1 .. Len(s) /\ T = 1 .. Len(s) - 1
    OBVIOUS
  <2>2. IsFiniteSet(S) /\ IsFiniteSet(T)
    BY <2>1, FS_Interval
  <2>3. IsFiniteSet(S \ {1})
    BY <2>2, FS_RemoveElement
  <2> QED
    BY <2>1, <2>2, <2>3
<1>2. \A i \in S : f[i] \in Int
  BY SliceTime
<1>3. /\ h \in [T -> S \ {1}]
      /\ \A t, u \in T : h[t] = h[u] => t = u
      /\ \A x \in S \ {1} : x - 1 \in T /\ h[x - 1] = x
  BY <1>1
<1>4. \A t \in T : g[t] = f[h[t]]
  BY <1>1
<1>5. f[1] = Head(s).ns
  BY <1>1
<1>6. NsOf(s) = SumFunctionOnSet(f, S) /\ NsOf(Tail(s)) = SumFunctionOnSet(g, T)
  BY DEF NsOf, SumFunction
<1> HIDE DEF f, g, h, S, T
<1>7. SumFunctionOnSet(g, T) = SumFunctionOnSet(f, S \ {1})
  <2>1. \A x \in S \ {1} : \E t \in T : h[t] = x
    BY <1>3
  <2> DEFINE R == S \ {1}
  <2>2. /\ IsFiniteSet(R) /\ IsFiniteSet(T) /\ h \in [T -> R]
        /\ \A x \in R : f[x] \in Int
        /\ \A x \in R : \E t \in T : h[t] = x
        /\ \A t, u \in T : h[t] = h[u] => t = u
    BY <1>1, <1>2, <1>3, <2>1
  <2> HIDE DEF R
  <2>3. SumFunctionOnSet(g, T) = SumFunctionOnSet(f, R)
    BY <1>4, <2>2, SumRenamed
  <2> QED
    BY <2>3 DEF R
<1>8. SumFunctionOnSet(f, S) = f[1] + SumFunctionOnSet(f, S \ {1})
  BY <1>1, <1>2, SumRemove
<1> QED
  BY <1>5, <1>6, <1>7, <1>8
------------------------------------------------------------------------------
LEMMA NoTimeTotal == Total(NoTime, Pids) = 0
<1>1. /\ IsFiniteSet(Pids) /\ {} \in SUBSET Pids
      /\ \A p \in Pids : NoTime[p] \in Nat /\ NoTime[p] = 0
  BY AttributionAssumption DEF NoTime
<1>2. SumFunctionOnSet(NoTime, {}) = SumFunctionOnSet(NoTime, Pids)
  BY <1>1, SumSupport
<1> QED
  BY <1>2, SumEmpty DEF Total

(* A snapshot's total is a number, no less than any of its entries and no  *)
(* less than that of the entries of some processes.                        *)
LEMMA TotalBounds ==
  ASSUME NEW ns \in [Pids -> Nat], NEW P \in SUBSET Pids
  PROVE  /\ Total(ns, Pids) \in Nat /\ Total(ns, P) \in Nat
         /\ Total(ns, P) <= Total(ns, Pids)
         /\ \A p \in Pids : ns[p] <= Total(ns, Pids)
<1>1. IsFiniteSet(Pids) /\ IsFiniteSet(P)
  BY AttributionAssumption, FS_Subset
<1>2. Total(ns, Pids) \in Nat /\ Total(ns, P) \in Nat
  BY <1>1, SumNat DEF Total
<1>3. Total(ns, P) <= Total(ns, Pids)
  BY <1>1, SumSubset DEF Total
<1>4. ASSUME NEW p \in Pids PROVE ns[p] <= Total(ns, Pids)
  <2>1. IsFiniteSet(Pids \ {p})
    BY <1>1, FS_RemoveElement
  <2>2. SumFunctionOnSet(ns, Pids \ {p}) \in Nat
    BY <2>1, SumNat
  <2>3. SumFunctionOnSet(ns, Pids) = ns[p] + SumFunctionOnSet(ns, Pids \ {p})
    BY <1>1, SumRemove
  <2> QED
    BY <2>2, <2>3 DEF Total
<1> QED
  BY <1>2, <1>3, <1>4

LEMMA TotalAdds ==
  ASSUME NEW ns \in [Pids -> Nat], NEW p \in Pids, NEW d \in Nat
  PROVE  Total([ns EXCEPT ![p] = @ + d], Pids) = Total(ns, Pids) + d
<1> DEFINE new == [ns EXCEPT ![p] = @ + d]
<1>1. /\ \A q \in Pids : ns[q] \in Int /\ new[q] \in Int
      /\ \A q \in Pids \ {p} : new[q] = ns[q]
      /\ new[p] - ns[p] = d
  OBVIOUS
<1> HIDE DEF new
<1>2. SumFunctionOnSet(new, Pids) = SumFunctionOnSet(ns, Pids) + (new[p] - ns[p])
  <2>1. IsFiniteSet(Pids)
    BY AttributionAssumption
  <2> QED
    BY <1>1, <2>1, SumUpdate
<1>3. Total(new, Pids) = Total(ns, Pids) + d
  BY <1>1, <1>2 DEF Total
<1> QED
  BY <1>3 DEF new

------------------------------------------------------------------------------
(* The window's events.  An order of the matched processes names each of   *)
(* them once.                                                              *)
LEMMA OrderOfMatched ==
  ASSUME Shapes, NEW order \in SetToSeqs(Matched)
  PROVE  /\ Matched \in SUBSET Pids /\ IsFiniteSet(Matched)
         /\ Len(order) = Cardinality(Matched) /\ Len(order) \in Nat
         /\ order \in [1 .. Len(order) -> Matched]
         /\ \A i, j \in 1 .. Len(order) : order[i] = order[j] => i = j
         /\ \A p \in Matched : \E i \in 1 .. Len(order) : order[i] = p
<1> DEFINE n == Cardinality(Matched)
<1>1. Matched \in SUBSET Pids
  BY DEF Matched, Shapes
<1>2. IsFiniteSet(Matched) /\ n \in Nat
  BY <1>1, AttributionAssumption, FS_Subset, FS_CardinalityType
<1>3. /\ order \in [1 .. n -> Matched]
      /\ \A i, j \in 1 .. n : order[i] = order[j] => i = j
  BY DEF SetToSeqs
<1>4. order \in Injection(1 .. n, Matched)
  BY <1>3 DEF Injection, IsInjective
<1>5. Cardinality(1 .. n) = Cardinality(Matched)
  <2>1. 1 \in Int /\ n \in Int
    BY <1>2
  <2> QED
    BY <1>2, <2>1, FS_Interval
<1>6. order \in Surjection(1 .. n, Matched)
  BY <1>2, <1>4, <1>5, FS_Injection
<1>7. \A p \in Matched : \E i \in 1 .. n : order[i] = p
  BY <1>6 DEF Surjection
<1>8. Len(order) = n
  BY <1>2, <1>3
<1> QED
  BY <1>1, <1>2, <1>3, <1>7, <1>8

(* The CPU time of the matched processes, in whatever order.               *)
LEMMA MatchedTime ==
  ASSUME Shapes, NEW order \in SetToSeqs(Matched)
  PROVE  SumFunctionOnSet([i \in DOMAIN order |-> StatOf(order[i])], 1 .. Len(order))
           = Total(snapNs, Matched)
<1> DEFINE T == 1 .. Len(order)
           g == [i \in DOMAIN order |-> StatOf(order[i])]
<1>1. /\ Matched \in SUBSET Pids /\ IsFiniteSet(Matched) /\ order \in [T -> Matched]
      /\ \A i, j \in T : order[i] = order[j] => i = j
      /\ \A p \in Matched : \E i \in T : order[i] = p
      /\ Len(order) \in Nat
  BY OrderOfMatched
<1>2. IsFiniteSet(T)
  <2>1. 1 \in Int /\ Len(order) \in Int
    BY <1>1
  <2> QED
    BY <2>1, FS_Interval
<1>3. \A p \in Matched : snapNs[p] \in Int
  BY <1>1 DEF Shapes
<1>4. \A i \in T : g[i] = snapNs[order[i]]
  BY <1>1 DEF StatOf
<1> HIDE DEF g, T
<1>5. SumFunctionOnSet(g, T) = SumFunctionOnSet(snapNs, Matched)
  BY <1>1, <1>2, <1>3, <1>4, SumRenamed
<1> QED
  BY <1>5 DEF g, T, Total

LEMMA DivTimes ==
  ASSUME NEW m \in Nat \ {0}, NEW x \in Nat
  PROVE  x \div m \in Nat /\ m * (x \div m) <= x
  OBVIOUS

LEMMA CancelFactor ==
  ASSUME NEW m \in Nat \ {0}, NEW s \in Nat, NEW t \in Nat, m * s <= t * m
  PROVE  s <= t
<1> SUFFICES ASSUME s >= t + 1 PROVE FALSE
  OBVIOUS
<1>1. m * s = m * (t + 1) + m * (s - (t + 1))
  OBVIOUS
<1>2. m * (s - (t + 1)) >= 0
  OBVIOUS
<1>3. m * (t + 1) = t * m + m
  OBVIOUS
<1> QED
  BY <1>1, <1>2, <1>3

(* All processes but the last get a proportional part, rounded down: these *)
(* parts never exceed what there is to give.                               *)
LEMMA PartsFit ==
  ASSUME Shapes, NEW order \in SetToSeqs(Matched), NEW t \in Nat,
         NEW T \in SUBSET (1 .. Len(order))
  PROVE  LET part == [j \in DOMAIN order |-> Proportional(order[j], t)]
         IN /\ \A j \in 1 .. Len(order) : part[j] \in Nat /\ part[j] <= t
            /\ SumFunctionOnSet(part, T) \in Nat
            /\ SumFunctionOnSet(part, T) <= t
<1> DEFINE part == [j \in DOMAIN order |-> Proportional(order[j], t)]
           time == [j \in DOMAIN order |-> StatOf(order[j])]
           N == 1 .. Len(order)
           m == Total(snapNs, Matched)
<1>1. /\ Matched \in SUBSET Pids /\ IsFiniteSet(Matched) /\ order \in [N -> Matched]
      /\ Len(order) \in Nat
  BY OrderOfMatched
<1>2. IsFiniteSet(N)
  <2>1. 1 \in Int /\ Len(order) \in Int
    BY <1>1
  <2> QED
    BY <2>1, FS_Interval
<1>3. m \in Nat
  BY <1>1, TotalBounds DEF Shapes
<1>4. SumFunctionOnSet([q \in Pids |-> StatOf(q)], Matched) = m
  <2> DEFINE st == [q \in Pids |-> StatOf(q)]
  <2>1. \A q \in Matched : st[q] = snapNs[q]
    BY <1>1 DEF StatOf
  <2> HIDE DEF st
  <2>2. SumFunctionOnSet(st, Matched) = SumFunctionOnSet(snapNs, Matched)
    BY <1>1, <2>1, SumEqual
  <2> QED
    BY <2>2 DEF st, Total
<1>5. \A j \in N : /\ time[j] \in Nat
                   /\ part[j] = IF m = 0 THEN 0 ELSE (t * time[j]) \div m
  BY <1>1, <1>4 DEF StatOf, Proportional, Shapes
<1>6. SumFunctionOnSet(time, N) = m
  BY MatchedTime
<1> HIDE DEF part, time, m, N
<1>7. \A j \in N : part[j] \in Nat /\ m * part[j] <= t * time[j] /\ (m = 0 => part[j] = 0)
  <2> SUFFICES ASSUME NEW j \in N
               PROVE  part[j] \in Nat /\ m * part[j] <= t * time[j] /\ (m = 0 => part[j] = 0)
    OBVIOUS
  <2>1. t * time[j] \in Nat
    BY <1>5
  <2>2. CASE m = 0
    <3>1. part[j] = 0 /\ 0 * 0 = 0
      BY <1>5, <2>2
    <3> QED
      BY <2>1, <2>2, <3>1
  <2>3. CASE m # 0
    BY <1>3, <1>5, <2>1, <2>3, DivTimes
  <2> QED
    BY <2>2, <2>3
<1>8. SumFunctionOnSet(part, N) \in Nat /\ SumFunctionOnSet(time, N) \in Nat
  BY <1>2, <1>5, <1>7, SumNat
<1>9. SumFunctionOnSet(part, N) <= t
  <2>1. CASE m = 0
    <3>1. SumFunctionOnSet(part, {}) = SumFunctionOnSet(part, N)
      BY <1>2, <1>7, <2>1, SumSupport
    <3> QED
      BY <3>1, SumEmpty
  <2>2. CASE m # 0
    <3>1. m * SumFunctionOnSet(part, N) <= t * SumFunctionOnSet(time, N)
      BY <1>2, <1>3, <1>5, <1>7, SumScaled
    <3> QED
      BY <1>3, <1>6, <1>8, <2>2, <3>1, CancelFactor
  <2> QED
    BY <2>1, <2>2
<1>10. ASSUME NEW U \in SUBSET N
       PROVE  SumFunctionOnSet(part, U) \in Nat /\ SumFunctionOnSet(part, U) <= t
  <2>1. IsFiniteSet(U) /\ \A j \in U : part[j] \in Nat
    BY <1>2, <1>7, FS_Subset
  <2>2. SumFunctionOnSet(part, U) \in Nat
    BY <2>1, SumNat
  <2>3. SumFunctionOnSet(part, U) <= SumFunctionOnSet(part, N)
    BY <1>2, <1>7, SumSubset
  <2> QED
    BY <1>8, <1>9, <2>2, <2>3
<1>11. ASSUME NEW j \in N PROVE part[j] <= t
  <2>1. IsFiniteSet(N \ {j}) /\ N \ {j} \in SUBSET N
    BY <1>2, FS_RemoveElement
  <2>2. SumFunctionOnSet(part, N) = part[j] + SumFunctionOnSet(part, N \ {j})
    BY <1>2, <1>7, SumRemove
  <2> QED
    BY <1>7, <1>9, <1>10, <2>1, <2>2
<1>12. SumFunctionOnSet(part, T) \in Nat /\ SumFunctionOnSet(part, T) <= t
  BY <1>10 DEF N
<1> QED
  BY <1>7, <1>11, <1>12 DEF part, N
(* The last process takes what is left: the parts are natural numbers and  *)
(* add up to the tokens of the window.                                     *)
LEMMA TokensAddUp ==
  ASSUME Shapes, NEW order \in SetToSeqs(Matched), NEW t \in Nat
  PROVE  LET given == [i \in DOMAIN order |-> TokensOf(order, i, t)]
         IN /\ \A i \in 1 .. Len(order) : given[i] \in 0 .. t
            /\ Len(order) > 0 => SumFunctionOnSet(given, 1 .. Len(order)) = t
<1> DEFINE given == [i \in DOMAIN order |-> TokensOf(order, i, t)]
           part == [j \in DOMAIN order |-> Proportional(order[j], t)]
           n == Len(order)
           B == 1 .. n - 1
<1>1. n \in Nat /\ DOMAIN order = 1 .. n
  BY OrderOfMatched
<1>2. B \in SUBSET (1 .. n)
  BY <1>1
<1>3. /\ \A j \in 1 .. n : part[j] \in Nat /\ part[j] <= t
      /\ SumFunctionOnSet(part, B) \in Nat /\ SumFunctionOnSet(part, B) <= t
  <2> HIDE DEF B
  <2> QED
    BY <1>2, PartsFit
<1>4. \A i \in 1 .. n :
        given[i] = IF i < n THEN part[i] ELSE t - SumFunctionOnSet(part, B)
  BY <1>1 DEF TokensOf
<1> HIDE DEF given, part
<1>5. \A i \in 1 .. n : given[i] \in 0 .. t
  BY <1>3, <1>4
<1>6. ASSUME n > 0 PROVE SumFunctionOnSet(given, 1 .. n) = t
  <2>1. /\ 1 .. n = B \cup {n} /\ n \notin B /\ n \in 1 .. n
        /\ \A i \in B : i \in 1 .. n /\ i < n
    BY <1>1, <1>6
  <2>2. IsFiniteSet(B)
    <3>1. 1 \in Int /\ n - 1 \in Int
      BY <1>1
    <3> QED
      BY <3>1, FS_Interval
  <2>3. \A i \in B : given[i] = part[i] /\ given[i] \in Int
    BY <1>3, <1>4, <2>1, SMTT(20)
  <2>4. given[n] = t - SumFunctionOnSet(part, B) /\ given[n] \in Int
    <3>1. given[n] = t - SumFunctionOnSet(part, B)
      BY <1>1, <1>4, <2>1
    <3> QED
      BY <1>3, <3>1
  <2> HIDE DEF B, n
  <2>5. SumFunctionOnSet(given, B) = SumFunctionOnSet(part, B)
    BY <2>2, <2>3, SumEqual
  <2>6. SumFunctionOnSet(given, B \cup {n}) = given[n] + SumFunctionOnSet(given, B)
    <3>1. \A i \in B \cup {n} : given[i] \in Int
      BY <2>3, <2>4
    <3> QED
      BY <2>1, <2>2, <3>1, SumAdd
  <2>7. SumFunctionOnSet(given, 1 .. n) = SumFunctionOnSet(given, B \cup {n})
    BY <2>1
  <2> QED
    BY <1>3, <2>4, <2>5, <2>6, <2>7
<1> QED
  BY <1>5, <1>6 DEF given

------------------------------------------------------------------------------
(* The bounds of the types come from the sums.                             *)
LEMMA BoundsFromSums ==
  ASSUME Shapes, TimeConserved, SnapshotWhole
  PROVE  TypeOK
<1>1. NsOf(windowChan) \in Nat /\ NsOf(hand) \in Nat
  BY NsOfType DEF Shapes
<1>2. Total(cpuNs, Pids) \in Nat /\ \A p \in Pids : cpuNs[p] <= Total(cpuNs, Pids)
  BY TotalBounds DEF Shapes
<1>3. \A p \in Pids : snapNs[p] <= totalNs
  BY TotalBounds DEF Shapes, SnapshotWhole
<1>4. MaxNs \in Nat
  BY AttributionAssumption
<1>5. /\ droppedNs <= MaxNs /\ counted <= MaxNs /\ Total(cpuNs, Pids) <= MaxNs
      /\ totalNs <= MaxNs
  BY <1>1, <1>2, <1>4, SMTT(20) DEF Shapes, TimeConserved, SnapshotWhole
<1>6. cpuNs \in [Pids -> 0 .. MaxNs] /\ snapNs \in [Pids -> 0 .. MaxNs]
  BY <1>2, <1>3, <1>4, <1>5 DEF Shapes
<1>7. events \in Seq(EventWith(0 .. MaxNs))
  <2>1. ASSUME NEW i \in DOMAIN events PROVE events[i] \in EventWith(0 .. MaxNs)
    <3>1. events[i] \in EventWith(Nat)
      BY DEF Shapes
    <3>2. events[i].cpu <= counted /\ events[i].cpu \in Nat
      BY <3>1 DEF SnapshotWhole, EventWith
    <3>3. events[i].cpu \in 0 .. MaxNs
      BY <1>4, <1>5, <3>2 DEF Shapes
    <3> QED
      BY <3>1, <3>3 DEF EventWith
  <2>2. /\ Len(events) \in Nat /\ DOMAIN events = 1 .. Len(events)
        /\ events = [i \in DOMAIN events |-> events[i]]
    BY DEF Shapes
  <2> QED
    BY <2>1, <2>2
<1> QED
  BY <1>4, <1>5, <1>6, <1>7 DEF Shapes, TypeOK, Slice, EventWith

LEMMA AttributionInit == Init => AttributionInv
<1> SUFFICES ASSUME Init PROVE AttributionInv
  OBVIOUS
<1>1. /\ MaxTokens \in Nat /\ MaxNs \in Nat /\ ChanSize \in Nat
      /\ NoTime \in [Pids -> Nat] /\ \A p \in Pids : NoTime[p] = 0
  BY AttributionAssumption DEF NoTime
<1>2. Shapes
  BY <1>1 DEF Init, Shapes
<1>3. NsOf(windowChan) = 0 /\ NsOf(hand) = 0 /\ Total(cpuNs, Pids) = 0
  BY NsOfNone, NoTimeTotal DEF Init
<1>4. TimeConserved
  BY <1>3 DEF Init, TimeConserved
<1>5. SnapshotWhole
  BY NoTimeTotal DEF Init, SnapshotWhole
<1>6. EntriesOnly /\ TargetInSnapshot /\ TokensConserved
  BY <1>1 DEF Init, EntriesOnly, TargetInSnapshot, TokensConserved
<1>7. WithinPackage
  <2>1. DOMAIN [i \in DOMAIN << >> |-> << >>[i].cpu] = {}
    OBVIOUS
  <2>2. CpuGiven = 0
    BY <2>1, SumEmpty DEF Init, CpuGiven, SumFunction
  <2> QED
    BY <2>2 DEF Init, WithinPackage
<1> QED
  BY <1>2, <1>4, <1>5, <1>6, <1>7 DEF AttributionInv
------------------------------------------------------------------------------
(* What only the window's handler changes.                                 *)
LEMMA OthersKeepWindow ==
  ASSUME AttributionInv, UNCHANGED windowVars, UNCHANGED targetPid
  PROVE  SnapshotWhole' /\ TargetInSnapshot' /\ WithinPackage' /\ TokensConserved'
BY DEF AttributionInv, windowVars, SnapshotWhole, TargetInSnapshot, WithinPackage,
       CpuGiven, TokensConserved, TokensGiven

LEMMA ListenKeeps ==
  ASSUME AttributionInv, UNCHANGED targetPid,
         NEW p \in Pids, NEW ns \in Slices, Listen(p, ns)
  PROVE  AttributionInv'
<1> DEFINE slice == [pid |-> p, ns |-> ns]
<1>1. Shapes /\ TimeConserved /\ EntriesOnly
  BY DEF AttributionInv
<1>2. slice \in Slice /\ ns \in Nat /\ slice.ns = ns
  BY AttributionAssumption DEF Slice
<1>0. ChanSize \in Nat /\ MaxNs \in Nat
  BY AttributionAssumption
<1>3. /\ sliced + ns <= MaxNs /\ sliced' = sliced + ns
      /\ UNCHANGED <<hand, known, cpuNs, running, windowVars>>
      /\ \/ /\ Len(windowChan) < ChanSize
            /\ windowChan' = Append(windowChan, slice) /\ droppedNs' = droppedNs
         \/ windowChan' = windowChan /\ droppedNs' = droppedNs + ns
  BY DEF Listen, mapVars
<1>4. SnapshotWhole' /\ TargetInSnapshot' /\ WithinPackage' /\ TokensConserved'
  BY <1>3, OthersKeepWindow
<1> HIDE DEF slice
<1>5. Shapes'
  <2>1. sliced' \in 0 .. MaxNs /\ sliced \in Nat /\ droppedNs' \in Nat
    BY <1>0, <1>1, <1>2, <1>3 DEF Shapes
  <2>2. windowChan' \in Seq(Slice) /\ Len(windowChan') <= ChanSize
    <3>1. windowChan \in Seq(Slice) /\ Len(windowChan) <= ChanSize
      BY <1>1 DEF Shapes
    <3>2. /\ Append(windowChan, slice) \in Seq(Slice)
          /\ Len(Append(windowChan, slice)) = Len(windowChan) + 1
          /\ Len(windowChan) \in Nat
      BY <1>2, <3>1
    <3> QED
      BY <1>0, <1>3, <3>1, <3>2
  <2> QED
    BY <1>1, <1>3, <2>1, <2>2 DEF Shapes, windowVars
<1>6. TimeConserved'
  <2>1. /\ NsOf(windowChan) \in Nat /\ NsOf(hand) \in Nat /\ Total(cpuNs, Pids) \in Nat
        /\ NsOf(Append(windowChan, slice)) = NsOf(windowChan) + ns
    BY <1>1, <1>2, NsOfType, NsOfAppend, TotalBounds DEF Shapes
  <2>2. /\ NsOf(hand)' = NsOf(hand) /\ counted' = counted
        /\ Total(cpuNs, Pids)' = Total(cpuNs, Pids)
    BY <1>3 DEF windowVars
  <2>0. sliced \in Nat /\ droppedNs \in Nat /\ counted \in Nat
    BY <1>0, <1>1 DEF Shapes
  <2>3. CASE windowChan' = Append(windowChan, slice) /\ droppedNs' = droppedNs
    <3>1. NsOf(windowChan)' = NsOf(windowChan) + ns
      BY <2>1, <2>3
    <3> QED
      BY <1>1, <1>2, <1>3, <2>0, <2>1, <2>2, <2>3, <3>1, SMTT(20) DEF TimeConserved
  <2>4. CASE windowChan' = windowChan /\ droppedNs' = droppedNs + ns
    <3>1. NsOf(windowChan)' = NsOf(windowChan)
      BY <2>4
    <3> QED
      BY <1>1, <1>2, <1>3, <2>0, <2>1, <2>2, <2>4, <3>1 DEF TimeConserved
  <2> QED
    BY <1>3, <2>3, <2>4
<1>7. EntriesOnly'
  BY <1>1, <1>3 DEF EntriesOnly
<1> QED
  BY <1>4, <1>5, <1>6, <1>7 DEF AttributionInv

LEMMA ReceiveKeeps ==
  ASSUME AttributionInv, UNCHANGED targetPid, ReceiveSlice
  PROVE  AttributionInv'
<1>1. Shapes /\ TimeConserved /\ EntriesOnly
  BY DEF AttributionInv
<1>2. /\ hand = << >> /\ windowChan # << >>
      /\ hand' = <<Head(windowChan)>> /\ windowChan' = Tail(windowChan)
      /\ UNCHANGED <<sliced, droppedNs, known, cpuNs, running, windowVars>>
  BY DEF ReceiveSlice, mapVars
<1>3. SnapshotWhole' /\ TargetInSnapshot' /\ WithinPackage' /\ TokensConserved'
  BY <1>2, OthersKeepWindow
<1>4. Head(windowChan) \in Slice /\ Tail(windowChan) \in Seq(Slice)
  BY <1>1, <1>2 DEF Shapes
<1>5. Shapes'
  BY <1>1, <1>2, <1>4, AttributionAssumption DEF Shapes, windowVars
<1>6. TimeConserved'
  <2>1. /\ NsOf(windowChan) = Head(windowChan).ns + NsOf(Tail(windowChan))
        /\ NsOf(<<Head(windowChan)>>) = Head(windowChan).ns
        /\ NsOf(hand) = 0 /\ NsOf(Tail(windowChan)) \in Nat /\ Head(windowChan).ns \in Nat
        /\ Total(cpuNs, Pids) \in Nat
    BY <1>1, <1>2, <1>4, NsOfTail, NsOfOne, NsOfNone, NsOfType, SliceTime, TotalBounds
       DEF Shapes
  <2>2. /\ NsOf(hand)' = Head(windowChan).ns /\ NsOf(windowChan)' = NsOf(Tail(windowChan))
        /\ Total(cpuNs, Pids)' = Total(cpuNs, Pids) /\ counted' = counted
    BY <1>2, <2>1 DEF windowVars
  <2> QED
    BY <1>1, <1>2, <2>1, <2>2 DEF Shapes, TimeConserved
<1>7. EntriesOnly'
  BY <1>1, <1>2 DEF EntriesOnly
<1> QED
  BY <1>3, <1>5, <1>6, <1>7 DEF AttributionInv

LEMMA AddKeeps ==
  ASSUME AttributionInv, UNCHANGED targetPid, AddSlice
  PROVE  AttributionInv'
<1> DEFINE e == hand[1]
<1>1. Shapes /\ TimeConserved /\ EntriesOnly
  BY DEF AttributionInv
<1>2. /\ hand # << >> /\ hand' = << >> /\ known' = known \cup {e.pid}
      /\ cpuNs' = [cpuNs EXCEPT ![e.pid] = @ + e.ns]
      /\ UNCHANGED <<windowChan, sliced, droppedNs, running, windowVars>>
  BY DEF AddSlice, listenerVars
<1>3. SnapshotWhole' /\ TargetInSnapshot' /\ WithinPackage' /\ TokensConserved'
  BY <1>2, OthersKeepWindow
<1>4. e \in Slice /\ e.pid \in Pids /\ e.ns \in Nat /\ hand = <<e>>
  <2>1. hand \in Seq(Slice) /\ Len(hand) = 1
    <3>1. hand \in Seq(Slice) /\ Len(hand) <= 1
      BY <1>1 DEF Shapes
    <3>2. Len(hand) \in Nat /\ Len(hand) # 0
      BY <1>2, <3>1
    <3>3. \A k \in Nat : k <= 1 /\ k # 0 => k = 1
      OBVIOUS
    <3> QED
      BY <3>1, <3>2, <3>3
  <2>2. e \in Slice /\ hand = <<e>>
    BY <2>1
  <2> QED
    BY <2>2, SliceTime
<1> HIDE DEF e
<1>5. Shapes'
  <2>0. cpuNs \in [Pids -> Nat] /\ known \in SUBSET Pids
    BY <1>1 DEF Shapes
  <2>1. cpuNs' \in [Pids -> Nat] /\ known' \in SUBSET Pids
    <3>1. cpuNs[e.pid] + e.ns \in Nat
      BY <1>4, <2>0
    <3> QED
      BY <1>2, <1>4, <2>0, <3>1
  <2>2. hand' \in Seq(Slice) /\ Len(hand') <= 1
    BY <1>2
  <2> QED
    BY <1>1, <1>2, <2>1, <2>2 DEF Shapes, windowVars
<1>6. TimeConserved'
  <2>1. /\ NsOf(hand) = e.ns /\ NsOf(<< >>) = 0 /\ NsOf(windowChan) \in Nat
        /\ Total(cpuNs, Pids) \in Nat
        /\ Total([cpuNs EXCEPT ![e.pid] = @ + e.ns], Pids) = Total(cpuNs, Pids) + e.ns
    BY <1>1, <1>4, NsOfOne, NsOfNone, NsOfType, TotalBounds, TotalAdds DEF Shapes
  <2>2. /\ NsOf(hand)' = 0 /\ NsOf(windowChan)' = NsOf(windowChan)
        /\ Total(cpuNs, Pids)' = Total(cpuNs, Pids) + e.ns /\ counted' = counted
    BY <1>2, <2>1 DEF windowVars
  <2> QED
    BY <1>1, <1>2, <1>4, <2>1, <2>2 DEF Shapes, TimeConserved
<1>7. EntriesOnly'
  BY <1>1, <1>2, <1>4 DEF Shapes, EntriesOnly
<1> QED
  BY <1>3, <1>5, <1>6, <1>7 DEF AttributionInv

LEMMA GpuChangesKeeps ==
  ASSUME AttributionInv, UNCHANGED targetPid,
         NEW g \in Gpus, NEW P \in SUBSET Pids, GpuChanges(g, P)
  PROVE  AttributionInv'
<1>1. /\ running' = [running EXCEPT ![g] = P]
      /\ UNCHANGED <<windowChan, sliced, droppedNs, hand, known, cpuNs, windowVars>>
  BY DEF GpuChanges, listenerVars, mapVars
<1>2. SnapshotWhole' /\ TargetInSnapshot' /\ WithinPackage' /\ TokensConserved'
  BY <1>1, OthersKeepWindow
<1>3. Shapes'
  BY <1>1 DEF AttributionInv, Shapes, windowVars
<1>4. TimeConserved' /\ EntriesOnly'
  BY <1>1 DEF AttributionInv, TimeConserved, EntriesOnly, windowVars
<1> QED
  BY <1>2, <1>3, <1>4 DEF AttributionInv

(* The last GPU that lists a process is one of the GPUs.                   *)
LEMMA LastGpu ==
  ASSUME NEW S \in SUBSET Gpus, S # {}
  PROVE  Max(S) \in Gpus
<1> DEFINE D == {GpuCount - g : g \in S}
<1>1. GpuCount \in Nat
  BY AttributionAssumption
<1>2. D \subseteq Nat /\ D # {}
  <2>1. \A g \in S : GpuCount - g \in Nat
    BY <1>1 DEF Gpus
  <2> QED
    BY <2>1
<1>3. PICK d \in D : \A x \in D : d <= x
  BY <1>2, LeastElement
<1>4. PICK g \in S : d = GpuCount - g
  BY <1>3
<1>5. \A x \in S : g >= x
  BY <1>1, <1>3, <1>4 DEF Gpus
<1>6. Max(S) \in S
  BY <1>5 DEF Max
<1> QED
  BY <1>6

LEMMA ReadGpusKeeps ==
  ASSUME AttributionInv, UNCHANGED targetPid, ReadGpus
  PROVE  AttributionInv'
<1>1. /\ pc = "wait" /\ pc' = "snapshot"
      /\ gpuMap' = [p \in Pids |-> IF GpusOf(p) = {} THEN NoGpu ELSE Max(GpusOf(p))]
      /\ UNCHANGED <<windowChan, sliced, droppedNs, hand, known, cpuNs, running, snapPids,
                     snapNs, totalNs, tokens, events, counted>>
  BY DEF ReadGpus, listenerVars, mapVars
<1>2. gpuMap' \in [Pids -> Gpus \cup {NoGpu}]
  <2>1. \A p \in Pids : GpusOf(p) \in SUBSET Gpus
    BY DEF GpusOf
  <2> QED
    BY <1>1, <2>1, LastGpu
<1>3. Shapes'
  BY <1>1, <1>2 DEF AttributionInv, Shapes
<1>4. TimeConserved' /\ EntriesOnly'
  BY <1>1 DEF AttributionInv, TimeConserved, EntriesOnly
<1>5. SnapshotWhole' /\ TargetInSnapshot' /\ WithinPackage' /\ TokensConserved'
  BY <1>1 DEF AttributionInv, SnapshotWhole, TargetInSnapshot, WithinPackage,
              CpuGiven, TokensConserved, TokensGiven
<1> QED
  BY <1>3, <1>4, <1>5 DEF AttributionInv

(* The time leaves the map and is counted, all of it: an entry that is not *)
(* there has none.                                                         *)
LEMMA SnapshotKeeps ==
  ASSUME AttributionInv, UNCHANGED targetPid, Snapshot
  PROVE  AttributionInv'
<1>1. Shapes /\ TimeConserved /\ EntriesOnly /\ SnapshotWhole /\ TokensConserved
  BY DEF AttributionInv
<1>2. /\ pc' = "attribute" /\ snapPids' = known \cup ({targetPid} \ {0})
      /\ snapNs' = cpuNs /\ totalNs' = Total(cpuNs, known)
      /\ counted' = counted + totalNs' /\ cpuNs' = NoTime
      /\ UNCHANGED <<windowChan, sliced, droppedNs, hand, known, running, gpuMap,
                     tokens, events>>
  BY DEF Snapshot, listenerVars
<1>3. Total(cpuNs, known) = Total(cpuNs, Pids) /\ Total(cpuNs, Pids) \in Nat
  <2>1. /\ IsFiniteSet(Pids) /\ known \in SUBSET Pids
        /\ \A p \in Pids : cpuNs[p] \in Nat
        /\ \A p \in Pids \ known : cpuNs[p] = 0
    BY <1>1, AttributionAssumption DEF Shapes, EntriesOnly
  <2>2. SumFunctionOnSet(cpuNs, known) = SumFunctionOnSet(cpuNs, Pids)
    BY <2>1, SumSupport
  <2> QED
    BY <1>1, <2>2, TotalBounds DEF Total, Shapes
<1>4. NoTime \in [Pids -> Nat] /\ \A p \in Pids : NoTime[p] = 0
  BY DEF NoTime
<1>5. snapPids' \in SUBSET Pids /\ (targetPid # 0 => targetPid \in snapPids')
  BY <1>1, <1>2, AttributionAssumption DEF Shapes
<1>6. Shapes'
  BY <1>1, <1>2, <1>3, <1>4, <1>5 DEF Shapes
<1>7. TimeConserved'
  <2>1. NsOf(windowChan) \in Nat /\ NsOf(hand) \in Nat
    BY <1>1, NsOfType DEF Shapes
  <2>2. /\ NsOf(windowChan)' = NsOf(windowChan) /\ NsOf(hand)' = NsOf(hand)
        /\ Total(cpuNs, Pids)' = 0
    BY <1>2, NoTimeTotal
  <2> QED
    BY <1>1, <1>2, <1>3, <2>1, <2>2 DEF Shapes, TimeConserved
<1>8. SnapshotWhole'
  <2>1. \A i \in DOMAIN events : events[i].cpu \in Nat /\ events[i].cpu <= counted
    <3>1. \A i \in DOMAIN events : events[i] \in EventWith(Nat)
      BY <1>1 DEF Shapes
    <3>2. \A i \in DOMAIN events : events[i].cpu \in Nat
      BY <3>1 DEF EventWith
    <3> QED
      BY <1>1, <3>2 DEF SnapshotWhole
  <2>2. totalNs' = Total(snapNs, Pids)' /\ totalNs' <= counted' /\ counted <= counted'
    BY <1>1, <1>2, <1>3 DEF Shapes
  <2> QED
    BY <1>1, <1>2, <1>3, <2>1, <2>2 DEF Shapes, SnapshotWhole
<1>9. EntriesOnly' /\ TargetInSnapshot' /\ WithinPackage' /\ TokensConserved'
  BY <1>1, <1>2, <1>4, <1>5
     DEF EntriesOnly, TargetInSnapshot, WithinPackage, TokensConserved, TokensGiven
<1> QED
  BY <1>6, <1>7, <1>8, <1>9 DEF AttributionInv
(* The split of a window.                                                  *)
LEMMA AttributeKeeps ==
  ASSUME AttributionInv, UNCHANGED targetPid, NEW t \in 0 .. MaxTokens, Attribute(t)
  PROVE  /\ AttributionInv'
         /\ targetPid # 0 =>
              Len(events') = 1 /\ events'[1].pid = targetPid /\ events'[1].tokens = tokens'
<1>1. Shapes /\ TimeConserved /\ EntriesOnly /\ SnapshotWhole /\ TargetInSnapshot
  BY DEF AttributionInv
<1>2. /\ pc = "attribute" /\ pc' = "wait" /\ tokens' = t
      /\ UNCHANGED <<windowChan, sliced, droppedNs, hand, known, cpuNs, running, gpuMap,
                     snapPids, snapNs, totalNs, counted>>
  BY DEF Attribute, listenerVars, mapVars
<1>3. PICK order \in SetToSeqs(Matched) :
        events' = [i \in DOMAIN order |->
                     [pid |-> order[i], cpu |-> StatOf(order[i]),
                      gpu |-> gpuMap[order[i]], tokens |-> TokensOf(order, i, t)]]
  BY DEF Attribute
<1> DEFINE n == Len(order)
           N == 1 .. n
           given == [i \in DOMAIN order |-> TokensOf(order, i, t)]
           time == [i \in DOMAIN order |-> StatOf(order[i])]
<1>4. /\ Matched \in SUBSET Pids /\ n \in Nat /\ order \in [N -> Matched]
      /\ DOMAIN order = N /\ IsFiniteSet(N)
  <2>1. Matched \in SUBSET Pids /\ n \in Nat /\ order \in [N -> Matched]
    BY <1>1, OrderOfMatched
  <2>2. 1 \in Int /\ n \in Int
    BY <2>1
  <2> QED
    BY <2>1, <2>2, FS_Interval
<1>5. t \in Nat /\ MaxTokens \in Nat /\ t <= MaxTokens
  BY AttributionAssumption
<1>6. /\ \A i \in N : given[i] \in 0 .. t
      /\ n > 0 => SumFunctionOnSet(given, N) = t
  BY <1>1, <1>5, TokensAddUp
<1>7. /\ DOMAIN events' = N
      /\ \A i \in N : /\ events'[i].pid = order[i] /\ events'[i].cpu = time[i]
                      /\ events'[i].tokens = given[i]
                      /\ events'[i] \in [pid : {order[i]}, cpu : {time[i]},
                                         gpu : {gpuMap[order[i]]}, tokens : {given[i]}]
  BY <1>3, <1>4
<1>8. \A i \in N : time[i] = snapNs[order[i]] /\ time[i] \in Nat /\ time[i] <= totalNs
  <2>1. \A p \in Pids : snapNs[p] \in Nat /\ snapNs[p] <= totalNs
    BY <1>1, TotalBounds DEF Shapes, SnapshotWhole
  <2> QED
    BY <1>4, <2>1 DEF StatOf
<1>9. CpuGiven' = SumFunctionOnSet(time, N) /\ TokensGiven' = SumFunctionOnSet(given, N)
  <2> DEFINE c == [i \in DOMAIN events' |-> events'[i].cpu]
             k == [i \in DOMAIN events' |-> events'[i].tokens]
  <2>1. \A i \in N : c[i] = time[i] /\ k[i] = given[i]
    BY <1>7
  <2>2. CpuGiven' = SumFunctionOnSet(c, N) /\ TokensGiven' = SumFunctionOnSet(k, N)
    BY <1>7 DEF CpuGiven, TokensGiven, SumFunction
  <2> HIDE DEF c, k, time, given, N
  <2>3. /\ SumFunctionOnSet(c, N) = SumFunctionOnSet(time, N)
        /\ SumFunctionOnSet(k, N) = SumFunctionOnSet(given, N)
    BY <1>4, <2>1, SumEqual
  <2> QED
    BY <2>2, <2>3
<1>10. CpuGiven' <= totalNs
  <2>1. SumFunctionOnSet(time, N) = Total(snapNs, Matched)
    BY <1>1, MatchedTime
  <2>2. Total(snapNs, Matched) <= Total(snapNs, Pids)
    BY <1>1, <1>4, TotalBounds DEF Shapes
  <2> QED
    BY <1>1, <1>9, <2>1, <2>2 DEF SnapshotWhole
<1>11. Shapes'
  <2>1. \A i \in N : events'[i] \in EventWith(Nat)
    <3> SUFFICES ASSUME NEW i \in N PROVE events'[i] \in EventWith(Nat)
      OBVIOUS
    <3>1. order[i] \in Pids /\ gpuMap[order[i]] \in Gpus \cup {NoGpu}
      BY <1>1, <1>4 DEF Shapes
    <3> HIDE DEF given, time
    <3>2. given[i] \in 0 .. MaxTokens /\ time[i] \in Nat
      BY <1>5, <1>6, <1>8
    <3> QED
      BY <1>7, <3>1, <3>2 DEF EventWith
  <2>2. events' = [i \in N |-> events'[i]]
    BY <1>3, <1>4
  <2>3. events' \in Seq(EventWith(Nat))
    BY <1>4, <2>1, <2>2
  <2> QED
    BY <1>1, <1>2, <2>3 DEF Shapes
<1>12. SnapshotWhole'
  <2> HIDE DEF given, time, n, N
  <2>1. totalNs \in Nat /\ counted \in Nat /\ totalNs <= counted
    BY <1>1 DEF SnapshotWhole, Shapes
  <2>2. \A i \in N : events'[i].cpu <= counted
    BY <1>7, <1>8, <2>1
  <2> QED
    BY <1>1, <1>2, <1>7, <2>2 DEF SnapshotWhole
<1>13. TokensConserved'
  <2>1. events' # << >> => n > 0
    BY <1>4, <1>7
  <2> QED
    <3> HIDE DEF given, time, n, N
    <3>1. \A i \in DOMAIN events' : events'[i].tokens >= 0
      BY <1>5, <1>6, <1>7
    <3>2. n > 0 => TokensGiven' = tokens'
      BY <1>2, <1>6, <1>9
    <3> QED
      BY <2>1, <3>1, <3>2 DEF TokensConserved
<1>14. TimeConserved' /\ EntriesOnly' /\ TargetInSnapshot' /\ WithinPackage'
  BY <1>1, <1>2, <1>10 DEF TimeConserved, EntriesOnly, TargetInSnapshot, WithinPackage
<1>15. ASSUME targetPid # 0
       PROVE  Len(events') = 1 /\ events'[1].pid = targetPid /\ events'[1].tokens = tokens'
  <2>1. Matched = {targetPid}
    BY <1>1, <1>2, <1>15 DEF TargetInSnapshot, Matched
  <2>2. n = 1 /\ N = {1}
    <3>1. n = Cardinality({targetPid})
      BY <1>1, <2>1, OrderOfMatched
    <3>2. Cardinality({targetPid}) = 1
      BY FS_Singleton
    <3>3. 1 .. 1 = {1}
      OBVIOUS
    <3> QED
      BY <3>1, <3>2, <3>3
  <2>3. order[1] = targetPid
    BY <1>4, <2>1, <2>2
  <2>4. given[1] = t
    <3>1. SumFunctionOnSet(given, {1}) = given[1] + SumFunctionOnSet(given, {1} \ {1})
      <4>1. IsFiniteSet({1}) /\ \A i \in {1} : given[i] \in Int
        BY <1>4, <1>6, <2>2
      <4> HIDE DEF given
      <4> QED
        BY <4>1, SumRemove
    <3>2. {1} \ {1} = {}
      OBVIOUS
    <3> HIDE DEF given, n, N
    <3>3. given[1] \in Int /\ SumFunctionOnSet(given, {1}) = t
      BY <1>5, <1>6, <2>2
    <3>4. SumFunctionOnSet(given, {1} \ {1}) = 0
      BY <3>2, SumEmpty
    <3> QED
      BY <3>1, <3>3, <3>4
  <2>5. Len(events') = 1
    BY <1>3, <1>4, <2>2
  <2> QED
    BY <1>2, <1>7, <2>2, <2>3, <2>4, <2>5
<1> QED
  BY <1>11, <1>12, <1>13, <1>14, <1>15 DEF AttributionInv

LEMMA AttributionStep == AttributionInv /\ [Next]_vars => AttributionInv'
<1> SUFFICES ASSUME AttributionInv, [Next]_vars PROVE AttributionInv'
  OBVIOUS
<1>1. CASE UNCHANGED vars
  <2>1. UNCHANGED windowVars /\ UNCHANGED targetPid
        /\ UNCHANGED <<windowChan, sliced, droppedNs, hand, known, cpuNs, running>>
    BY <1>1 DEF vars, listenerVars, mapVars
  <2>2. SnapshotWhole' /\ TargetInSnapshot' /\ WithinPackage' /\ TokensConserved'
    BY <2>1, OthersKeepWindow
  <2>3. Shapes' /\ TimeConserved' /\ EntriesOnly'
    BY <2>1 DEF AttributionInv, Shapes, TimeConserved, EntriesOnly, windowVars
  <2> QED
    BY <2>2, <2>3 DEF AttributionInv
<1>2. CASE Next
  BY <1>2, ListenKeeps, ReceiveKeeps, AddKeeps, GpuChangesKeeps, ReadGpusKeeps,
     SnapshotKeeps, AttributeKeeps DEF Next, CollectAndEnqueue
<1> QED
  BY <1>1, <1>2

(* CPU time is neither lost nor counted twice between the listener, the    *)
(* goroutine that adds it up and the windows (main.go:97-108, 209-236).    *)
THEOREM CpuTimeConserved == Spec => []TimeConserved
<1>1. AttributionInv => TimeConserved
  BY DEF AttributionInv
<1> QED
  BY <1>1, AttributionInit, AttributionStep, PTL DEF Spec

(* Every window is well formed and hands out at most the whole of what the *)
(* package and the memory drew (main.go:209-236, 297-301).                 *)
THEOREM WindowsWithinPackage == Spec => []WindowInv
<1>1. AttributionInv => WindowInv
  BY BoundsFromSums DEF AttributionInv, WindowInv
<1> QED
  BY <1>1, AttributionInit, AttributionStep, PTL DEF Spec

(* Whatever the order of Go's map iteration and the rounding, the events   *)
(* of a window carry exactly its tokens (main.go:303-312).                 *)
THEOREM WindowTokensConserved == Spec => []TokensConserved
<1>1. AttributionInv => TokensConserved
  BY DEF AttributionInv
<1> QED
  BY <1>1, AttributionInit, AttributionStep, PTL DEF Spec

(* A target is reported in every window, alone and with all of its tokens, *)
(* whether or not it ran (main.go:217-221, 267-271).                       *)
THEOREM TargetAlwaysReported == Spec => TargetReported
<1>1. ASSUME AttributionInv, [Next]_vars
      PROVE  [pc = "attribute" /\ pc' = "wait" /\ targetPid # 0 =>
                Len(events') = 1 /\ events'[1].pid = targetPid
                  /\ events'[1].tokens = tokens']_vars
  <2>1. CASE Next /\ pc = "attribute" /\ pc' = "wait"
    <3>1. PICK t \in 0 .. MaxTokens : Attribute(t) /\ UNCHANGED targetPid
      BY <2>1 DEF Next, CollectAndEnqueue, Listen, ReceiveSlice, AddSlice, GpuChanges,
                  windowVars, ReadGpus, Snapshot
    <3> QED
      BY <1>1, <3>1, AttributeKeeps
  <2> QED
    BY <1>1, <2>1
<1> QED
  BY <1>1, AttributionInit, AttributionStep, PTL DEF Spec, TargetReported

==============================================================================
