-------------------------- MODULE ExperimentProofs ---------------------------
(***************************************************************************)
(* What the protocol of the experiments guarantees for every number of     *)
(* runs, whatever the sensors read, however large the messages and however *)
(* many workers die.                                                       *)
(***************************************************************************)
EXTENDS Experiment, TLAPS

Last == Len(Conditions(exp))

(* What can be recorded of a condition.                                    *)
Names == {Conditions(e)[k] : e \in Experiments, k \in 1 .. 6}
Entries == [cond : Names, from : Names, grade : {"pass", "zero", "fail"}]

(* The control state alone.                                                *)
Control ==
  /\ exp \in Experiments
  /\ worker \in {"none", "running", "flushing", "gone"}
  /\ units \in Nat /\ piped \in Nat /\ faults \in Nat
  /\ results \in Seq(Entries)

(* A worker lives only while the parent joins it.                          *)
Joined == pc # "join" => worker \in {"none", "gone"}

(* How many results there are, where the parent is.                        *)
Progress ==
  /\ pc \in {"pre", "spawn", "join", "get", "recv"} => Len(results) < Last
  /\ pc \in {"cooldown", "post", "report", "done"} => Len(results) = Last
  /\ artifact # "none" => Len(results) = Last
  /\ \A k \in 1 .. Len(results) :
       results[k].cond = Conditions(exp)[k] /\ results[k].from = results[k].cond

(* What is on its way is from the current worker, and it is an error, or   *)
(* nothing, only after a fault.                                            *)
InFlight ==
  /\ worker \in {"none", "running"} => units = 0 /\ piped = 0
  /\ worker = "flushing" => units > 0 \/ piped > 0
  /\ pc \in {"join", "get"} /\ (units > 0 \/ piped > 0) =>
       /\ message.cond = Current
       /\ message.status # "ok" => faults > 0
  /\ pc \in {"join", "get"} /\ worker = "gone" /\ piped = 0 => faults > 0
  /\ pc = "get" => worker = "gone"

ExperimentInv == Control /\ Joined /\ Progress /\ InFlight /\ RaisedHasCause

BeforeCooldown == {"pre", "spawn", "join", "get", "recv"}

(* The count of the cooldown loop is that of the good readings at the end  *)
(* of the history, and the loop is only left for one of its two reasons.   *)
CoolInv ==
  /\ ok \in Nat /\ reading \in Nat
  /\ DOMAIN recent = 1 .. reading
  /\ ok <= reading
  /\ \A k \in 0 .. ok - 1 : recent[reading - k]
  /\ pc \in BeforeCooldown => reading = 0
  /\ exp # "E0" /\ pc \in {"post", "report"} => ok >= Needed \/ reading = MaxReadings

CoolingInv == ExperimentInv /\ recent \in Seq(BOOLEAN) /\ CoolInv

LEMMA ConditionsAre == \A e \in Experiments : Len(Conditions(e)) \in 1 .. 6
<1>0. Len(Series) = 1
  BY DEF Series
<1>1. Len(PromptLengths) = 3
  BY DEF PromptLengths
<1>2. Len(Modes) = 3
  BY DEF Modes
<1>3. Len(SweepConditions) = 6
  BY DEF SweepConditions
<1>4. Len(Profiles) = 4
  BY DEF Profiles
<1> QED
  BY <1>0, <1>1, <1>2, <1>3, <1>4 DEF Experiments, Conditions

(* Whatever its runs came to, a worker's message is its condition's.       *)
LEMMA WorkIsOwn ==
  ASSUME exp \in Experiments, NEW runs
  PROVE  Work(runs).cond = Current /\ Work(runs).status = "ok"
<1>0. CASE exp = "E0"
  BY <1>0 DEF Work, WorkerE0, Message
<1>1. CASE exp = "E1"
  BY <1>1 DEF Work, WorkerE1, Message
<1>2. CASE exp = "E2"
  BY <1>2 DEF Work, WorkerE2, Message
<1>3. CASE exp = "E3"
  BY <1>3 DEF Work, WorkerE3, Message
<1>4. CASE exp = "E4"
  BY <1>4 DEF Work, WorkerE4, Message
<1> QED
  BY <1>0, <1>1, <1>2, <1>3, <1>4 DEF Experiments

LEMMA GradesAre ==
  ASSUME exp \in Experiments, NEW m
  PROVE  GradeOf(m) \in {"pass", "zero", "fail"}
<1>1. \A passed, nets : Grade(passed, nets) \in {"pass", "zero", "fail"}
  BY DEF Grade
<1> QED
  BY <1>1 DEF Experiments, GradeOf, GradeE0, GradeE1, GradeE2, GradeE3, GradeE4

LEMMA ExperimentInit == Init => ExperimentInv
<1> SUFFICES ASSUME Init PROVE ExperimentInv
  OBVIOUS
<1>1. Len(Conditions(exp)) \in 1 .. 6
  BY ConditionsAre DEF Init
<1> QED
  BY <1>1 DEF Init, ExperimentInv, Control, Joined, Progress, InFlight,
              RaisedHasCause, Last
(* A condition that is still to be recorded has a name.                    *)
LEMMA CurrentIsNamed ==
  ASSUME Control, Len(results) < Last
  PROVE  Current \in Names /\ Len(results) + 1 \in 1 .. Last
<1>1. Last \in 1 .. 6 /\ Len(results) \in Nat
  BY ConditionsAre DEF Control, Last
<1>2. Len(results) + 1 \in 1 .. 6
  BY <1>1
<1> QED
  BY <1>1, <1>2 DEF Control, Current, Names

(* Recording an entry of the current condition from its own worker.        *)
LEMMA RecordKeeps ==
  ASSUME ExperimentInv, pc = "get", NEW grade \in {"pass", "zero", "fail"},
         Record(Entry(Current, grade)), UNCHANGED <<exp, rapl, nvml, worker, artifact, faults>>
  PROVE  ExperimentInv'
<1> DEFINE entry == Entry(Current, grade)
<1>1. Last \in 1 .. 6 /\ Len(results) \in Nat /\ Len(results) < Last /\ Last' = Last
  BY ConditionsAre DEF ExperimentInv, Control, Progress, Last
<1>2. /\ entry \in Entries /\ entry.cond = Conditions(exp)[Len(results) + 1]
      /\ entry.from = entry.cond
  BY <1>1, CurrentIsNamed DEF ExperimentInv, Entry, Entries, Current
<1>3. results' = Append(results, entry)
  BY DEF Record
<1> HIDE DEF entry
<1>4. /\ results' \in Seq(Entries) /\ Len(results') = Len(results) + 1
      /\ \A k \in 1 .. Len(results) : results'[k] = results[k]
      /\ results'[Len(results) + 1] = entry
  BY <1>2, <1>3 DEF ExperimentInv, Control
<1>5. Control'
  BY <1>4 DEF Record, ExperimentInv, Control
<1>6. Joined' /\ RaisedHasCause'
  BY DEF Record, ExperimentInv, Joined, InFlight, RaisedHasCause
<1>7. \A k \in 1 .. Len(results') :
        results'[k].cond = Conditions(exp)[k] /\ results'[k].from = results'[k].cond
  BY <1>1, <1>2, <1>4 DEF ExperimentInv, Progress
<1>8. Progress'
  BY <1>1, <1>4, <1>7 DEF Record, ExperimentInv, Progress, Last
<1>9. InFlight'
  BY DEF Record, ExperimentInv, InFlight
<1> QED
  BY <1>5, <1>6, <1>8, <1>9 DEF ExperimentInv

LEMMA ExperimentStep == ExperimentInv /\ [Next]_vars => ExperimentInv'
<1> SUFFICES ASSUME ExperimentInv, [Next]_vars PROVE ExperimentInv'
  OBVIOUS
<1> USE DEF ExperimentInv, fixed, queueVars, coolVars
<1>0. Last \in 1 .. 6 /\ Len(results) \in Nat
  BY ConditionsAre DEF Control, Last
<1>1. ASSUME NEW w \in Baseline, MeasurePre(w) PROVE ExperimentInv'
  BY <1>0, <1>1 DEF MeasurePre, Control, Joined, Progress, InFlight, RaisedHasCause,
                    Last, Current
<1>2. ASSUME NEW w \in Baseline, MeasurePost(w) PROVE ExperimentInv'
  BY <1>0, <1>2 DEF MeasurePost, Control, Joined, Progress, InFlight, RaisedHasCause,
                    Last, Current
<1>3. CASE Spawn
  BY <1>0, <1>3 DEF Spawn, Control, Joined, Progress, InFlight, RaisedHasCause,
                    Last, Current
<1>4. CASE Join
  BY <1>0, <1>4 DEF Join, Control, Joined, Progress, InFlight, RaisedHasCause,
                    Last, Current
<1>5. CASE Get
  <2>1. CASE piped = 0 \/ (~(units > 0) /\ message.status # "ok")
    <3>1. faults > 0
      BY <1>5, <2>1 DEF Get, InFlight, Control
    <3> QED
      BY <1>0, <1>5, <2>1, <3>1 DEF Get, GiveUp, Control, Joined, Progress, InFlight,
                                    RaisedHasCause, Last, Current
  <2>2. CASE piped # 0 /\ units > 0
    BY <1>0, <1>5, <2>2 DEF Get, GiveUp, Control, Joined, Progress, InFlight,
                            RaisedHasCause, Last, Current
  <2>3. CASE piped # 0 /\ ~(units > 0) /\ message.status = "ok"
    <3>1. message.cond = Current
      BY <1>5, <2>3 DEF Get, InFlight, Control
    <3>2. GradeOf(message) \in {"pass", "zero", "fail"}
      BY GradesAre DEF Control
    <3>3. pc = "get" /\ UNCHANGED <<exp, rapl, nvml, worker, artifact, faults>>
      BY <1>5 DEF Get
    <3>4. Record(Entry(Current, GradeOf(message)))
      BY <1>5, <2>3, <3>1 DEF Get
    <3> QED
      BY <3>2, <3>3, <3>4, RecordKeeps
  <2> QED
    BY <2>1, <2>2, <2>3
<1>6. ASSUME NEW w, CoolDown(w) PROVE ExperimentInv'
  BY <1>0, <1>6 DEF CoolDown, Control, Joined, Progress, InFlight, RaisedHasCause,
                    Last, Current
<1>7. CASE Report
  <2>1. pc' = "raised" => exp \in {"E0", "E2"} /\ results[1].grade = "zero"
    BY <1>7 DEF Report, DividesByZero
  <2> QED
    BY <1>0, <1>7, <2>1 DEF Report, Control, Joined, Progress, InFlight, RaisedHasCause,
                            Last, Current
<1>8. ASSUME NEW runs, NEW size \in Sizes, Send(runs, size) PROVE ExperimentInv'
  <2>1. message'.cond = Current' /\ message'.status = "ok"
    BY <1>8, WorkIsOwn DEF Send, Control, Current
  <2>2. size \in Nat \ {0}
    BY ExperimentAssumption DEF Sizes
  <2> QED
    BY <1>0, <1>8, <2>1, <2>2 DEF Send, Control, Joined, Progress, InFlight,
                                  RaisedHasCause, Last
<1>9. CASE Fail
  <2>1. message'.cond = Current' /\ units' = 1 /\ faults' = faults + 1
    BY <1>9 DEF Fail, Current
  <2> QED
    BY <1>0, <1>9, <2>1 DEF Fail, Control, Joined, Progress, InFlight,
                            RaisedHasCause, Last
<1>10. CASE Feed
  BY <1>0, <1>10 DEF Feed, Control, Joined, Progress, InFlight, RaisedHasCause,
                     Last, Current
<1>11. CASE Exit
  BY <1>0, <1>11 DEF Exit, Control, Joined, Progress, InFlight, RaisedHasCause,
                     Last, Current
<1>12. CASE Killed
  BY <1>0, <1>12 DEF Killed, Control, Joined, Progress, InFlight, RaisedHasCause,
                     Last, Current
<1>14. CASE SeriesFails
  BY <1>0, <1>14 DEF SeriesFails, Control, Joined, Progress, InFlight, RaisedHasCause,
                     Last, Current
<1>15. ASSUME NEW runs, RunSeries(runs) PROVE ExperimentInv'
  <2> DEFINE entry == Entry(Current, GradeOf(Work(runs)))
  <2>1. results = << >> /\ Last = 1
    BY <1>15, <1>0 DEF RunSeries, Control, Progress, Last, Conditions, Series
  <2>2. entry \in Entries /\ entry.cond = Conditions(exp)[1] /\ entry.from = entry.cond
    BY <1>15, <2>1, CurrentIsNamed, GradesAre
       DEF RunSeries, Entry, Entries, Control, Current
  <2> HIDE DEF entry
  <2>3. results' = << entry >> /\ pc' = "post"
    BY <1>15 DEF RunSeries, entry
  <2>4. results' \in Seq(Entries) /\ Len(results') = 1 /\ results'[1] = entry
    BY <2>2, <2>3
  <2> QED
    BY <1>0, <1>15, <2>1, <2>2, <2>3, <2>4
       DEF RunSeries, Control, Joined, Progress, InFlight, RaisedHasCause, Last
<1>13. CASE UNCHANGED vars
  BY <1>0, <1>13 DEF vars, Control, Joined, Progress, InFlight, RaisedHasCause,
                     Last, Current
<1> QED
  BY <1>1, <1>2, <1>3, <1>4, <1>5, <1>6, <1>7, <1>8, <1>9, <1>10, <1>11, <1>12, <1>13,
     <1>14, <1>15
     DEF Next, Parent, Worker

(* Whenever the parent takes an idle power, before, between or after the   *)
(* conditions, no worker is alive to hold the GPU out of its idle state    *)
(* (e2_iso_accuracy_collector.py:176).                                     *)
THEOREM NoWorkerWhileWatching == Spec => []IdleWhenWatched
<1>1. ExperimentInv => IdleWhenWatched
  BY DEF ExperimentInv, Joined, IdleWhenWatched, Watching
<1> QED
  BY <1>1, ExperimentInit, ExperimentStep, PTL DEF Spec

(* Every result is what the worker of that condition sent, and an artifact *)
(* has one of every condition, whatever workers fail or die and whatever   *)
(* of their messages is left in the pipe                                   *)
(* (e2_iso_accuracy_collector.py:231-238).                                 *)
THEOREM NoStaleResults == Spec => []ResultsAreOwn
<1>1. ExperimentInv => ResultsAreOwn
  BY ConditionsAre DEF ExperimentInv, Control, Progress, ResultsAreOwn, Last
<1> QED
  BY <1>1, ExperimentInit, ExperimentStep, PTL DEF Spec

(* No execution is given up without a missing sensor, a fault of a worker  *)
(* or a reference without energy: the queue is never found empty, and its  *)
(* message never an error, after a worker that went well                   *)
(* (e1_ensemble_collector.py:292-297).                                     *)
THEOREM NeverRaisedInVain == Spec => []RaisedHasCause
<1>1. ExperimentInv => RaisedHasCause
  BY DEF ExperimentInv
<1> QED
  BY <1>1, ExperimentInit, ExperimentStep, PTL DEF Spec
LEMMA CoolInit == Init => CoolingInv
<1> SUFFICES ASSUME Init PROVE CoolingInv
  OBVIOUS
<1> QED
  BY ExperimentInit DEF Init, CoolingInv, CoolInv, BeforeCooldown

(* Whether a reading is good is a question with an answer.                 *)
LEMMA GoodIsBoolean == \A w : Good(w) \in BOOLEAN
  BY Zenon DEF Good, GoodOrFlat, GoodStrict

(* A pass of the loop, which is not yet out of readings.                   *)
LEMMA CoolDownKeeps ==
  ASSUME CoolingInv, NEW w, CoolDown(w)
  PROVE  recent' \in Seq(BOOLEAN) /\ CoolInv'
<1> DEFINE good == Good(w)
<1>1. /\ ok \in Nat /\ reading \in Nat /\ recent \in Seq(BOOLEAN)
      /\ DOMAIN recent = 1 .. reading /\ ok <= reading
      /\ \A k \in 0 .. ok - 1 : recent[reading - k]
  BY DEF CoolingInv, CoolInv
<1>2. good \in BOOLEAN
  BY GoodIsBoolean
<1>3. /\ pc = "cooldown" /\ reading' = reading + 1
      /\ recent' = Append(recent, good)
      /\ good => ok' = ok + 1
      /\ ~good => ok' = 0
  BY DEF CoolDown, Consecutive
<1>4. /\ pc' \in {"post", "cooldown"} /\ exp' = exp
      /\ pc' = "post" => ok' >= Needed \/ reading' = MaxReadings
  BY DEF CoolDown, fixed
<1>5. Needed' = Needed
  BY <1>4 DEF Needed
<1> HIDE DEF good
<1>6. Len(recent) = reading
  BY <1>1
<1>7. /\ recent' \in Seq(BOOLEAN) /\ DOMAIN recent' = 1 .. reading + 1
      /\ \A i \in 1 .. reading : recent'[i] = recent[i]
      /\ recent'[reading + 1] = good
  BY <1>1, <1>2, <1>3, <1>6
<1>8. ok' \in Nat /\ reading' \in Nat /\ ok' <= reading'
  BY <1>1, <1>2, <1>3
<1>9. \A k \in 0 .. ok' - 1 : recent'[reading' - k]
  <2>1. CASE good
    <3>1. ok' - 1 = ok
      BY <1>1, <1>3, <2>1
    <3> SUFFICES ASSUME NEW k \in 0 .. ok PROVE recent'[reading' - k]
      BY <3>1
    <3>2. CASE k = 0
      <4>1. reading' - k = reading + 1
        BY <1>1, <1>3, <3>2
      <4> QED
        BY <1>7, <2>1, <4>1
    <3>3. CASE k # 0
      <4>1. /\ k - 1 \in 0 .. ok - 1 /\ reading' - k = reading - (k - 1)
            /\ reading - (k - 1) \in 1 .. reading
        BY <1>1, <1>3, <3>3
      <4> QED
        BY <1>1, <1>7, <4>1
    <3> QED
      BY <3>2, <3>3
  <2>2. CASE ~good
    BY <1>3, <2>2
  <2> QED
    BY <2>1, <2>2
<1> QED
  BY <1>3, <1>4, <1>5, <1>7, <1>8, <1>9 DEF CoolInv, BeforeCooldown

LEMMA CoolStep == CoolingInv /\ [Next]_vars => CoolingInv'
<1> SUFFICES ASSUME CoolingInv, [Next]_vars PROVE CoolingInv'
  OBVIOUS
<1>1. ExperimentInv'
  BY ExperimentStep DEF CoolingInv
<1>2. ASSUME NEW w, CoolDown(w) PROVE CoolingInv'
  BY <1>1, <1>2, CoolDownKeeps DEF CoolingInv
(* Nothing else touches the loop, and only it leads to the end.            *)
<1>3. ASSUME UNCHANGED <<exp, coolVars>>,
             pc' \in BeforeCooldown => pc \in BeforeCooldown,
             exp # "E0" /\ pc' \in {"post", "report"} => pc \in {"post", "report"}
      PROVE  CoolingInv'
  <2>1. Needed' = Needed
    BY <1>3 DEF Needed
  <2> QED
    BY <1>1, <1>3, <2>1 DEF coolVars, CoolingInv, CoolInv
<1> USE DEF fixed, BeforeCooldown
<1>4. ASSUME NEW w \in Baseline, MeasurePre(w) \/ MeasurePost(w) PROVE CoolingInv'
  BY <1>3, <1>4 DEF MeasurePre, MeasurePost
<1>5. CASE Spawn \/ Join
  BY <1>3, <1>5 DEF Spawn, Join
<1>6. CASE Get
  BY <1>3, <1>6 DEF Get, GiveUp, Record
<1>7. ASSUME NEW runs, RunSeries(runs) PROVE CoolingInv'
  BY <1>3, <1>7 DEF RunSeries
<1>8. CASE Report
  BY <1>3, <1>8 DEF Report
<1>9. ASSUME NEW runs, NEW size, Send(runs, size) PROVE CoolingInv'
  BY <1>3, <1>9 DEF Send
<1>10. CASE Feed \/ Exit
  BY <1>3, <1>10 DEF Feed, Exit
<1>11. CASE Fail \/ SeriesFails \/ Killed
  BY <1>3, <1>11 DEF Fail, SeriesFails, Killed
<1>12. CASE UNCHANGED vars
  BY <1>3, <1>12 DEF vars
<1> QED
  BY <1>2, <1>4, <1>5, <1>6, <1>7, <1>8, <1>9, <1>10, <1>11, <1>12
     DEF Next, Parent, Worker

(* The second baseline is taken at power that was good twice or three      *)
(* times running, however long that took, or when the readings ran out:    *)
(* a reading that is not good starts the count over                        *)
(* (e1_ensemble_collector.py:351-357).                                     *)
THEOREM CooledBeforeMeasuring == Spec => []SettledOrTimedOut
<1>1. ASSUME CoolingInv PROVE SettledOrTimedOut
  <2>1. /\ ok \in Nat /\ reading \in Nat /\ recent \in Seq(BOOLEAN)
        /\ DOMAIN recent = 1 .. reading /\ ok <= reading
        /\ \A k \in 0 .. ok - 1 : recent[reading - k]
        /\ exp # "E0" /\ pc \in {"post", "report"} => ok >= Needed \/ reading = MaxReadings
    BY <1>1 DEF CoolingInv, CoolInv
  <2>2. Len(recent) = reading /\ Needed \in Nat
    BY <2>1 DEF Needed
  <2> QED
    BY <2>1, <2>2 DEF SettledOrTimedOut
<1> QED
  BY <1>1, CoolInit, CoolStep, PTL DEF Spec
==============================================================================
