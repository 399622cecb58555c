------------------------- MODULE EnergySamplerProofs -------------------------
(***************************************************************************)
(* The sampler of a run for every number of runs, every power, every       *)
(* interval and every delay: its samples are its own and in order, and the *)
(* trapezoids stay within what the GPU can have drawn.                     *)
(***************************************************************************)
EXTENDS EnergySampler, TLAPS

Sample == Nat \X (0 .. MaxPower)

Shape ==
  /\ now \in Nat /\ power \in 0 .. MaxPower
  /\ samples \in [RunIds -> Seq(Sample)]
  /\ thread \in [RunIds -> {"none", "loop", "awake", "read", "sleep", "ended"}]
  /\ stamp \in [RunIds -> Nat] /\ wake \in [RunIds -> Nat]
  /\ pc \in {"idle", "begin", "start", "done"} \cup Measuring
  /\ run \in RunIds
  /\ t0 \in Nat /\ n \in Nat /\ i \in Nat /\ joules \in Int
  /\ pc = "start" => t0 <= now

(* No thread is there before its run starts it.                            *)
Unstarted ==
  \A r \in RunIds :
    r > run \/ (r = run /\ pc \in {"idle", "begin", "start"}) => thread[r] = "none"

(* The samples of the current run: within it, and spread by the interval.  *)
Ordered ==
  /\ \A j \in 1 .. Len(Samples) :
       /\ t0 <= Samples[j][1] /\ Samples[j][1] <= now
       /\ j > 1 => Samples[j - 1][1] + Interval <= Samples[j][1]
       /\ Samples[1][1] + (j - 1) * Interval <= Samples[j][1]
  /\ t0 <= now

(* The next sample of the current run cannot come too early.               *)
Due == IF Samples = << >> THEN t0 ELSE Samples[Len(Samples)][1] + Interval

Spaced ==
  /\ thread[run] = "read" => Due <= stamp[run] /\ stamp[run] <= now
  /\ thread[run] = "sleep" => Due <= wake[run]
  /\ thread[run] \in {"loop", "awake", "ended"} => Due <= now

(* The loop of the sum is within the samples it counted.                   *)
Summed ==
  /\ pc \in {"sum", "record"} => n <= Len(Samples)
  /\ pc = "sum" => i >= 1
  /\ pc = "sum" /\ n > 1 =>
       /\ i \in 1 .. n
       /\ 0 <= joules /\ joules <= 2 * MaxPower * (Samples[i][1] - Samples[1][1])

SamplerInv ==
  /\ Shape /\ Unstarted
  /\ pc \in Measuring => Ordered /\ Spaced
  /\ Summed
  /\ AcceptedWasWatched

(* What a run is charged with: the counter as it stood at its start, if it *)
(* could be read, the trapezoids within the time that has passed, and      *)
(* nothing before there is a run.                                          *)
Charged ==
  /\ idle \in Int /\ boot \in 0 .. CounterRange - 1 /\ misread \in BOOLEAN
  /\ pc \in Measuring \cup {"start"} /\ UsesCpu /\ ~misread => c0 = CounterAt(t0)
  /\ pc = "sum" /\ n <= 1 => joules = 0
  /\ pc \in {"sum", "record"} => 0 <= joules /\ joules <= 2 * MaxPower * (now - t0)
  /\ pc = "idle" => result = None /\ last \in Int

NetInv == SamplerInv /\ Charged /\ NetWithinMeans

LEMMA SamplerInit == Init => SamplerInv
BY SamplerAssumption
   DEF Init, SamplerInv, Shape, Unstarted, Summed, AcceptedWasWatched, None,
       RunIds, Samples, SamplerOf, Sample, Measuring

(* A trapezoid under a bounded power.                                      *)
LEMMA TrapezoidBounded ==
  ASSUME NEW p \in 0 .. MaxPower, NEW q \in 0 .. MaxPower, NEW d \in Nat
  PROVE  0 <= (p + q) * d /\ (p + q) * d <= 2 * MaxPower * d
<1>1. p + q \in Nat /\ 2 * MaxPower - (p + q) \in Nat
  BY SamplerAssumption
<1>2. \A x, y \in Nat : x * y \in Nat
  OBVIOUS
<1>3. (p + q) * d \in Nat /\ (2 * MaxPower - (p + q)) * d \in Nat
  BY <1>1, <1>2
<1>4. (2 * MaxPower - (p + q)) * d = 2 * MaxPower * d - (p + q) * d
  BY SamplerAssumption
<1> QED
  BY <1>3, <1>4, SamplerAssumption

LEMMA ThreadShape ==
  ASSUME Shape, NEW r \in RunIds, Thread(r)
  PROVE  Shape'
<1> USE DEF Shape
<1>1. UNCHANGED <<now, power, pc, run, t0, n, i, joules>>
  BY DEF Thread, clockVars, sumVars
<1>2. CASE Check(r)
  BY <1>1, <1>2 DEF Check
<1>3. CASE Stamp(r)
  BY <1>1, <1>3 DEF Stamp
<1>4. ASSUME NEW w \in {0, power}, Read(r, w) PROVE Shape'
  <2>1. <<stamp[r], w>> \in Sample
    BY SamplerAssumption DEF Sample
  <2>2. Append(samples[r], <<stamp[r], w>>) \in Seq(Sample)
    BY <2>1
  <2>3. samples' \in [RunIds -> Seq(Sample)]
    BY <1>4, <2>2 DEF Read, SamplerOf
  <2> QED
    BY <1>1, <1>4, <2>3, SamplerAssumption DEF Read
<1>5. CASE Wake(r)
  BY <1>1, <1>5 DEF Wake
<1> QED
  BY <1>2, <1>3, <1>4, <1>5 DEF Thread

(* What a thread does to the samples of another run leaves this one's.     *)
LEMMA OthersKeep ==
  ASSUME SamplerInv, NEW r \in RunIds, r # run, Thread(r)
  PROVE  SamplerInv'
<1>1. /\ samples'[run] = samples[run] /\ thread'[run] = thread[run]
      /\ stamp'[run] = stamp[run] /\ wake'[run] = wake[run]
  BY DEF SamplerInv, Shape, Thread, Check, Stamp, Read, Wake, SamplerOf
<1>2. Shape'
  BY ThreadShape DEF SamplerInv
<1>3. Unstarted'
  <2>1. thread' = [thread EXCEPT ![r] = thread'[r]] /\ thread[r] # "none"
    BY DEF SamplerInv, Shape, Thread, Check, Stamp, Read, Wake
  <2> QED
    BY <2>1 DEF SamplerInv, Shape, Unstarted, Thread
<1>4. UNCHANGED <<now, pc, run, t0, n, i, joules, result, script>>
  BY DEF Thread, clockVars, sumVars
<1>5. Samples' = Samples
  BY <1>1, <1>4 DEF Samples, SamplerOf
<1>6. Ordered /\ Spaced => Ordered' /\ Spaced'
  BY <1>1, <1>4, <1>5 DEF Ordered, Spaced, Due
<1>7. Summed' /\ AcceptedWasWatched'
  BY <1>4, <1>5 DEF SamplerInv, Summed, AcceptedWasWatched
<1> QED
  BY <1>2, <1>3, <1>4, <1>6, <1>7 DEF SamplerInv

(* A sample of the current run comes an interval after the one before.     *)
LEMMA OwnKeeps ==
  ASSUME SamplerInv, Thread(run)
  PROVE  SamplerInv'
<1>1. Shape' /\ run \in RunIds
  BY ThreadShape DEF SamplerInv, Shape
<1>2. /\ UNCHANGED <<now, pc, run, t0, n, i, joules, result, script>>
      /\ pc \in Measuring /\ Ordered /\ Spaced
  <2>1. thread[run] # "none" /\ pc # "done"
    BY DEF Thread, Check, Stamp, Read, Wake
  <2> QED
    BY <2>1, <1>1 DEF SamplerInv, Shape, Unstarted, Thread, clockVars, sumVars
<1>3. Unstarted'
  <2>1. thread' = [thread EXCEPT ![run] = thread'[run]]
    BY DEF SamplerInv, Shape, Thread, Check, Stamp, Read, Wake
  <2> QED
    BY <1>2, <2>1, SamplerAssumption DEF SamplerInv, Shape, Unstarted, Measuring, RunIds
<1>4. AcceptedWasWatched'
  BY <1>2 DEF SamplerInv, AcceptedWasWatched
<1>5. /\ t0 \in Nat /\ now \in Nat /\ Interval \in Nat
      /\ Samples \in Seq(Sample) /\ Len(Samples) \in Nat
      /\ \A j \in 1 .. Len(Samples) : Samples[j][1] \in Nat
  BY SamplerAssumption DEF SamplerInv, Shape, Samples, SamplerOf, Sample
<1>6. CASE UNCHANGED samples
  <2>1. Samples' = Samples
    BY <1>2, <1>6 DEF Samples
  <2>0. Due' = Due /\ Due \in Nat
    <3>1. Samples # << >> => Len(Samples) \in 1 .. Len(Samples)
      BY <1>5
    <3> QED
      BY <1>2, <1>5, <2>1, <3>1 DEF Due
  <2>2. Ordered' /\ Summed'
    BY <1>2, <2>1 DEF SamplerInv, Ordered, Summed
  <2>3. ASSUME Check(run) PROVE Spaced'
    <3>1. /\ thread[run] = "loop" /\ thread'[run] \in {"awake", "ended"}
      BY <1>1, <2>3 DEF SamplerInv, Shape, Check
    <3> QED
      BY <1>2, <2>0, <3>1 DEF Spaced
  <2>4. ASSUME Stamp(run) PROVE Spaced'
    <3>1. thread[run] = "awake" /\ thread'[run] = "read" /\ stamp'[run] = now
      BY <1>1, <2>4 DEF SamplerInv, Shape, Stamp
    <3> QED
      BY <1>2, <1>5, <2>0, <3>1 DEF Spaced
  <2>5. ASSUME Wake(run) PROVE Spaced'
    <3>1. /\ thread[run] = "sleep" /\ thread'[run] = "loop"
          /\ wake[run] \in Nat /\ now >= wake[run]
      BY <1>1, <2>5 DEF SamplerInv, Shape, Wake
    <3> QED
      BY <1>2, <1>5, <2>0, <3>1 DEF Spaced
  <2>6. ASSUME NEW w \in {0, power}, Read(run, w) PROVE FALSE
    <3>1. samples'[run] = Append(samples[run], <<stamp[run], w>>)
      BY <1>1, <2>6 DEF SamplerInv, Shape, Read, SamplerOf
    <3>2. Len(samples'[run]) = Len(samples[run]) + 1 /\ Len(samples[run]) \in Nat
      BY <1>1, <3>1, SamplerAssumption DEF SamplerInv, Shape
    <3> QED
      BY <1>6, <3>2
  <2> QED
    BY <1>1, <1>2, <1>3, <1>4, <2>2, <2>3, <2>4, <2>5, <2>6 DEF SamplerInv, Thread
<1>7. ASSUME NEW w \in {0, power}, Read(run, w) PROVE SamplerInv'
  <2> DEFINE s == Samples
             m == Len(Samples)
             due == Due
  <2>1. /\ Samples' = Append(s, <<stamp[run], w>>)
        /\ thread'[run] = "sleep" /\ wake'[run] = now + Interval
    BY <1>1, <1>2, <1>7 DEF SamplerInv, Shape, Read, Samples, SamplerOf
  <2>2. due <= stamp[run] /\ stamp[run] <= now /\ stamp[run] \in Nat
    BY <1>1, <1>2, <1>7 DEF SamplerInv, Shape, Read, Spaced
  <2>3. <<stamp[run], w>> \in Sample
    BY <2>2, SamplerAssumption DEF SamplerInv, Shape, Sample
  <2>4. /\ Len(Samples') = m + 1 /\ Samples'[m + 1] = <<stamp[run], w>>
        /\ \A j \in 1 .. m : Samples'[j] = s[j]
        /\ Samples' # << >>
    BY <1>5, <2>1, <2>3
  <2>5. m > 0 => s # << >> /\ s[1][1] + (m - 1) * Interval <= s[m][1]
    BY <1>2, <1>5 DEF Ordered
  <2>6. Samples'[1][1] + m * Interval <= stamp[run]
    <3>1. CASE m = 0
      BY <1>5, <2>2, <2>4, <3>1 DEF Due
    <3>2. CASE m > 0
      <4>1. (m - 1) * Interval + Interval = m * Interval
        BY <1>5
      <4>2. /\ s[m][1] + Interval <= stamp[run] /\ Samples'[1] = s[1]
            /\ s[1][1] \in Nat /\ s[m][1] \in Nat
        BY <1>5, <2>2, <2>4, <2>5, <3>2 DEF Due
      <4>3. (m - 1) * Interval \in Int /\ m * Interval \in Int
        BY <1>5
      <4> HIDE DEF s, m, due
      <4> QED
        BY <4>1, <4>2, <4>3, <2>2, <2>5, <3>2, <1>5
    <3> QED
      BY <1>5, <3>1, <3>2
  <2>7. t0 <= stamp[run] /\ (m > 0 => s[m][1] + Interval <= stamp[run])
    <3>1. CASE s = << >>
      BY <1>5, <2>2, <3>1 DEF Due
    <3>2. CASE s # << >>
      <4>1. m \in 1 .. m /\ t0 <= s[m][1]
        BY <1>2, <1>5, <3>2 DEF Ordered
      <4> QED
        BY <1>5, <2>2, <3>2, <4>1 DEF Due
    <3> QED
      BY <3>1, <3>2
  <2> HIDE DEF s, m, due
  <2>8. \A j \in 1 .. m :
          /\ t0 <= s[j][1] /\ s[j][1] <= now
          /\ j > 1 => s[j - 1][1] + Interval <= s[j][1]
          /\ s[1][1] + (j - 1) * Interval <= s[j][1]
    BY <1>2 DEF Ordered, s, m
  <2>9. Ordered'
    <3> SUFFICES ASSUME NEW j \in 1 .. m + 1
                 PROVE  /\ t0 <= Samples'[j][1] /\ Samples'[j][1] <= now
                        /\ j > 1 => Samples'[j - 1][1] + Interval <= Samples'[j][1]
                        /\ Samples'[1][1] + (j - 1) * Interval <= Samples'[j][1]
      BY <1>2, <2>4 DEF Ordered
    <3>0. m \in Nat
      BY <1>5 DEF m
    <3>1. CASE j \in 1 .. m
      <4>1. Samples'[j] = s[j] /\ Samples'[1] = s[1] /\ (j > 1 => Samples'[j - 1] = s[j - 1])
        BY <2>4, <3>0, <3>1
      <4> QED
        BY <2>8, <3>1, <4>1
    <3>2. CASE j = m + 1
      <4>1. j > 1 => Samples'[j - 1] = s[m]
        BY <2>4, <3>0, <3>2
      <4>2. j - 1 = m
        BY <3>0, <3>2
      <4> QED
        BY <2>2, <2>4, <2>6, <2>7, <3>0, <3>2, <4>1, <4>2
    <3> QED
      BY <3>0, <3>1, <3>2
  <2>10. Spaced'
    BY <1>2, <1>5, <2>1, <2>2, <2>4 DEF Spaced, Due
  <2>11. Summed'
    <3>1. m \in Nat /\ n \in Nat /\ (pc \in {"sum", "record"} => n <= m)
      BY <1>5 DEF SamplerInv, Shape, Summed, m
    <3>2. pc \in {"sum", "record"}' => n' <= Len(Samples')
      BY <1>2, <2>4, <3>1
    <3>3. ASSUME pc = "sum", n > 1
          PROVE  /\ i \in 1 .. n /\ 0 <= joules
                 /\ joules <= 2 * MaxPower * (Samples'[i][1] - Samples'[1][1])
      <4>1. /\ i \in 1 .. n /\ 0 <= joules
            /\ joules <= 2 * MaxPower * (s[i][1] - s[1][1])
        BY <3>3 DEF SamplerInv, Summed, s
      <4>2. i \in 1 .. m /\ 1 \in 1 .. m
        BY <3>1, <3>3, <4>1
      <4> QED
        BY <2>4, <4>1, <4>2
    <3>4. pc = "sum" => i >= 1
      BY DEF SamplerInv, Summed
    <3> QED
      BY <1>2, <3>2, <3>3, <3>4 DEF Summed
  <2> QED
    BY <1>1, <1>3, <1>4, <2>9, <2>10, <2>11 DEF SamplerInv
<1> QED
  BY <1>6, <1>7 DEF Thread, Check, Stamp, Wake

(* One more trapezoid stays within the envelope.                           *)
LEMMA SumKeeps ==
  ASSUME SamplerInv, Sum
  PROVE  SamplerInv'
<1>1. /\ pc = "sum" /\ pc' \in {"sum", "record"} /\ pc \in Measuring
      /\ UNCHANGED <<now, run, t0, n, result, script, power, samples, thread, stamp, wake>>
      /\ i' \in Nat /\ n \in Nat
      /\ Samples' = Samples /\ n <= Len(Samples) /\ Ordered /\ Spaced
  BY DEF Sum, SamplerInv, Shape, Summed, Samples, clockVars, threadVars, Measuring
<1>2. \A j \in 1 .. Len(Samples) : Samples[j] \in Sample
  BY DEF SamplerInv, Shape, Samples, SamplerOf
<1>3. Ordered' /\ Spaced' /\ Unstarted' /\ AcceptedWasWatched'
  BY <1>1 DEF Ordered, Spaced, Due, Unstarted, AcceptedWasWatched, SamplerInv, Measuring
<1>4. CASE i < n
  <2>1. /\ n \in Nat /\ Len(Samples) \in Nat
        /\ n > 1 => i \in 1 .. n
    BY <1>1 DEF SamplerInv, Shape, Samples, SamplerOf, Summed
  <2>2. ASSUME n > 1
        PROVE  /\ i' \in 1 .. n /\ joules' \in Int /\ 0 <= joules'
               /\ joules' <= 2 * MaxPower * (Samples[i'][1] - Samples[1][1])
    <3> DEFINE d == Samples[i + 1][1] - Samples[i][1]
               e == Samples[i][1] - Samples[1][1]
               w == Samples[i][2] + Samples[i + 1][2]
    <3>1. /\ i \in 1 .. Len(Samples) /\ i + 1 \in 1 .. Len(Samples)
          /\ 1 \in 1 .. Len(Samples) /\ i + 1 > 1 /\ (i + 1) - 1 = i
      BY <1>1, <1>4, <2>1, <2>2
    <3>2. /\ Samples[i] \in Sample /\ Samples[i + 1] \in Sample /\ Samples[1] \in Sample
          /\ Samples[i][1] + Interval <= Samples[i + 1][1]
      <4>1. \A j \in 1 .. Len(Samples) :
              j > 1 => Samples[j - 1][1] + Interval <= Samples[j][1]
        BY <1>1 DEF Ordered
      <4>2. Samples[(i + 1) - 1][1] + Interval <= Samples[i + 1][1]
        BY <3>1, <4>1
      <4> QED
        BY <1>2, <3>1, <4>2
    <3>3. d \in Nat /\ e \in Int
      BY <3>2, SamplerAssumption DEF Sample
    <3>4. Samples[i][2] \in 0 .. MaxPower /\ Samples[i + 1][2] \in 0 .. MaxPower
      BY <3>2 DEF Sample
    <3>5. w \in Nat /\ w * d \in Int /\ 0 <= w * d /\ w * d <= 2 * MaxPower * d
      BY <3>3, <3>4, TrapezoidBounded, SamplerAssumption
    <3>6. /\ joules' = joules + w * d /\ i' = i + 1
          /\ joules \in Int /\ 0 <= joules /\ joules <= 2 * MaxPower * e
      BY <1>1, <1>4, <2>2 DEF Sum, Trapezoid, SamplerInv, Shape, Summed
    <3>7. Samples[i + 1][1] - Samples[1][1] = e + d
      BY <3>2 DEF Sample
    <3> HIDE DEF d, e, w
    <3>8. 2 * MaxPower * (e + d) = 2 * MaxPower * e + 2 * MaxPower * d
      BY <3>3, SamplerAssumption
    <3>9. 2 * MaxPower * e \in Int /\ 2 * MaxPower * d \in Int
      BY <3>3, SamplerAssumption
    <3>10. joules' <= 2 * MaxPower * (e + d)
      BY <3>5, <3>6, <3>8, <3>9
    <3>11. i' \in 1 .. n /\ joules' \in Int /\ 0 <= joules'
      BY <1>4, <2>1, <3>1, <3>5, <3>6
    <3> QED
      BY <3>6, <3>7, <3>10, <3>11
  <2>3. n > 1
    BY <1>1, <1>4 DEF SamplerInv, Summed, Shape
  <2>4. Summed'
    BY <1>1, <2>1, <2>2, <2>3 DEF Summed
  <2>5. Shape'
    <3>1. joules' \in Int
      BY <2>2, <2>3
    <3> QED
      BY <1>1, <3>1 DEF SamplerInv, Shape, Measuring
  <2> QED
    BY <1>1, <1>3, <2>4, <2>5 DEF SamplerInv
<1>5. CASE ~(i < n)
  BY <1>1, <1>3, <1>5 DEF Sum, SamplerInv, Shape, Summed, Measuring
<1> QED
  BY <1>4, <1>5

(* A list is in order when it starts: the run is reset to nothing.         *)
LEMMA StartKeeps ==
  ASSUME SamplerInv, Start
  PROVE  SamplerInv'
<1>1. /\ pc = "start" /\ pc' = "infer" /\ run' = run /\ run \in RunIds
      /\ UNCHANGED <<now, power, t0, n, i, joules, result, script, stamp, wake>>
      /\ samples' = [samples EXCEPT ![run] = << >>]
      /\ thread' = [thread EXCEPT ![run] = "loop"]
  BY DEF Start, SamplerInv, Shape, SamplerOf, clockVars, sumVars
<1>2. Shape'
  BY <1>1 DEF SamplerInv, Shape, Measuring
<1>3. Samples' = << >> /\ thread'[run] = "loop" /\ t0 <= now
  BY <1>1 DEF SamplerInv, Shape, Samples, SamplerOf
<1>4. Ordered' /\ Spaced'
  BY <1>1, <1>3 DEF Ordered, Spaced, Due
<1>5. Unstarted'
  BY <1>1, SamplerAssumption DEF SamplerInv, Shape, Unstarted, RunIds
<1>6. Summed' /\ AcceptedWasWatched'
  BY <1>1 DEF SamplerInv, Summed, AcceptedWasWatched
<1> QED
  BY <1>2, <1>4, <1>5, <1>6 DEF SamplerInv

(* The sum begins at the first of the samples that are there.              *)
LEMMA JoinKeeps ==
  ASSUME SamplerInv, Join
  PROVE  SamplerInv'
<1>1. /\ pc = "join" /\ pc' = "sum" /\ pc \in Measuring /\ Ordered /\ Spaced
      /\ UNCHANGED <<now, power, run, t0, result, script, samples, thread, stamp, wake>>
      /\ n' = Len(Samples) /\ i' = 1 /\ joules' = 0 /\ Samples' = Samples
  BY DEF Join, SamplerInv, Samples, clockVars, threadVars, Measuring
<1>2. /\ Len(Samples) \in Nat
      /\ \A j \in 1 .. Len(Samples) : Samples[j] \in Sample
  BY DEF SamplerInv, Shape, Samples, SamplerOf
<1>3. Shape'
  BY <1>1, <1>2 DEF SamplerInv, Shape, Measuring
<1>4. Ordered' /\ Spaced' /\ Unstarted' /\ AcceptedWasWatched'
  BY <1>1 DEF Ordered, Spaced, Due, Unstarted, AcceptedWasWatched, SamplerInv, Measuring
<1>5. Summed'
  <2>1. n' > 1 => Samples[1][1] \in Nat /\ 1 \in 1 .. n'
    BY <1>1, <1>2 DEF Sample
  <2>2. n' > 1 => 2 * MaxPower * (Samples[1][1] - Samples[1][1]) = 0
    BY <2>1, SamplerAssumption
  <2> QED
    BY <1>1, <1>2, <2>1, <2>2 DEF Summed
<1> QED
  BY <1>3, <1>4, <1>5 DEF SamplerInv

(* Enough samples, an interval apart, were taken over the time they take.  *)
LEMMA RecordKeeps ==
  ASSUME SamplerInv, NEW c, Record(c)
  PROVE  SamplerInv'
<1>1. /\ pc = "record" /\ pc' \in {"begin", "done"} /\ Ordered
      /\ run' = (IF run < Runs THEN run + 1 ELSE run)
      /\ pc' = (IF run < Runs THEN "begin" ELSE "done")
      /\ UNCHANGED <<now, power, t0, script, thread, stamp, wake>>
      /\ n' = 0 /\ i' = 0 /\ joules' = 0 /\ run \in RunIds
      /\ samples' = [samples EXCEPT ![run] = << >>]
  BY DEF Record, SamplerInv, Shape, SamplerOf, clockVars, Measuring
<1>2. run' \in RunIds
  BY <1>1, SamplerAssumption DEF RunIds
<1>3. Shape'
  BY <1>1, <1>2 DEF SamplerInv, Shape, Measuring
<1>4. Unstarted'
  BY <1>1, SamplerAssumption DEF SamplerInv, Unstarted, RunIds
<1>5. Summed' /\ pc' \notin Measuring
  BY <1>1 DEF Summed, Measuring
<1>6. AcceptedWasWatched'
  <2> SUFFICES ASSUME script = "E3", result'.accepted
               PROVE  result'.span >= (MinSamples - 1) * Interval
    BY <1>1 DEF AcceptedWasWatched
  <2>1. /\ result'.span = (IF n = 0 THEN 0 ELSE Samples[n][1] - Samples[1][1])
        /\ n >= MinSamples
    BY DEF Record, Accepts
  <2>2. n \in Nat /\ n > 1 /\ n <= Len(Samples) /\ Len(Samples) \in Nat
    BY <1>1, <2>1, SamplerAssumption
       DEF SamplerInv, Shape, Summed, Samples, SamplerOf
  <2>3. n \in 1 .. Len(Samples) /\ 1 \in 1 .. Len(Samples)
    BY <2>2
  <2>4. Samples[n][1] \in Nat /\ Samples[1][1] \in Nat
    BY <2>3 DEF SamplerInv, Shape, Samples, SamplerOf, Sample
  <2>5. Samples[1][1] + (n - 1) * Interval <= Samples[n][1]
    BY <1>1, <2>3 DEF Ordered
  <2>6. (n - 1) * Interval >= (MinSamples - 1) * Interval
    <3>1. \A x, y \in Nat : x * y \in Nat
      OBVIOUS
    <3>2. n - MinSamples \in Nat /\ Interval \in Nat
      BY <2>1, <2>2, SamplerAssumption
    <3>3. (n - MinSamples) * Interval \in Nat
      BY <3>1, <3>2
    <3>4. (n - 1) * Interval - (MinSamples - 1) * Interval = (n - MinSamples) * Interval
      BY <2>2, <3>2, SamplerAssumption
    <3>5. (n - 1) * Interval \in Int /\ (MinSamples - 1) * Interval \in Int
      BY <2>2, <3>2, SamplerAssumption
    <3> QED
      BY <3>3, <3>4, <3>5
  <2>7. (n - 1) * Interval \in Int /\ (MinSamples - 1) * Interval \in Int
    BY <2>2, SamplerAssumption
  <2> QED
    BY <2>1, <2>2, <2>4, <2>5, <2>6, <2>7
<1> QED
  BY <1>3, <1>4, <1>5, <1>6 DEF SamplerInv

(* Time only makes what is due more so.                                    *)
LEMMA TickKeeps ==
  ASSUME SamplerInv, Tick
  PROVE  SamplerInv'
<1>1. /\ now' = now + 1 /\ power' \in Powers /\ pc # "start"
      /\ UNCHANGED <<pc, run, t0, n, i, joules, result, script, samples, thread, stamp, wake>>
      /\ Samples' = Samples
  BY DEF Tick, Pausing, Samples, threadVars, sumVars
<1>2. Shape'
  BY <1>1, SamplerAssumption DEF SamplerInv, Shape, Measuring
<1>3. Unstarted' /\ Summed' /\ AcceptedWasWatched'
  BY <1>1 DEF SamplerInv, Unstarted, Summed, AcceptedWasWatched
<1>4. ASSUME pc \in Measuring PROVE Ordered' /\ Spaced'
  <2>1. /\ t0 \in Nat /\ now \in Nat /\ stamp[run] \in Nat /\ Samples \in Seq(Sample)
        /\ run \in RunIds
    BY DEF SamplerInv, Shape, Samples, SamplerOf
  <2>2. \A j \in 1 .. Len(Samples) : Samples[j][1] \in Nat
    BY <2>1 DEF Sample
  <2>3. Ordered'
    BY <1>1, <1>4, <2>1, <2>2 DEF SamplerInv, Ordered
  <2>4. Due' = Due /\ Due \in Nat
    <3>1. Samples # << >> => Len(Samples) \in 1 .. Len(Samples)
      BY <2>1
    <3> QED
      BY <1>1, <2>1, <2>2, <3>1, SamplerAssumption DEF Due
  <2>5. Spaced'
    BY <1>1, <1>4, <2>1, <2>4 DEF SamplerInv, Spaced
  <2> QED
    BY <2>3, <2>5
<1> QED
  BY <1>1, <1>2, <1>3, <1>4 DEF SamplerInv

(* Every step keeps the invariant.                                         *)
LEMMA SamplerStep == SamplerInv /\ [Next]_vars => SamplerInv'
<1> SUFFICES ASSUME SamplerInv, [Next]_vars PROVE SamplerInv'
  OBVIOUS
<1>1. ASSUME NEW c \in CounterValues, NEW w \in {0, power}, MeasureIdle(c, w)
      PROVE  SamplerInv'
  BY <1>1
     DEF MeasureIdle, SamplerInv, Shape, Unstarted, Summed, AcceptedWasWatched,
         threadVars, sumVars, Measuring
<1>2. ASSUME NEW c, Begin(c) PROVE SamplerInv'
  BY <1>2
     DEF Begin, None, SamplerInv, Shape, Unstarted, Summed, AcceptedWasWatched,
         clockVars, threadVars, sumVars, Measuring
<1>3. CASE Start
  BY <1>3, StartKeeps
<1>4. CASE Stop
  <2>1. /\ pc \in Measuring /\ pc' \in Measuring /\ pc' = "join"
        /\ UNCHANGED <<now, power, run, t0, n, i, joules, result, script,
                       samples, thread, stamp, wake>>
        /\ Samples' = Samples
    BY <1>4 DEF Stop, Samples, Measuring, clockVars, threadVars, sumVars
  <2>2. Ordered' /\ Spaced'
    BY <2>1 DEF SamplerInv, Ordered, Spaced, Due
  <2> QED
    BY <1>4, <2>1, <2>2
       DEF Stop, SamplerInv, Shape, Unstarted, Summed, AcceptedWasWatched, Measuring
<1>5. CASE Join
  BY <1>5, JoinKeeps
<1>6. CASE Sum
  BY <1>6, SumKeeps
<1>7. ASSUME NEW c, Record(c) PROVE SamplerInv'
  BY <1>7, RecordKeeps
<1>8. ASSUME NEW r \in RunIds, Thread(r) PROVE SamplerInv'
  BY <1>8, OthersKeep, OwnKeeps
<1>9. CASE Tick
  BY <1>9, TickKeeps
<1>10. CASE UNCHANGED vars
  <2>1. /\ UNCHANGED <<now, power, pc, run, t0, n, i, joules, result, script,
                       samples, thread, stamp, wake>>
        /\ Samples' = Samples
    BY <1>10 DEF vars, Samples, clockVars, threadVars, sumVars
  <2>2. (Ordered <=> Ordered') /\ (Spaced <=> Spaced')
    BY <2>1 DEF Ordered, Spaced, Due
  <2> QED
    BY <2>1, <2>2 DEF SamplerInv, Shape, Unstarted, Summed, AcceptedWasWatched
<1> QED
  BY <1>1, <1>2, <1>3, <1>4, <1>5, <1>6, <1>7, <1>8, <1>9, <1>10 DEF Next, Main

LEMMA SamplerAlways == Spec => []SamplerInv
BY SamplerInit, SamplerStep, PTL DEF Spec

(* A run is computed from its own samples, in order, an interval apart,    *)
(* whatever threads of earlier runs still do (e1_ensemble_collector.py:93).*)
THEOREM SamplesAreOwn == Spec => []OwnSamples
<1>1. SamplerInv => OwnSamples
  BY DEF SamplerInv, Shape, Ordered, OwnSamples, Samples, SamplerOf
<1> QED
  BY <1>1, SamplerAlways, PTL

(* The trapezoids never exceed the highest power over the time sampled     *)
(* (e1_ensemble_collector.py:98-105).                                      *)
THEOREM EnergyWithinEnvelope == Spec => []WithinEnvelope
<1>1. SamplerInv => WithinEnvelope
  BY DEF SamplerInv, Summed, WithinEnvelope
<1> QED
  BY <1>1, SamplerAlways, PTL

(* A run of E3 that is accepted was sampled for MIN_SAMPLES intervals      *)
(* (e3_drift_cost_collector.py:225).                                       *)
THEOREM AcceptedRunsWereWatched == Spec => []AcceptedWasWatched
<1>1. SamplerInv => AcceptedWasWatched
  BY DEF SamplerInv
<1> QED
  BY <1>1, SamplerAlways, PTL
(* What a counter modulo R has advanced by is no more than what it counted. *)
LEMMA CounterAdvance ==
  ASSUME NEW R \in Nat \ {0}, NEW x \in Nat, NEW y \in Nat
  PROVE  ((x + y) % R) - (x % R) <= y
<1> DEFINE p == x \div R
           q == (x + y) \div R
           r == x % R
           s == (x + y) % R
<1>1. x = R * p + r /\ x + y = R * q + s /\ p \in Int /\ q \in Int
  OBVIOUS
<1>2. r \in 0 .. R - 1 /\ s \in 0 .. R - 1
  OBVIOUS
<1> HIDE DEF p, q, r, s
<1>3. R * p \in Int /\ R * q \in Int
  BY <1>1
<1>4. q >= p
  <2>1. ASSUME q < p PROVE FALSE
    <3>1. p - q - 1 \in Nat
      BY <1>1, <2>1
    <3>2. R * (p - q - 1) \in Nat /\ R * (p - q - 1) = R * p - R * q - R
      BY <1>1, <3>1
    <3> QED
      BY <1>1, <1>2, <1>3, <3>2
  <2> QED
    BY <1>1, <2>1
<1>5. R * (q - p) \in Nat /\ R * (q - p) = R * q - R * p
  BY <1>1, <1>4
<1> QED
  BY <1>1, <1>2, <1>3, <1>5 DEF r, s

LEMMA CounterType ==
  ASSUME Charged, NEW t \in Nat
  PROVE  CounterAt(t) \in Int
<1>1. boot + CpuPower * t \in Nat /\ CounterRange \in Nat \ {0}
  BY SamplerAssumption DEF Charged
<1> QED
  BY <1>1 DEF CounterAt

(* The hardware's means over a time.                                       *)
Means(dt) == 2 * (CpuPower + MaxPower) * dt

(* Before a run is recorded there is no energy to bound.                   *)
LEMMA NothingWithinMeans ==
  /\ idle \in Int /\ result = None => NetWithinMeans
  /\ idle' \in Int /\ result' = None => NetWithinMeans'
<1>1. \A x \in Int : 0 <= Clamp(x)
  BY DEF Clamp
<1>2. ASSUME idle \in Int
      PROVE  2 * IdleReadings * (CpuPower + MaxPower) * 0 - Floor(0) \in Int
  BY <1>2, SamplerAssumption DEF Floor
<1>3. ASSUME idle' \in Int
      PROVE  2 * IdleReadings * (CpuPower + MaxPower) * 0 - Floor(0)' \in Int
  BY <1>3, SamplerAssumption DEF Floor
<1> QED
  BY <1>1, <1>2, <1>3 DEF NetWithinMeans, None

(* What is charged to a run, both sensors being read, was within them.     *)
LEMMA GrossWithinMeans ==
  ASSUME NetInv, pc = "record", UsesCpu => ~misread, NEW c,
         UsesCpu => c = CounterAt(now)
  PROVE  /\ now - t0 \in Nat /\ Gross(c, now - t0) \in Int
         /\ Gross(c, now - t0) <= Means(now - t0)
<1> DEFINE dt == now - t0
<1>1. /\ now \in Nat /\ t0 \in Nat /\ dt \in Nat
      /\ joules \in Int /\ joules <= 2 * MaxPower * dt
      /\ CpuPower \in Nat /\ MaxPower \in Nat /\ boot \in Nat
  BY SamplerAssumption DEF NetInv, SamplerInv, Shape, Ordered, Measuring, Charged
<1>2. Means(dt) = 2 * (CpuPower * dt) + 2 * MaxPower * dt /\ CpuPower * dt \in Nat
  BY <1>1 DEF Means
<1>3. 2 * MaxPower * dt \in Nat
  BY <1>1
<1>4. CASE UsesCpu
  <2>1. c = CounterAt(now) /\ c0 = CounterAt(t0)
    BY <1>4 DEF NetInv, Charged, Measuring
  <2>2. c \in Int /\ c0 \in Int
    BY <1>1, <2>1, CounterType DEF NetInv
  <2>3. c - c0 <= CpuPower * dt
    <3> DEFINE x == boot + CpuPower * t0
               y == CpuPower * dt
    <3>1. x \in Nat /\ y \in Nat /\ boot + CpuPower * now = x + y
      BY <1>1
    <3> HIDE DEF x, y
    <3>2. ((x + y) % CounterRange) - (x % CounterRange) <= y
      BY <3>1, CounterAdvance, SamplerAssumption
    <3> QED
      BY <2>1, <3>1, <3>2 DEF CounterAt, x, y
  <2> HIDE DEF dt
  <2> QED
    BY <1>1, <1>2, <1>3, <2>2, <2>3 DEF Gross, dt
<1>5. CASE ~UsesCpu
  <2> HIDE DEF dt
  <2> QED
    BY <1>1, <1>2, <1>3, <1>5 DEF Gross, dt
<1> QED
  BY <1>4, <1>5

(* The run that is recorded.                                               *)
LEMMA RecordWithinMeans ==
  ASSUME NetInv, NEW c, Record(c)
  PROVE  NetWithinMeans'
<1> DEFINE dt == now - t0
           gross == Gross(c, dt)
           floor == Floor(dt)
<1>1. /\ pc = "record" /\ idle' = idle /\ script' = script
      /\ result'.net = Clamp(IdleReadings * gross - floor) /\ result'.dt = dt
      /\ ReadingOfRun(c)
  BY DEF Record, idleVars, NetOf
<1> SUFFICES ASSUME ~misread', idle >= 0
             PROVE  result'.net <= Clamp(2 * IdleReadings * (CpuPower + MaxPower) * dt - floor)
  BY <1>1 DEF NetWithinMeans, Floor
<1>2. (UsesCpu => ~misread) /\ (UsesCpu => c = CounterAt(now))
  BY <1>1 DEF ReadingOfRun, Reading, faultVars
<1>3. dt \in Nat /\ gross \in Int /\ gross <= Means(dt)
  BY <1>1, <1>2, GrossWithinMeans
<1>4. floor \in Int
  BY <1>3, SamplerAssumption DEF NetInv, Charged, Floor
<1> HIDE DEF dt, gross, floor
<1>5. /\ IdleReadings \in Nat /\ Means(dt) \in Nat /\ Means(dt) - gross \in Nat
      /\ 2 * IdleReadings * (CpuPower + MaxPower) * dt = IdleReadings * Means(dt)
  BY <1>3, SamplerAssumption DEF Means
<1>6. /\ IdleReadings * (Means(dt) - gross) \in Nat
      /\ IdleReadings * (Means(dt) - gross) = IdleReadings * Means(dt) - IdleReadings * gross
      /\ IdleReadings * Means(dt) \in Int /\ IdleReadings * gross \in Int
  BY <1>3, <1>5
<1>7. IdleReadings * gross - floor <= IdleReadings * Means(dt) - floor
  BY <1>4, <1>6
<1>8. \A x, y \in Int : x <= y => Clamp(x) <= Clamp(y)
  BY DEF Clamp
<1> QED
  BY <1>1, <1>4, <1>5, <1>6, <1>7, <1>8

(* The sum stays within the time that has passed.                          *)
LEMMA SumCharges ==
  ASSUME NetInv, Sum
  PROVE  Charged'
<1>1. /\ pc = "sum" /\ pc' \in {"sum", "record"} /\ SamplerInv'
      /\ UNCHANGED <<idle, boot, misread, script, c0, t0, now, n, run, samples, power>>
  BY SumKeeps DEF Sum, NetInv, clockVars, threadVars, idleVars, faultVars
<1>2. UsesCpu' = UsesCpu /\ CounterAt(t0)' = CounterAt(t0)
  BY <1>1 DEF UsesCpu, CounterAt
<1>3. 0 <= joules' /\ joules' <= 2 * MaxPower * (now - t0)
  <2>1. CASE i < n
    <3>1. n > 1 /\ pc' = "sum" /\ n \in Nat
      BY <1>1, <2>1 DEF Sum, NetInv, SamplerInv, Shape, Summed
    <3> DEFINE e == Samples'[i'][1] - Samples'[1][1]
    <3>2. /\ i' \in 1 .. n /\ n <= Len(Samples') /\ Len(Samples') \in Nat
          /\ 0 <= joules' /\ joules' <= 2 * MaxPower * e /\ joules' \in Int
      BY <1>1, <3>1 DEF SamplerInv, Shape, Summed, Samples, SamplerOf
    <3>3. i' \in 1 .. Len(Samples') /\ 1 \in 1 .. Len(Samples')
      BY <3>1, <3>2
    <3>4. /\ Samples'[i'][1] \in Nat /\ Samples'[1][1] \in Nat
          /\ Samples'[i'][1] <= now /\ t0 <= Samples'[1][1] /\ now \in Nat /\ t0 \in Nat
      BY <1>1, <3>3
         DEF SamplerInv, Shape, Ordered, Measuring, Samples, SamplerOf, Sample
    <3>5. e \in Int /\ (now - t0) - e \in Nat
      BY <3>4
    <3> HIDE DEF e
    <3>6. /\ 2 * MaxPower * ((now - t0) - e) \in Nat
          /\ 2 * MaxPower * ((now - t0) - e) = 2 * MaxPower * (now - t0) - 2 * MaxPower * e
          /\ 2 * MaxPower * (now - t0) \in Int /\ 2 * MaxPower * e \in Int
      BY <3>4, <3>5, SamplerAssumption
    <3> QED
      BY <3>2, <3>6
  <2>2. CASE ~(i < n)
    BY <1>1, <2>2 DEF Sum, NetInv, Charged
  <2> QED
    BY <2>1, <2>2
<1>4. pc' = "sum" => n > 1
  BY <1>1 DEF Sum, NetInv, SamplerInv, Shape, Summed
<1>5. n \in Nat
  BY DEF NetInv, SamplerInv, Shape
<1> QED
  BY <1>1, <1>2, <1>3, <1>4, <1>5 DEF NetInv, Charged, Measuring

(* Steps that neither read the counter nor record.                         *)
LEMMA UnrecordedKeeps ==
  ASSUME NetInv, UNCHANGED <<idle, boot, script, result, misread>>, Charged'
  PROVE  NetWithinMeans'
BY DEF NetInv, NetWithinMeans, Floor

LEMMA NetStep == NetInv /\ [Next]_vars => NetInv'
<1> SUFFICES ASSUME NetInv, [Next]_vars PROVE NetInv'
  OBVIOUS
<1>0. SamplerInv' /\ SamplerInv
  BY SamplerStep DEF NetInv
<1> USE DEF NetInv, clockVars, threadVars, idleVars, sumVars, faultVars
<1>1. ASSUME NEW c \in CounterValues, NEW w \in {0, power}, MeasureIdle(c, w)
      PROVE  NetInv'
  <2>1. now \in Nat /\ power \in Int
    BY <1>0 DEF SamplerInv, Shape
  <2>2. c \in Int /\ w \in Int
    BY <1>1, <2>1, CounterType DEF CounterValues
  <2>3. /\ pc = "idle" /\ pc' \in {"idle", "begin"} /\ result' = None
        /\ last' \in Int /\ boot' = boot
        /\ idle' = idle + (c - last) + w /\ idle \in Int /\ last \in Int
    BY <1>1, <2>2 DEF MeasureIdle, Charged
  <2>4. idle' \in Int
    BY <2>2, <2>3
  <2>5. misread' \in BOOLEAN
    BY <1>1 DEF MeasureIdle, Charged, Reading, ReadMw
  <2>6. Charged'
    BY <2>3, <2>4, <2>5 DEF Charged, Measuring
  <2> QED
    BY <1>0, <2>3, <2>4, <2>6, NothingWithinMeans
<1>2. ASSUME NEW c, Begin(c) PROVE NetInv'
  <2>1. /\ pc' = "start" /\ result' = None /\ t0' = now /\ c0' = c
        /\ UNCHANGED <<idle, boot, script>>
    BY <1>2 DEF Begin
  <2>2. misread' \in BOOLEAN /\ (UsesCpu /\ ~misread' => c = CounterAt(now))
    BY <1>2 DEF Begin, ReadingOfRun, Reading, Charged
  <2>3. Charged'
    BY <2>1, <2>2 DEF Charged, UsesCpu, CounterAt, Measuring
  <2> QED
    BY <1>0, <2>1, <2>3, NothingWithinMeans DEF Charged
<1>3. CASE Start \/ Stop
  <2>1. Charged'
    BY <1>3 DEF Start, Stop, Charged, UsesCpu, CounterAt, Measuring
  <2> QED
    BY <1>0, <1>3, <2>1, UnrecordedKeeps DEF Start, Stop
<1>4. CASE Join
  <2>1. /\ now \in Nat /\ t0 \in Nat /\ t0 <= now /\ joules' = 0 /\ pc = "join" /\ pc' = "sum"
        /\ UNCHANGED <<now, t0, idle, boot, script, result, misread, c0>>
    BY <1>0, <1>4 DEF Join, SamplerInv, Shape, Ordered, Measuring
  <2>2. 0 <= 2 * MaxPower * (now - t0)
    BY <2>1, SamplerAssumption
  <2>3. Charged'
    BY <2>1, <2>2 DEF Charged, UsesCpu, CounterAt, Measuring
  <2> QED
    BY <1>0, <2>1, <2>3, UnrecordedKeeps
<1>5. CASE Sum
  BY <1>0, <1>5, SumCharges, UnrecordedKeeps DEF Sum
<1>6. ASSUME NEW c, Record(c) PROVE NetInv'
  <2>1. misread' \in BOOLEAN
    BY <1>6 DEF Record, ReadingOfRun, Reading, Charged
  <2>2. Charged'
    BY <1>6, <2>1 DEF Record, Charged, Measuring
  <2> QED
    BY <1>0, <1>6, <2>2, RecordWithinMeans
<1>7. ASSUME NEW r \in RunIds, Thread(r) PROVE NetInv'
  <2>1. /\ UNCHANGED <<now, t0, idle, boot, script, result, c0, pc, n, joules, last>>
        /\ misread' = misread
    BY <1>7 DEF Thread, Check, Stamp, Read, Wake, ReadMw
  <2>2. Charged'
    BY <2>1 DEF Charged, UsesCpu, CounterAt
  <2> QED
    BY <1>0, <2>1, <2>2, UnrecordedKeeps
<1>8. CASE Tick
  <2>1. /\ UNCHANGED <<t0, idle, boot, script, result, c0, pc, n, joules, last, misread>>
        /\ now' = now + 1 /\ pc \notin {"idle", "sum"}
    BY <1>8 DEF Tick, Pausing
  <2>2. ASSUME pc = "record" PROVE 0 <= joules' /\ joules' <= 2 * MaxPower * (now' - t0')
    <3>1. /\ now \in Nat /\ t0 \in Nat /\ joules \in Int /\ 0 <= joules
          /\ joules <= 2 * MaxPower * (now - t0) /\ now' - t0' = now + 1 - t0
      BY <1>0, <2>1, <2>2 DEF SamplerInv, Shape, Charged
    <3>2. /\ 2 * MaxPower * (now + 1 - t0) = 2 * MaxPower * (now - t0) + 2 * MaxPower
          /\ 2 * MaxPower * (now - t0) \in Int /\ 2 * MaxPower \in Nat
      BY <3>1, SamplerAssumption
    <3> QED
      BY <2>1, <3>1, <3>2
  <2>3. Charged'
    BY <2>1, <2>2 DEF Charged, UsesCpu, CounterAt, Measuring
  <2> QED
    BY <1>0, <2>1, <2>3, UnrecordedKeeps
<1>9. CASE UNCHANGED vars
  <2>1. UNCHANGED <<now, t0, idle, boot, script, result, c0, pc, n, joules, last, misread>>
    BY <1>9 DEF vars
  <2>2. Charged'
    BY <2>1 DEF Charged, UsesCpu, CounterAt
  <2> QED
    BY <1>0, <2>1, <2>2, UnrecordedKeeps
<1> QED
  BY <1>1, <1>2, <1>3, <1>4, <1>5, <1>6, <1>7, <1>8, <1>9 DEF Next, Main

(* The net energy of a run is within what the hardware can use in that     *)
(* time beyond idling, wherever its counter stood, whenever it wrapped and *)
(* however long the readings took (scripts/e1_ensemble_collector.py:263). *)
THEOREM NetEnergyWithinMeans == Spec => []NetWithinMeans
<1>1. Init => NetInv
  <2> SUFFICES ASSUME Init PROVE NetInv
    OBVIOUS
  <2>1. /\ idle = 0 /\ boot \in 0 .. CounterRange - 1 /\ result = None /\ pc = "idle"
        /\ misread = FALSE /\ last = CounterAt(0)
    BY SamplerAssumption DEF Init
  <2>2. last \in Int
    BY <2>1, SamplerAssumption DEF CounterAt
  <2>3. Charged
    <3>0. misread \in BOOLEAN
      BY <2>1, Zenon
    <3>1. idle \in Int
      BY <2>1
    <3>2. pc \notin Measuring \cup {"start"} /\ pc \notin {"sum", "record"}
      BY <2>1 DEF Measuring
    <3> QED
      BY <2>1, <2>2, <3>0, <3>1, <3>2 DEF Charged
  <2> QED
    BY <2>1, <2>3, SamplerInit, NothingWithinMeans DEF NetInv
<1>2. NetInv => NetWithinMeans
  BY DEF NetInv
<1> QED
  BY <1>1, <1>2, NetStep, PTL DEF Spec
==============================================================================
