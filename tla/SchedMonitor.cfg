SPECIFICATION SchedSpec
CONSTANTS
  Cpus = {c1, c2}
  Threads = {t1, t2, t3}
  Idle = idle
  MaxEntries = 2
  RingSize = 1
  Width = 8
  MaxTime = 4
INVARIANT
  TimeReportedOnce
CHECK_DEADLOCK FALSE
