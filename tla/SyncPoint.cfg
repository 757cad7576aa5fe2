\* Four threads, rounds of every size: enough for a round in which some
\* sleep, some are awake and some have left while others have not come.
CONSTANTS
  Threads = {t1, t2, t3, t4}
  EagerRearm = FALSE
SPECIFICATION Spec
INVARIANTS TypeOK
PROPERTIES LeaveTogether SyncReturns
