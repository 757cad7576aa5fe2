\* Three parents: one asleep, one awake, one let through.  Three children: one
\* done, one running, one started late.
CONSTANTS
  Parents = {p1, p2, p3}
  Children = {c1, c2, c3}
SPECIFICATION FanInSpec
INVARIANTS FanInTypeOK WaitMeansAllDone
PROPERTIES WaitReturns
