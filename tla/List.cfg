\* Four nodes: one at each end, one between and one to insert; the size wraps
\* at four.  Three threads: two can wait in a pop while the third adds.  One
\* iterator.
CONSTANTS
  Nodes = {n1, n2, n3, n4}
  NULL = NULL
  Sizes = 4
  Threads = {t1, t2, t3}
  Exclusive = TRUE
SPECIFICATION WalkSpec
INVARIANTS TypeOK SizeMatches LinksMend NoLostWakeup WalkMeetsAll
PROPERTIES ImplementsDeque
SYMMETRY Symmetric
