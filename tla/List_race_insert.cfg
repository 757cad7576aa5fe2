\* Other threads use the list between the two steps of a call.
CONSTANTS
  Nodes = {n1, n2, n3}
  NULL = NULL
  Sizes = 4
  Threads = {t1, t2}
  Exclusive = FALSE
SPECIFICATION WalkSpec
INVARIANTS NoNodeLost
SYMMETRY Symmetric
