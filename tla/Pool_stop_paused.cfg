\* stop(), or the destructor, while the pool is paused.
CONSTANTS
  Workers = {w1, w2}
  main = main
  other = other
  Clients <- OneClient
  Main = main
  Tasks = {k1}
  NoTask = NoTask
  May <- MainDoesAll
  StopPaused = TRUE
SPECIFICATION Spec
PROPERTIES StopReturns
