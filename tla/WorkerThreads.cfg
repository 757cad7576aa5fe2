\* Up to three workers: the constructor starts one or two of them, one or two
\* are added while the others are held, at work, at the sync point or ended.
CONSTANTS
  Workers = {w1, w2, w3}
  main = main
  other = other
  Clients <- TwoClients
  Main = main
  May <- MainAndOther
  Programs <- OneOrTwo
  StopPaused = FALSE
SPECIFICATION Spec
INVARIANTS TypeOK QuietWhilePaused StopIsFinal
PROPERTIES SyncTogether PauseReturns StopReturns JoinReturns
