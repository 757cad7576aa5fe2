\* add_thread() by one thread during pause() by another.
CONSTANTS
  Workers = {w1, w2, w3}
  main = main
  other = other
  Clients <- TwoClients
  Main = main
  Tasks = {k1}
  NoTask = NoTask
  May <- OtherAdds
  StopPaused = FALSE
SPECIFICATION Spec
INVARIANTS QuietWhilePaused
SYMMETRY Symmetric
