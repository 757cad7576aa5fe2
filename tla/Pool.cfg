\* The main thread adds a worker, pauses, resumes and stops, while another one
\* pushes tasks.  Two workers: one held, started or ended while the other is
\* at a task.  Two tasks: one run while the other is queued.
CONSTANTS
  Workers = {w1, w2}
  main = main
  other = other
  Clients <- TwoClients
  Main = main
  Tasks = {k1, k2}
  NoTask = NoTask
  May <- OtherPushes
  StopPaused = FALSE
SPECIFICATION Spec
INVARIANTS TypeOK QuietWhilePaused StopIsFinal
PROPERTIES TaskRunsOnce QueuedTaskRunsUnlessHeld PauseReturns StopReturns
