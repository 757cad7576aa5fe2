\* Two of the demo's threads under a main thread that calls sync() too.
CONSTANTS
  Workers = {w1, w2}
  main = main
  other = other
  Clients <- TwoClients
  Main = main
  May <- MainSyncs
  Programs <- Syncing
  StopPaused = FALSE
SPECIFICATION Spec
PROPERTIES AllSynced
