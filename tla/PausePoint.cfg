\* One controller and workers that may end: four of them are held, awake, at
\* work or gone at once.
CONSTANTS
  Workers = {w1, w2, w3, w4}
  Controllers = {c1}
  MayExit = TRUE
SPECIFICATION Spec
INVARIANTS TypeOK PausedMeansAllStopped ResumedMeansNoneStopped CountMatches
PROPERTIES PauseReturns ResumeReturns
