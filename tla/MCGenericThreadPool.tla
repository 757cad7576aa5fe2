------------------------ MODULE MCGenericThreadPool -------------------------
EXTENDS GenericThreadPool

CONSTANTS main, other

\* The clients of the runs.
OneClient == {main}
TwoClients == {main, other}

\* The main thread does everything, as in the examples and the tests.
MainDoesAll == [c \in OneClient |-> {"push", "pause", "add", "stop"}]

\* Another thread pushes the tasks.
OtherPushes ==
  [c \in TwoClients |-> IF c = main THEN {"pause", "add", "stop"} ELSE {"push"}]

\* Another thread adds workers while the main thread pauses the pool.
OtherAdds ==
  [c \in TwoClients |-> IF c = main THEN {"pause"} ELSE {"add"}]

\* Symmetry is used in runs without liveness properties only.
Symmetric == Permutations(Workers) \cup Permutations(Tasks)
=============================================================================
